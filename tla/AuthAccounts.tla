---------------------------- MODULE AuthAccounts ----------------------------
(***************************************************************************)
(* Accounts of the auth service: registration, verification of the email   *)
(* by a mailed code, resending it, connect keys, and the bootstrap user    *)
(* that cmd/auth sets up before it serves.                                 *)
(*                                                                         *)
(* A request is one HTTP request and its goroutine. Each call of the store *)
(* is one action, for both stores make it atomic, and so is a mail. What   *)
(* precedes the first call of a handler (decoding, hashing) shares nothing *)
(* and belongs to that call. A call of Postgres may fail without effect,   *)
(* or take effect and come back as an error; a request whose first call    *)
(* fails is left out, for it changes nothing.                              *)
(*                                                                         *)
(* A user is named by its username, which is never reused. Codes and keys  *)
(* are random and drawn from small sets, so that two draws may coincide;   *)
(* a stored code is told from an equal one by the request that drew it.    *)
(***************************************************************************)
EXTENDS Naturals, FiniteSets

CONSTANTS
  Names,        \* usernames
  Emails,
  Codes,        \* verification codes
  Keys,         \* connect keys
  Requests,     \* HTTP requests
  MaxAttempts,  \* MaxVerificationAttempts
  KeyAttempts,  \* connectKeyAttempts
  Setups,       \* the ways the service is set up, see below
  None

\* memory: the in-memory store of auth-dev, else Postgres.  name and email:
\* AUTH_BOOTSTRAP_USERNAME, or None, and AUTH_BOOTSTRAP_EMAIL.  requests: a
\* bound, those that may arrive.
ASSUME SetupsAssumption ==
  \A s \in Setups :
    /\ s.memory \in BOOLEAN /\ s.requests \subseteq Requests
    /\ s.name # None => s.name \in Names /\ s.email \in Emails /\ ~s.memory

\* An account has the password of whoever made it.
Accounts == [email : Emails, password : {"user", "operator"}]
Verifs   == [code : Codes, attempts : 0 .. MaxAttempts, by : Requests]

ASSUME AccountsAssumption ==
  /\ MaxAttempts \in Nat \ {0} /\ KeyAttempts \in Nat \ {0}
  /\ None \notin Names \cup Emails \cup Codes \cup Keys \cup Requests \cup Accounts \cup Verifs

VARIABLES
  \* the store
  account,    \* account[n]: email and password of the user, or None
  verified,   \* users whose email is verified
  key,        \* key[n]: connect key of the user, or None
  owner,      \* owner[k]: the user GetUserByConnectKey finds, or None
  verif,      \* verif[n]: active code, its failed attempts, who drew it
  expired,    \* requests whose code is past its ExpiresAt
  \* handlers
  op,         \* op[r]: endpoint
  pc,         \* control state
  user,       \* user[r]: the user the handler acts for
  code,       \* code[r]: the code drawn or entered
  tries,      \* tries[r]: connect keys that were taken
  hit,        \* hit[r]: who drew the code that r's entry was wrong for or completed with
  outcome,    \* what the handler answers
  mailed,     \* requests whose mail went out
  \* cmd/auth
  service,    \* where the process is between its start and serving
  setup       \* how it is set up, from Setups

storeVars   == <<account, verified, key, owner, verif, expired>>
requestVars == <<op, pc, user, code, tries, hit, outcome, mailed>>
vars        == <<storeVars, requestVars, service, setup>>

Ops      == {"none", "register", "verify", "resend", "regenerate"}
States   == {"idle", "complete", "mail", "save", "setKey", "done", "lost"}
Outcomes == {"none", "ok", "wrongCode", "refused", "serverError"}
\* "up" serves without a bootstrap user, "booted" with one.
Stages   == {"off", "create", "ensure", "verify", "assign", "up", "booted"}

Init ==
  /\ account = [n \in Names |-> None]
  /\ verified = {}
  /\ key = [n \in Names |-> None]
  /\ owner = [k \in Keys |-> None]
  /\ verif = [n \in Names |-> None]
  /\ expired = {}
  /\ op = [r \in Requests |-> "none"]
  /\ pc = [r \in Requests |-> "idle"]
  /\ user = [r \in Requests |-> None]
  /\ code = [r \in Requests |-> None]
  /\ tries = [r \in Requests |-> 0]
  /\ hit = [r \in Requests |-> None]
  /\ outcome = [r \in Requests |-> "none"]
  /\ mailed = {}
  /\ service = "off"
  /\ setup \in Setups

-----------------------------------------------------------------------------
(* Helpers                                                                 *)

Memory    == setup.memory
BootName  == setup.name
BootEmail == setup.email

Taken(e) == \E n \in Names : account[n] # None /\ account[n].email = e

Arrive(r, o) ==
  /\ r \in setup.requests
  /\ service \in {"up", "booted"}
  /\ pc[r] = "idle"
  /\ op' = [op EXCEPT ![r] = o]

Goto(r, state) ==
  /\ pc' = [pc EXCEPT ![r] = state]
  /\ UNCHANGED outcome

Answer(r, how) ==
  /\ pc' = [pc EXCEPT ![r] = "done"]
  /\ outcome' = [outcome EXCEPT ![r] = how]

\* How a call of the store that took effect comes back.
CallReturns == IF Memory THEN {"ok"} ELSE {"ok", "serverError"}

\* The key belongs to another user: ErrConnectKeyExists.
Clash(n, k) == owner[k] \notin {None, n}

\* Key k becomes the key of n; the keys of Old stop working.
Assign(n, k, Old) ==
  /\ key' = [key EXCEPT ![n] = k]
  /\ owner' = [x \in Keys |-> IF x = k THEN n ELSE IF x \in Old THEN None ELSE owner[x]]

-----------------------------------------------------------------------------
(* POST /register                                                          *)

\* CreateUserWithCode
Register(r, n, e, c, how) ==
  /\ Arrive(r, "register")
  /\ account[n] = None /\ ~Taken(e)
  /\ account' = [account EXCEPT ![n] = [email |-> e, password |-> "user"]]
  /\ verif' = [verif EXCEPT ![n] = [code |-> c, attempts |-> 0, by |-> r]]
  /\ user' = [user EXCEPT ![r] = n]
  /\ code' = [code EXCEPT ![r] = c]
  /\ IF how = "ok" THEN Goto(r, "mail") ELSE Answer(r, how)
  /\ UNCHANGED <<verified, key, owner, expired, tries, hit, mailed, service, setup>>

\* user_exists or email_exists
RegisterConflict(r, n, e) ==
  /\ Arrive(r, "register")
  /\ account[n] # None \/ Taken(e)
  /\ Answer(r, "refused")
  /\ UNCHANGED <<storeVars, user, code, tries, hit, mailed, service, setup>>

-----------------------------------------------------------------------------
(* Mail, of register and of resend                                         *)

MailSent(r) ==
  /\ pc[r] = "mail"
  /\ mailed' = mailed \cup {r}
  /\ IF op[r] = "resend" THEN Goto(r, "save") ELSE Answer(r, "ok")
  /\ UNCHANGED <<storeVars, op, user, code, tries, hit, service, setup>>

\* Mutant of MailFails: the error is logged and the handler goes on.
MailFailsSaved(r) ==
  /\ pc[r] = "mail"
  /\ IF op[r] = "resend" THEN Goto(r, "save") ELSE Answer(r, "serverError")
  /\ UNCHANGED <<storeVars, op, user, code, tries, hit, mailed, service, setup>>

MailFails(r) ==
  /\ pc[r] = "mail"
  /\ Answer(r, "serverError")
  /\ UNCHANGED <<storeVars, op, user, code, tries, hit, mailed, service, setup>>

-----------------------------------------------------------------------------
(* POST /verify/resend                                                     *)

\* The user is read, and found unverified; a code is drawn.
Resend(r, n, c) ==
  /\ Arrive(r, "resend")
  /\ account[n] # None /\ n \notin verified
  /\ user' = [user EXCEPT ![r] = n]
  /\ code' = [code EXCEPT ![r] = c]
  /\ Goto(r, "mail")
  /\ UNCHANGED <<storeVars, tries, hit, mailed, service, setup>>

\* Unknown or verified email: the same answer.
ResendNothing(r, n) ==
  /\ Arrive(r, "resend")
  /\ account[n] = None \/ n \in verified
  /\ Answer(r, "ok")
  /\ UNCHANGED <<storeVars, user, code, tries, hit, mailed, service, setup>>

\* SaveEmailVerification replaces the active code, and drops expired ones in
\* memory.
SaveEmailVerification(r, how) ==
  /\ pc[r] = "save"
  /\ verif' = [n \in Names |->
       CASE n = user[r] -> [code |-> code[r], attempts |-> 0, by |-> r]
         [] n # user[r] /\ Memory /\ verif[n] # None /\ verif[n].by \in expired -> None
         [] OTHER -> verif[n]]
  /\ Answer(r, how)
  /\ UNCHANGED <<account, verified, key, owner, expired, op, user, code, tries, hit,
                 mailed, service, setup>>

-----------------------------------------------------------------------------
(* POST /verify                                                            *)

\* The user is found by its email.
Verify(r, n, c) ==
  /\ Arrive(r, "verify")
  /\ account[n] # None
  /\ user' = [user EXCEPT ![r] = n]
  /\ code' = [code EXCEPT ![r] = c]
  /\ Goto(r, "complete")
  /\ UNCHANGED <<storeVars, tries, hit, mailed, service, setup>>

VerifyUnknown(r, n) ==
  /\ Arrive(r, "verify")
  /\ account[n] = None
  /\ Answer(r, "refused")
  /\ UNCHANGED <<storeVars, user, code, tries, hit, mailed, service, setup>>

\* CompleteEmailVerification looks at the active code of the user.
Usable(n) ==
  /\ verif[n] # None
  /\ verif[n].by \notin expired
  /\ verif[n].attempts < MaxAttempts

\* There is none, it has expired and goes, or its attempts are used up.
CompleteNotFound(r) ==
  LET n == user[r] IN
  /\ pc[r] = "complete"
  /\ ~Usable(n)
  /\ verif' = [verif EXCEPT ![n] = IF @ # None /\ @.by \in expired THEN None ELSE @]
  /\ Answer(r, "refused")
  /\ UNCHANGED <<account, verified, key, owner, expired, op, user, code, tries, hit,
                 mailed, service, setup>>

\* Mutant of CompleteWrongCode: the attempt is not counted.
WrongCodeUncounted(r, how) ==
  LET n == user[r] IN
  /\ pc[r] = "complete"
  /\ Usable(n)
  /\ verif[n].code # code[r]
  /\ hit' = [hit EXCEPT ![r] = verif[n].by]
  /\ Answer(r, IF how = "ok" THEN "wrongCode" ELSE how)
  /\ UNCHANGED <<storeVars, op, user, code, tries, mailed, service, setup>>

CompleteWrongCode(r, how) ==
  LET n == user[r] IN
  /\ pc[r] = "complete"
  /\ Usable(n)
  /\ verif[n].code # code[r]
  /\ verif' = [verif EXCEPT ![n].attempts = @ + 1]
  /\ hit' = [hit EXCEPT ![r] = verif[n].by]
  /\ Answer(r, IF how = "ok" THEN "wrongCode" ELSE how)
  /\ UNCHANGED <<account, verified, key, owner, expired, op, user, code, tries, mailed, service, setup>>

\* The key is taken: the code stays and another key is drawn. Drawing it
\* overwrites the error, so that after the last attempt the handler goes on
\* to issuePair as if the verification had been done.
CompleteClash(r, k) ==
  LET n == user[r] IN
  /\ pc[r] = "complete"
  /\ Usable(n)
  /\ verif[n].code = code[r]
  /\ Clash(n, k)
  /\ tries' = [tries EXCEPT ![r] = @ + 1]
  /\ IF tries[r] + 1 = KeyAttempts THEN Answer(r, "ok") ELSE Goto(r, "complete")
  /\ UNCHANGED <<storeVars, op, user, code, hit, mailed, service, setup>>

\* Mutant of Complete: the key is not looked at.
CompleteTaken(r, k, how) ==
  LET n == user[r] IN
  /\ pc[r] = "complete"
  /\ Usable(n)
  /\ verif[n].code = code[r]
  /\ verified' = verified \cup {n}
  /\ Assign(n, k, IF Memory THEN {} ELSE {key[n]})
  /\ verif' = [verif EXCEPT ![n] = None]
  /\ hit' = [hit EXCEPT ![r] = verif[n].by]
  /\ Answer(r, how)
  /\ UNCHANGED <<account, expired, op, user, code, tries, mailed, service, setup>>

\* Mutant of Complete: code and key are swapped in the call.
CompleteSwapped(r, k, how) ==
  LET n == user[r] IN
  /\ pc[r] = "complete"
  /\ Usable(n)
  /\ verif[n].code = code[r]
  /\ ~Clash(n, k)
  /\ verified' = verified \cup {n}
  /\ Assign(n, code[r], IF Memory THEN {} ELSE {key[n]})
  /\ verif' = [verif EXCEPT ![n] = None]
  /\ hit' = [hit EXCEPT ![r] = verif[n].by]
  /\ Answer(r, how)
  /\ UNCHANGED <<account, expired, op, user, code, tries, mailed, service, setup>>

\* The code is consumed, the email verified and the key assigned. In memory
\* a key the user had before stays in the index.
Complete(r, k, how) ==
  LET n == user[r] IN
  /\ pc[r] = "complete"
  /\ Usable(n)
  /\ verif[n].code = code[r]
  /\ ~Clash(n, k)
  /\ verified' = verified \cup {n}
  /\ Assign(n, k, IF Memory THEN {} ELSE {key[n]})
  /\ verif' = [verif EXCEPT ![n] = None]
  /\ hit' = [hit EXCEPT ![r] = verif[n].by]
  /\ Answer(r, how)
  /\ UNCHANGED <<account, expired, op, user, code, tries, mailed, service, setup>>

-----------------------------------------------------------------------------
(* POST /connect-key/regenerate                                            *)

\* The bearer of an access token: a verified user who logged in, or whoever
\* got an answer of /verify.
Regenerate(r, n) ==
  /\ Arrive(r, "regenerate")
  /\ n \in verified \/ \E s \in Requests :
       op[s] = "verify" /\ user[s] = n /\ outcome[s] = "ok" /\ pc[s] = "done"
  /\ user' = [user EXCEPT ![r] = n]
  /\ Goto(r, "setKey")
  /\ UNCHANGED <<storeVars, code, tries, hit, mailed, service, setup>>

SetConnectKey(r, k, how) ==
  /\ pc[r] = "setKey"
  /\ ~Clash(user[r], k)
  /\ Assign(user[r], k, {key[user[r]]})
  /\ Answer(r, how)
  /\ UNCHANGED <<account, verified, verif, expired, op, user, code, tries, hit, mailed, service, setup>>

SetKeyClash(r, k) ==
  /\ pc[r] = "setKey"
  /\ Clash(user[r], k)
  /\ tries' = [tries EXCEPT ![r] = @ + 1]
  /\ IF tries[r] + 1 = KeyAttempts THEN Answer(r, "serverError") ELSE Goto(r, "setKey")
  /\ UNCHANGED <<storeVars, op, user, code, hit, mailed, service, setup>>

-----------------------------------------------------------------------------
(* Failures and time                                                       *)

\* A call of the store fails without effect: 500.
StoreFails(r) ==
  /\ ~Memory
  /\ pc[r] \in {"save", "complete", "setKey"}
  /\ Answer(r, "serverError")
  /\ UNCHANGED <<storeVars, op, user, code, tries, hit, mailed, service, setup>>

Expire(n) ==
  /\ verif[n] # None
  /\ expired' = expired \cup {verif[n].by}
  /\ UNCHANGED <<account, verified, key, owner, verif, requestVars, service, setup>>

\* The process stops, at any point. With its signing key the access tokens it
\* gave out become invalid.
Crash ==
  /\ service # "off"
  /\ service' = "off"
  /\ pc' = [r \in Requests |-> IF pc[r] = "idle" THEN "idle" ELSE "lost"]
  /\ UNCHANGED <<storeVars, op, user, code, tries, hit, outcome, mailed, setup>>

-----------------------------------------------------------------------------
(* cmd/auth                                                                *)

BootVars == <<requestVars, expired, setup>>

\* Connecting to the database drops expired codes; the memory of auth-dev
\* starts empty.
Start ==
  /\ service = "off"
  /\ IF Memory
     THEN /\ account' = [n \in Names |-> None]
          /\ verified' = {}
          /\ key' = [n \in Names |-> None]
          /\ owner' = [k \in Keys |-> None]
          /\ verif' = [n \in Names |-> None]
     ELSE /\ verif' = [n \in Names |->
                         IF verif[n] # None /\ verif[n].by \in expired THEN None ELSE verif[n]]
          /\ UNCHANGED <<account, verified, key, owner>>
  /\ service' \in {"up"} \cup (IF BootName = None THEN {} ELSE {"create"})
  /\ UNCHANGED BootVars

\* bootstrapUser: CreateUser, or the name or the email is taken.
BootCreate ==
  /\ service = "create"
  /\ IF account[BootName] = None /\ ~Taken(BootEmail)
     THEN /\ account' = [account EXCEPT ![BootName] =
                           [email |-> BootEmail, password |-> "operator"]]
          /\ service' = "verify"
     ELSE service' = "ensure" /\ UNCHANGED account
  /\ UNCHANGED <<verified, key, owner, verif, BootVars>>

\* Mutant of BootEnsure: an existing account is taken as it is.
BootEnsureNoHeal ==
  /\ service = "ensure"
  /\ service' = IF account[BootName] = [email |-> BootEmail, password |-> "operator"]
                THEN "booted" ELSE "off"
  /\ UNCHANGED <<account, verified, key, owner, verif, BootVars>>

\* ensureBootstrapUser: an account that is not the operator's is fatal.
BootEnsure ==
  /\ service = "ensure"
  /\ service' = IF account[BootName] # [email |-> BootEmail, password |-> "operator"] THEN "off"
                ELSE IF BootName \notin verified THEN "verify"
                ELSE IF key[BootName] = None THEN "assign" ELSE "booted"
  /\ UNCHANGED <<account, verified, key, owner, verif, BootVars>>

\* VerifyEmail
BootVerify ==
  /\ service = "verify"
  /\ verified' = verified \cup {BootName}
  /\ service' = IF key[BootName] = None THEN "assign" ELSE "booted"
  /\ UNCHANGED <<account, key, owner, verif, BootVars>>

\* assignConnectKey; a clash is fatal.
BootAssign(k) ==
  /\ service = "assign"
  /\ IF Clash(BootName, k)
     THEN service' = "off" /\ UNCHANGED <<key, owner>>
     ELSE service' = "booted" /\ Assign(BootName, k, {key[BootName]})
  /\ UNCHANGED <<account, verified, verif, BootVars>>

-----------------------------------------------------------------------------
(* Specification                                                           *)

Request(r) ==
  \/ \E n \in Names :
       \/ \E c \in Codes :
            \/ \E e \in Emails, how \in CallReturns : Register(r, n, e, c, how)
            \/ Resend(r, n, c)
            \/ Verify(r, n, c)
       \/ \E e \in Emails : RegisterConflict(r, n, e)
       \/ ResendNothing(r, n)
       \/ VerifyUnknown(r, n)
       \/ Regenerate(r, n)

Handle(r) ==
  \/ MailSent(r)
  \/ MailFails(r)
  \/ CompleteNotFound(r)
  \/ StoreFails(r)
  \/ \E how \in CallReturns :
       \/ SaveEmailVerification(r, how)
       \/ CompleteWrongCode(r, how)
       \/ \E k \in Keys : Complete(r, k, how) \/ SetConnectKey(r, k, how)
  \/ \E k \in Keys : CompleteClash(r, k) \/ SetKeyClash(r, k)

Bootstrap == BootCreate \/ BootEnsure \/ BootVerify \/ \E k \in Keys : BootAssign(k)

Next ==
  \/ \E r \in Requests : Request(r) \/ Handle(r)
  \/ \E n \in Names : Expire(n)
  \/ Crash
  \/ Start
  \/ Bootstrap

Spec == Init /\ [][Next]_vars

-----------------------------------------------------------------------------
(* Type invariant                                                          *)

\* The store holds records, keys and indexes of their types, the attempts of
\* a code stay within the limit, control states are those of the handlers.
TypeOK ==
  /\ account \in [Names -> Accounts \cup {None}]
  /\ verified \subseteq Names
  /\ key \in [Names -> Keys \cup {None}]
  /\ owner \in [Keys -> Names \cup {None}]
  /\ verif \in [Names -> Verifs \cup {None}]
  /\ expired \subseteq Requests
  /\ op \in [Requests -> Ops]
  /\ pc \in [Requests -> States]
  /\ user \in [Requests -> Names \cup {None}]
  /\ code \in [Requests -> Codes \cup {None}]
  /\ tries \in [Requests -> 0 .. KeyAttempts]
  /\ hit \in [Requests -> Requests \cup {None}]
  /\ outcome \in [Requests -> Outcomes]
  /\ mailed \subseteq Requests
  /\ service \in Stages
  /\ setup \in Setups

-----------------------------------------------------------------------------
(* Safety                                                                  *)

\* Request r entered the right code, and it was consumed.
Completed(r) == hit[r] # None /\ code[hit[r]] = code[r]

\* No more than MaxAttempts entries are ever counted against a code, whatever
\* enters them at once, fails or is repeated: the wrong ones and the one that
\* completes. A right entry whose drawn key is taken leaves the counter as it is
\* (CompleteEmailVerification).
AttemptsBounded ==
  \A q \in Requests : Cardinality({r \in Requests : hit[r] = q}) <= MaxAttempts

\* The code that is stored after a resend was mailed before: a failure of the
\* mail leaves the previous one in place (handleResend).
StoredCodeWasMailed ==
  \A n \in Names : verif[n] # None /\ op[verif[n].by] = "resend" => verif[n].by \in mailed

\* The connect key of a user finds this user (GetUserByConnectKey): no two
\* users ever share one, whoever draws it at the same time.
KeyFindsOwner == \A n \in Names : key[n] # None => owner[key[n]] = n

\* A service that started with a bootstrap user has the operator's own, with
\* everything it needs, wherever earlier starts ended (ensureBootstrapUser).
BootstrapServesOwn ==
  service = "booted" =>
    /\ account[BootName] = [email |-> BootEmail, password |-> "operator"]
    /\ BootName \in verified
    /\ key[BootName] # None

-----------------------------------------------------------------------------
(* What the documentation says and the code does not do                    *)

\* auth-flow.md: POST /verify marks the email verified and assigns the
\* connect key, and returns the tokens.
VerifyAnswerIsTrue ==
  \A r \in Requests : op[r] = "verify" /\ outcome[r] = "ok" =>
    user[r] \in verified /\ key[user[r]] # None

=============================================================================

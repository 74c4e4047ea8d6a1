----------------------------- MODULE AuthTokens -----------------------------
(***************************************************************************)
(* The token endpoints of the auth service: password login, refresh with   *)
(* rotation, revocation, and the authorization code flow with dynamic      *)
(* client registration, over the store of refresh tokens and codes.        *)
(*                                                                         *)
(* A request is one HTTP request and the goroutine that handles it. Each   *)
(* call of the store is one action, for both stores make it atomic (a lock *)
(* in memory, one statement or transaction in Postgres). A call may fail   *)
(* without effect, or take effect and still come back as an error: the     *)
(* connection to the database, or the request's context, can end while the *)
(* commit is under way. Answers are lost; the service restarts.            *)
(*                                                                         *)
(* Tokens and codes are random: each is drawn once. Hashing is injective,  *)
(* a PKCE challenge is named by its verifier. Users are those whose email  *)
(* is verified and whose password the request carries.                     *)
(***************************************************************************)
EXTENDS Naturals, FiniteSets

CONSTANTS
  Users,      \* user ids
  Clients,    \* OAuth client ids
  Uris,       \* redirect URIs that validateRedirectURI admits
  Verifiers,  \* PKCE code verifiers
  Tokens,     \* refresh tokens
  Codes,      \* authorization codes
  Requests,   \* HTTP requests
  Memory,     \* TRUE: the in-memory store of auth-dev, FALSE: Postgres
  None

ASSUME TokensAssumption ==
  /\ Memory \in BOOLEAN
  /\ None \notin Users \cup Tokens \cup Codes \cup Clients
  /\ Tokens \cap (Codes \cup Clients) = {}
  /\ "none" \notin Users /\ "over" \notin Users

VARIABLES
  \* the store
  clients,   \* clients[k]: redirect URIs of the client, {} if not registered
  codes,     \* codes[c]: stored record of the code, or None
  refr,      \* refr[t]: user of the stored refresh token, or None
  expired,   \* stored tokens and codes that are past their ExpiresAt
  \* handlers
  op,        \* op[r]: endpoint
  pc,        \* control state
  arg,       \* arg[r]: token or code the request carries
  claim,     \* claim[r]: client, redirect URI and verifier (challenge)
  who,       \* who[r]: user the handler acts for
  taken,     \* taken[r]: record ConsumeOAuthCode returned
  out,       \* out[r]: token or code the handler drew
  outcome,   \* what the handler answers
  \* history
  chain      \* chain[t]: first token of the session t belongs to

storeVars   == <<clients, codes, refr, expired>>
requestVars == <<op, pc, arg, claim, who, taken, out, outcome>>
vars        == <<storeVars, requestVars, chain>>

Ops      == {"none", "password", "refresh", "revoke", "register", "confirm", "code"}
States   == {"idle", "issue", "rotate", "revoke", "saveClient", "saveCode",
             "consume", "compare", "answer", "done", "lost"}
Outcomes == {"none", "ok", "refused", "serverError"}
Claims   == [client : Clients, uri : Uris, challenge : Verifiers]
Records  == [user : Users, claim : Claims]

Init ==
  /\ clients = [k \in Clients |-> {}]
  /\ codes = [c \in Codes |-> None]
  /\ refr = [t \in Tokens |-> None]
  /\ expired = {}
  /\ op = [r \in Requests |-> "none"]
  /\ pc = [r \in Requests |-> "idle"]
  /\ arg = [r \in Requests |-> None]
  /\ claim = [r \in Requests |-> None]
  /\ who = [r \in Requests |-> None]
  /\ taken = [r \in Requests |-> None]
  /\ out = [r \in Requests |-> None]
  /\ outcome = [r \in Requests |-> "none"]
  /\ chain = [t \in Tokens |-> None]

-----------------------------------------------------------------------------
(* Requests                                                                *)

\* A value nobody drew before (32 random bytes).
Fresh(x) == \A r \in Requests : out[r] # x

\* What answers have told the world.
Told == {out[r] : r \in {s \in Requests : pc[s] = "done" /\ outcome[s] = "ok"}}

Arrive(r, o, next) ==
  /\ pc[r] = "idle"
  /\ op' = [op EXCEPT ![r] = o]
  /\ pc' = [pc EXCEPT ![r] = next]

Answer(r, how) ==
  /\ pc' = [pc EXCEPT ![r] = "answer"]
  /\ outcome' = [outcome EXCEPT ![r] = how]

\* POST /token, grant_type=password, checkCredentials passed.
GrantPassword(r, u) ==
  /\ Arrive(r, "password", "issue")
  /\ who' = [who EXCEPT ![r] = u]
  /\ UNCHANGED <<storeVars, arg, claim, taken, out, outcome, chain>>

\* POST /token, grant_type=refresh_token.
GrantRefresh(r, t) ==
  /\ Arrive(r, "refresh", "rotate")
  /\ t \in Told \cap Tokens
  /\ arg' = [arg EXCEPT ![r] = t]
  /\ UNCHANGED <<storeVars, claim, who, taken, out, outcome, chain>>

\* POST /revoke.
HandleRevoke(r, t) ==
  /\ Arrive(r, "revoke", "revoke")
  /\ t \in Told \cap Tokens
  /\ arg' = [arg EXCEPT ![r] = t]
  /\ UNCHANGED <<storeVars, claim, who, taken, out, outcome, chain>>

\* POST /oauth/register: the handler draws the client id.
HandleOAuthRegister(r, k) ==
  /\ Arrive(r, "register", "saveClient")
  /\ Fresh(k)
  /\ out' = [out EXCEPT ![r] = k]
  /\ UNCHANGED <<storeVars, arg, claim, who, taken, outcome, chain>>

\* POST /authorize/confirm: credentials and validateAuthorize passed.
AuthorizeConfirm(r, u, cl) ==
  /\ Arrive(r, "confirm", "saveCode")
  /\ cl.uri \in clients[cl.client]
  /\ who' = [who EXCEPT ![r] = u]
  /\ claim' = [claim EXCEPT ![r] = cl]
  /\ UNCHANGED <<storeVars, arg, taken, out, outcome, chain>>

\* The client is unknown or the redirect URI is not one of its own.
AuthorizeRefused(r, cl) ==
  /\ pc[r] = "idle"
  /\ cl.uri \notin clients[cl.client]
  /\ op' = [op EXCEPT ![r] = "confirm"]
  /\ Answer(r, "refused")
  /\ UNCHANGED <<storeVars, arg, claim, who, taken, out, chain>>

\* POST /token, grant_type=authorization_code, by whoever knows the code.
GrantAuthorizationCode(r, c, cl) ==
  /\ Arrive(r, "code", "consume")
  /\ c \in Told \cap Codes
  /\ arg' = [arg EXCEPT ![r] = c]
  /\ claim' = [claim EXCEPT ![r] = cl]
  /\ UNCHANGED <<storeVars, who, taken, out, outcome, chain>>

-----------------------------------------------------------------------------
(* Store calls of the handlers                                             *)

Valid(x) == x \notin expired

\* The in-memory store drops expired records when it writes.
Swept(f) == [x \in DOMAIN f |-> IF Memory /\ x \in expired THEN None ELSE f[x]]

\* How a call of the store that took effect comes back.
CallReturns == IF Memory THEN {"ok"} ELSE {"ok", "serverError"}

\* Mutant of Issue: hash and user of the record are swapped.
IssueSwapped(r, n, how) ==
  /\ pc[r] = "issue"
  /\ Fresh(n)
  /\ refr' = [refr EXCEPT ![n] = n]
  /\ chain' = [chain EXCEPT ![n] = n]
  /\ out' = [out EXCEPT ![r] = n]
  /\ Answer(r, how)
  /\ UNCHANGED <<clients, codes, expired, op, arg, claim, who, taken>>

\* issuePair: SaveRefresh, then the answer.
Issue(r, n, how) ==
  /\ pc[r] = "issue"
  /\ Fresh(n)
  /\ refr' = [refr EXCEPT ![n] = who[r]]
  /\ chain' = [chain EXCEPT ![n] = n]
  /\ out' = [out EXCEPT ![r] = n]
  /\ Answer(r, how)
  /\ UNCHANGED <<clients, codes, expired, op, arg, claim, who, taken>>

\* Mutant of Rotate: the old record stays.
RotateKeeps(r, n, how) ==
  /\ pc[r] = "rotate"
  /\ refr[arg[r]] # None
  /\ Valid(arg[r])
  /\ Fresh(n)
  /\ refr' = [Swept(refr) EXCEPT ![n] = refr[arg[r]]]
  /\ chain' = [chain EXCEPT ![n] = chain[arg[r]]]
  /\ out' = [out EXCEPT ![r] = n]
  /\ Answer(r, how)
  /\ UNCHANGED <<clients, codes, expired, op, arg, claim, who, taken>>

\* Mutant of Rotate: the expiry is not looked at.
RotateExpired(r, n, how) ==
  /\ pc[r] = "rotate"
  /\ refr[arg[r]] # None
  /\ Fresh(n)
  /\ refr' = [Swept(refr) EXCEPT ![arg[r]] = None, ![n] = refr[arg[r]]]
  /\ chain' = [chain EXCEPT ![n] = chain[arg[r]]]
  /\ out' = [out EXCEPT ![r] = n]
  /\ Answer(r, how)
  /\ UNCHANGED <<clients, codes, expired, op, arg, claim, who, taken>>

\* grantRefresh: RotateRefresh finds the old token, and replaces it.
Rotate(r, n, how) ==
  /\ pc[r] = "rotate"
  /\ refr[arg[r]] # None
  /\ Valid(arg[r])
  /\ Fresh(n)
  /\ refr' = [Swept(refr) EXCEPT ![arg[r]] = None, ![n] = refr[arg[r]]]
  /\ chain' = [chain EXCEPT ![n] = chain[arg[r]]]
  /\ out' = [out EXCEPT ![r] = n]
  /\ Answer(r, how)
  /\ UNCHANGED <<clients, codes, expired, op, arg, claim, who, taken>>

\* The old token is unknown, expired or used.
RotateNotFound(r) ==
  /\ pc[r] = "rotate"
  /\ refr[arg[r]] = None \/ ~Valid(arg[r])
  /\ refr' = Swept(refr)
  /\ Answer(r, "refused")
  /\ UNCHANGED <<clients, codes, expired, op, arg, claim, who, taken, out, chain>>

\* Mutant of Revoke: every token of the user goes.
RevokeUser(r, how) ==
  /\ pc[r] = "revoke"
  /\ refr' = [t \in Tokens |-> IF refr[t] = refr[arg[r]] THEN None ELSE refr[t]]
  /\ Answer(r, how)
  /\ UNCHANGED <<clients, codes, expired, op, arg, claim, who, taken, out, chain>>

\* handleRevoke: RevokeRefresh, whether or not there is a record.
Revoke(r, how) ==
  /\ pc[r] = "revoke"
  /\ refr' = [refr EXCEPT ![arg[r]] = None]
  /\ Answer(r, how)
  /\ UNCHANGED <<clients, codes, expired, op, arg, claim, who, taken, out, chain>>

\* SaveOAuthClient with the redirect URIs of the request.
SaveOAuthClient(r, U, how) ==
  /\ pc[r] = "saveClient"
  /\ clients' = [clients EXCEPT ![out[r]] = U]
  /\ Answer(r, how)
  /\ UNCHANGED <<codes, refr, expired, op, arg, claim, who, taken, out, chain>>

\* SaveOAuthCode
SaveOAuthCode(r, c, how) ==
  /\ pc[r] = "saveCode"
  /\ Fresh(c)
  /\ codes' = [Swept(codes) EXCEPT ![c] = [user |-> who[r], claim |-> claim[r]]]
  /\ out' = [out EXCEPT ![r] = c]
  /\ Answer(r, how)
  /\ UNCHANGED <<clients, refr, expired, op, arg, claim, who, taken, chain>>

\* Mutant of Consume: the record is read, and deleted by nobody.
ConsumeKeeps(r) ==
  /\ pc[r] = "consume"
  /\ codes[arg[r]] # None
  /\ Valid(arg[r])
  /\ taken' = [taken EXCEPT ![r] = codes[arg[r]]]
  /\ pc' = [pc EXCEPT ![r] = "compare"]
  /\ UNCHANGED <<storeVars, op, arg, claim, who, out, outcome, chain>>

\* ConsumeOAuthCode takes the record out of the store, before anything is
\* compared.
Consume(r) ==
  /\ pc[r] = "consume"
  /\ codes[arg[r]] # None
  /\ Valid(arg[r])
  /\ taken' = [taken EXCEPT ![r] = codes[arg[r]]]
  /\ codes' = [codes EXCEPT ![arg[r]] = None]
  /\ pc' = [pc EXCEPT ![r] = "compare"]
  /\ UNCHANGED <<clients, refr, expired, op, arg, claim, who, out, outcome, chain>>

\* The record is gone from the store, and the handler does not have it.
ConsumeUnknown(r) ==
  /\ ~Memory
  /\ pc[r] = "consume"
  /\ codes[arg[r]] # None
  /\ Valid(arg[r])
  /\ codes' = [codes EXCEPT ![arg[r]] = None]
  /\ Answer(r, "serverError")
  /\ UNCHANGED <<clients, refr, expired, op, arg, claim, who, taken, out, chain>>

ConsumeNotFound(r) ==
  /\ pc[r] = "consume"
  /\ codes[arg[r]] = None \/ ~Valid(arg[r])
  /\ codes' = [codes EXCEPT ![arg[r]] = IF Memory THEN None ELSE @]
  /\ Answer(r, "refused")
  /\ UNCHANGED <<clients, refr, expired, op, arg, claim, who, taken, out, chain>>

\* Mutant of Match: PKCE alone decides.
MatchVerifier(r) ==
  /\ pc[r] = "compare"
  /\ claim[r].challenge = taken[r].claim.challenge
  /\ who' = [who EXCEPT ![r] = taken[r].user]
  /\ pc' = [pc EXCEPT ![r] = "issue"]
  /\ UNCHANGED <<storeVars, op, arg, claim, taken, out, outcome, chain>>

\* Client, redirect URI and verifier are those of the record.
Match(r) ==
  /\ pc[r] = "compare"
  /\ claim[r] = taken[r].claim
  /\ who' = [who EXCEPT ![r] = taken[r].user]
  /\ pc' = [pc EXCEPT ![r] = "issue"]
  /\ UNCHANGED <<storeVars, op, arg, claim, taken, out, outcome, chain>>

Mismatch(r) ==
  /\ pc[r] = "compare"
  /\ claim[r] # taken[r].claim
  /\ Answer(r, "refused")
  /\ UNCHANGED <<storeVars, op, arg, claim, who, taken, out, chain>>

\* A call of the store fails and has no effect: 500.
StoreFails(r) ==
  /\ ~Memory
  /\ pc[r] \in {"issue", "rotate", "revoke", "saveClient", "saveCode", "consume"}
  /\ Answer(r, "serverError")
  /\ UNCHANGED <<storeVars, op, arg, claim, who, taken, out, chain>>

-----------------------------------------------------------------------------
(* Answers, time and restarts                                              *)

Deliver(r) ==
  /\ pc[r] = "answer"
  /\ pc' = [pc EXCEPT ![r] = "done"]
  /\ UNCHANGED <<storeVars, op, arg, claim, who, taken, out, outcome, chain>>

\* The answer never reaches the client.
Lose(r) ==
  /\ pc[r] = "answer"
  /\ pc' = [pc EXCEPT ![r] = "lost"]
  /\ UNCHANGED <<storeVars, op, arg, claim, who, taken, out, outcome, chain>>

ExpireToken(t) ==
  /\ refr[t] # None
  /\ Valid(t)
  /\ expired' = expired \cup {t}
  /\ UNCHANGED <<clients, codes, refr, requestVars, chain>>

ExpireCode(c) ==
  /\ codes[c] # None
  /\ Valid(c)
  /\ expired' = expired \cup {c}
  /\ UNCHANGED <<clients, codes, refr, requestVars, chain>>

\* What a restart leaves of a table: purgeExpired, or nothing at all.
Restarted(f) == [x \in DOMAIN f |-> IF Memory \/ x \in expired THEN None ELSE f[x]]

\* The service stops at any point and starts again.
Restart ==
  /\ pc' = [r \in Requests |-> IF pc[r] \in {"idle", "done"} THEN pc[r] ELSE "lost"]
  /\ refr' = Restarted(refr)
  /\ codes' = Restarted(codes)
  /\ clients' = IF Memory THEN [k \in Clients |-> {}] ELSE clients
  /\ UNCHANGED <<expired, op, arg, claim, who, taken, out, outcome, chain>>

-----------------------------------------------------------------------------
(* Specification                                                           *)

Request(r) ==
  \/ \E u \in Users : GrantPassword(r, u)
  \/ \E t \in Tokens : GrantRefresh(r, t) \/ HandleRevoke(r, t)
  \/ \E k \in Clients : HandleOAuthRegister(r, k)
  \/ \E cl \in Claims : \/ \E u \in Users : AuthorizeConfirm(r, u, cl)
                        \/ AuthorizeRefused(r, cl)
                        \/ \E c \in Codes : GrantAuthorizationCode(r, c, cl)

Handle(r) ==
  \/ \E how \in CallReturns :
       \/ \E n \in Tokens : Issue(r, n, how) \/ Rotate(r, n, how)
       \/ Revoke(r, how)
       \/ \E U \in SUBSET Uris \ {{}} : SaveOAuthClient(r, U, how)
       \/ \E c \in Codes : SaveOAuthCode(r, c, how)
  \/ RotateNotFound(r)
  \/ Consume(r)
  \/ ConsumeUnknown(r)
  \/ ConsumeNotFound(r)
  \/ Match(r)
  \/ Mismatch(r)
  \/ StoreFails(r)

Next ==
  \/ \E r \in Requests : Request(r) \/ Handle(r) \/ Deliver(r) \/ Lose(r)
  \/ \E t \in Tokens : ExpireToken(t)
  \/ \E c \in Codes : ExpireCode(c)
  \/ Restart

Spec == Init /\ [][Next]_vars

-----------------------------------------------------------------------------
(* Type invariant                                                          *)

\* Requests carry tokens or codes, records have their fields, and control
\* states are those of the handlers.
TypeOK ==
  /\ clients \in [Clients -> SUBSET Uris]
  /\ codes \in [Codes -> Records \cup {None}]
  /\ refr \in [Tokens -> Users \cup {None}]
  /\ expired \subseteq Tokens \cup Codes
  /\ op \in [Requests -> Ops]
  /\ pc \in [Requests -> States]
  /\ arg \in [Requests -> Tokens \cup Codes \cup {None}]
  /\ claim \in [Requests -> Claims \cup {None}]
  /\ who \in [Requests -> Users \cup {None}]
  /\ taken \in [Requests -> Records \cup {None}]
  /\ out \in [Requests -> Tokens \cup Codes \cup Clients \cup {None}]
  /\ outcome \in [Requests -> Outcomes]
  /\ chain \in [Tokens -> Tokens \cup {None}]

-----------------------------------------------------------------------------
(* Safety                                                                  *)

\* A session has at most one stored refresh token, whatever refreshes,
\* replays and half-failed calls it has seen (RotateRefresh).
OneTokenPerSession ==
  \A t, u \in Tokens :
    refr[t] # None /\ refr[u] # None /\ chain[t] = chain[u] => t = u

\* Of the requests that present the same refresh token or code, one at most
\* gets what it is for; a code is spent even if the comparison fails
\* (RotateRefresh, ConsumeOAuthCode).
OneWinner ==
  \A r, s \in Requests : r # s /\ arg[r] = arg[s] /\ op[r] = op[s] =>
    /\ op[r] = "refresh" => ~(outcome[r] = "ok" /\ outcome[s] = "ok")
    /\ op[r] = "code" => ~(taken[r] # None /\ taken[s] # None)

\* A token leaves the store only by its expiry or by a refresh or revocation
\* that presents it: no client loses its session by what others do, and no
\* token is answered that is not stored (grantRefresh, issuePair).
AnsweredTokenIsKept ==
  ~Memory =>
    \A r \in Requests, t \in Tokens :
      out[r] = t /\ outcome[r] = "ok" /\ refr[t] = None =>
        \/ t \in expired
        \/ \E s \in Requests :
             op[s] \in {"refresh", "revoke"} /\ arg[s] = t /\ pc[s] \notin {"idle", "rotate", "revoke"}

\* Whoever exchanges a code gets the tokens of the user who confirmed it, and
\* only with the client, redirect URI and verifier it was confirmed for
\* (grantAuthorizationCode).
GrantMatchesConfirm ==
  \A r \in Requests : op[r] = "code" /\ outcome[r] = "ok" =>
    \E s \in Requests :
      op[s] = "confirm" /\ out[s] = arg[r] /\ claim[s] = claim[r] /\ who[s] = who[r]

-----------------------------------------------------------------------------
(* Refinement                                                              *)

Live(s) == {t \in Tokens : chain[t] = s /\ refr[t] # None /\ Valid(t)}

\* A session is named by its first token.
SessionState(s) ==
  IF chain[s] # s THEN "none"
  ELSE IF Live(s) = {} THEN "over"
  ELSE refr[CHOOSE t \in Live(s) : TRUE]

SessionMap == [s \in Tokens |-> SessionState(s)]

Abstract == INSTANCE RefreshSessions WITH Sessions <- Tokens, session <- SessionMap

\* The handlers and the store implement sessions that stay with their user
\* and stay over (RefreshStore, grantRefresh, handleRevoke).
ImplementsSessions == Abstract!Spec

=============================================================================

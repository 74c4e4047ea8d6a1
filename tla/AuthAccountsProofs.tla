-------------------------- MODULE AuthAccountsProofs --------------------------
(***************************************************************************)
(* Theorems about AuthAccounts for every number of users, codes, keys and  *)
(* requests, for both stores and any bootstrap user: the type invariant    *)
(* and the invariants the runs check.                                      *)
(***************************************************************************)
EXTENDS AuthAccounts, FiniteSetTheorems, TLAPS

-----------------------------------------------------------------------------
(* The inductive invariant                                                 *)

\* What each control state has at hand.
Shape ==
  /\ \A r \in Requests :
       /\ pc[r] \in {"mail", "save", "complete", "setKey"} => user[r] \in Names
       /\ pc[r] \in {"mail", "save"} => code[r] \in Codes
       /\ pc[r] \in {"idle", "complete", "setKey"} => tries[r] < KeyAttempts
       /\ pc[r] = "save" => r \in mailed
  /\ service \in {"create", "ensure", "verify", "assign", "booted"} => BootName # None

\* Request q has not stored a code: it draws none, or will store it later.
Unstored(q) == pc[q] \in {"idle", "save"} \/ (pc[q] = "mail" /\ op[q] = "resend")

\* Request q drew the active code of user n.
Active(q, n) == verif[n] # None /\ verif[n].by = q

\* An active code was drawn for the user it is stored under, by a request
\* that stored it, and mailed it before if it is a resend. No request stores
\* twice.
CodeOrigin ==
  \A q \in Requests, n \in Names : Active(q, n) =>
    /\ ~Unstored(q) /\ user[q] = n
    /\ op[q] = "resend" => q \in mailed

\* The entries of the code q drew that were wrong or completed with it.
Hits(q) == {r \in Requests : hit[r] = q}

\* The entries in Hits (the wrong ones and the one that completed) of an active
\* code were counted, none came before it was stored, and there are never too
\* many, even when the code is gone.
HitsCounted ==
  /\ \A q \in Requests : IsFiniteSet(Hits(q)) /\ Cardinality(Hits(q)) <= MaxAttempts
  /\ \A q \in Requests : Unstored(q) => Hits(q) = {}
  /\ \A q \in Requests, n \in Names : Active(q, n) =>
       Cardinality(Hits(q)) <= verif[n].attempts

\* What the start of the service has reached stays true while it goes on.
BootReached ==
  /\ service \in {"verify", "assign", "booted"} =>
       account[BootName] = [email |-> BootEmail, password |-> "operator"]
  /\ service \in {"assign", "booted"} => BootName \in verified
  /\ service = "booted" => key[BootName] # None

IInv ==
  /\ TypeOK
  /\ Shape
  /\ CodeOrigin
  /\ HitsCounted
  /\ KeyFindsOwner
  /\ BootReached

-----------------------------------------------------------------------------
(* Types                                                                   *)

LEMMA InitInv == Init => IInv
<1> SUFFICES ASSUME Init PROVE IInv
  OBVIOUS
<1>1. \A q \in Requests : Hits(q) = {}
  BY AccountsAssumption DEF Init, Hits
<1>2. IsFiniteSet({}) /\ Cardinality({}) = 0
  BY FS_EmptySet
<1>3. HitsCounted
  BY <1>1, <1>2, AccountsAssumption DEF HitsCounted, Active, Init
<1> QED
  BY <1>3, AccountsAssumption
  DEF Init, IInv, TypeOK, Shape, CodeOrigin, Active, KeyFindsOwner,
      BootReached, Ops, States, Outcomes, Stages

\* Every step keeps the types and what the control states have at hand.
LEMMA ShapeStep == TypeOK /\ Shape /\ [Next]_vars => TypeOK' /\ Shape'
<1> SUFFICES ASSUME TypeOK, Shape, [Next]_vars PROVE TypeOK' /\ Shape'
  OBVIOUS
<1> USE SetupsAssumption, AccountsAssumption
    DEF TypeOK, Shape, Ops, States, Outcomes, Stages, Accounts, Verifs, Memory,
        BootName, BootEmail, storeVars, requestVars
<1>1. ASSUME NEW r \in Requests, NEW n \in Names, NEW e \in Emails, NEW c \in Codes, NEW
            how \in CallReturns, Register(r, n, e, c, how)
      PROVE TypeOK' /\ Shape'
  BY <1>1 DEF Register, Arrive, Goto, Answer, CallReturns
<1>2. ASSUME NEW r \in Requests, NEW n \in Names, NEW e \in Emails, RegisterConflict(r,
            n, e)
      PROVE TypeOK' /\ Shape'
  BY <1>2 DEF RegisterConflict, Arrive, Answer
<1>3. ASSUME NEW r \in Requests, NEW n \in Names, NEW c \in Codes, Resend(r, n, c)
      PROVE TypeOK' /\ Shape'
  BY <1>3 DEF Resend, Arrive, Goto
<1>4. ASSUME NEW r \in Requests, NEW n \in Names, ResendNothing(r, n)
      PROVE TypeOK' /\ Shape'
  BY <1>4 DEF ResendNothing, Arrive, Answer
<1>5. ASSUME NEW r \in Requests, NEW n \in Names, NEW c \in Codes, Verify(r, n, c)
      PROVE TypeOK' /\ Shape'
  BY <1>5 DEF Verify, Arrive, Goto
<1>6. ASSUME NEW r \in Requests, NEW n \in Names, VerifyUnknown(r, n)
      PROVE TypeOK' /\ Shape'
  BY <1>6 DEF VerifyUnknown, Arrive, Answer
<1>7. ASSUME NEW r \in Requests, NEW n \in Names, Regenerate(r, n)
      PROVE TypeOK' /\ Shape'
  BY <1>7 DEF Regenerate, Arrive, Goto
<1>8. ASSUME NEW r \in Requests, MailSent(r)
      PROVE TypeOK' /\ Shape'
  BY <1>8 DEF MailSent, Goto, Answer
<1>9. ASSUME NEW r \in Requests, MailFails(r)
      PROVE TypeOK' /\ Shape'
  BY <1>9 DEF MailFails, Answer
<1>10. ASSUME NEW r \in Requests, CompleteNotFound(r)
      PROVE TypeOK' /\ Shape'
  BY <1>10 DEF CompleteNotFound, Answer
<1>11. ASSUME NEW r \in Requests, StoreFails(r)
      PROVE TypeOK' /\ Shape'
  BY <1>11 DEF StoreFails, Answer
<1>12. ASSUME NEW r \in Requests, NEW how \in CallReturns, SaveEmailVerification(r, how)
      PROVE TypeOK' /\ Shape'
  BY <1>12 DEF SaveEmailVerification, Answer, CallReturns
<1>13. ASSUME NEW r \in Requests, NEW how \in CallReturns, CompleteWrongCode(r, how)
      PROVE TypeOK' /\ Shape'
  BY <1>13 DEF CompleteWrongCode, Usable, Answer, CallReturns
<1>14. ASSUME NEW r \in Requests, NEW k \in Keys, NEW how \in CallReturns, Complete(r, k,
            how)
      PROVE TypeOK' /\ Shape'
  BY <1>14 DEF Complete, Usable, Assign, Answer, CallReturns
<1>15. ASSUME NEW r \in Requests, NEW k \in Keys, NEW how \in CallReturns,
            SetConnectKey(r, k, how)
      PROVE TypeOK' /\ Shape'
  BY <1>15 DEF SetConnectKey, Assign, Answer, CallReturns
<1>16. ASSUME NEW r \in Requests, NEW k \in Keys, CompleteClash(r, k)
      PROVE TypeOK' /\ Shape'
  BY <1>16 DEF CompleteClash, Goto, Answer
<1>17. ASSUME NEW r \in Requests, NEW k \in Keys, SetKeyClash(r, k)
      PROVE TypeOK' /\ Shape'
  BY <1>17 DEF SetKeyClash, Goto, Answer
<1>18. ASSUME NEW n \in Names, Expire(n)
      PROVE TypeOK' /\ Shape'
  BY <1>18 DEF Expire
<1>19. CASE Crash
  BY <1>19 DEF Crash
<1>20. CASE Start
  BY <1>20 DEF Start, BootVars
<1>21. CASE BootCreate
  BY <1>21 DEF BootCreate, BootVars
<1>22. CASE BootEnsure
  BY <1>22 DEF BootEnsure, BootVars
<1>23. CASE BootVerify
  BY <1>23 DEF BootVerify, BootVars
<1>24. ASSUME NEW k \in Keys, BootAssign(k)
      PROVE TypeOK' /\ Shape'
  BY <1>24 DEF BootAssign, Assign, BootVars
<1>25. CASE UNCHANGED vars
  BY <1>25 DEF vars
<1> QED
  BY <1>1, <1>2, <1>3, <1>4, <1>5, <1>6, <1>7, <1>8, <1>9, <1>10, <1>11, <1>12, <1>13,
      <1>14, <1>15, <1>16, <1>17, <1>18, <1>19, <1>20, <1>21, <1>22, <1>23, <1>24, <1>25
  DEF Next, Request, Handle, Bootstrap

-----------------------------------------------------------------------------
(* What a step does to codes and their comparisons                         *)

\* Who has stored a code stays so, for the same user by the same endpoint; a
\* mail that went out stays so.
LEMMA UnstoredStep ==
  ASSUME TypeOK, [Next]_vars, NEW q \in Requests
  PROVE  /\ Unstored(q)' => Unstored(q)
         /\ ~Unstored(q) => op'[q] = op[q] /\ user'[q] = user[q]
         /\ q \in mailed => q \in mailed'
<1> USE DEF TypeOK, Unstored
<1>1. CASE \E r \in Requests : Request(r)
  BY <1>1 DEF Request, Register, RegisterConflict, Resend, ResendNothing, Verify, VerifyUnknown,
     Regenerate, Arrive, Goto, Answer, requestVars, storeVars
<1>2. CASE \E r \in Requests : Handle(r)
  BY <1>2 DEF Handle, MailSent, MailFails, CompleteNotFound, StoreFails, SaveEmailVerification,
     CompleteWrongCode, Complete, SetConnectKey, CompleteClash, SetKeyClash,
     Goto, Answer, requestVars, storeVars
<1>3. CASE (\E n \in Names : Expire(n)) \/ Crash \/ Start \/ Bootstrap \/ UNCHANGED vars
  BY <1>3 DEF Expire, Crash, Start, Bootstrap, BootCreate, BootEnsure, BootVerify, BootAssign,
     BootVars, vars, requestVars, storeVars
<1> QED BY <1>1, <1>2, <1>3 DEF Next

\* Request r stores its code for its user.
Stores(r) ==
  /\ Unstored(r) /\ ~Unstored(r)'
  /\ user'[r] \in Names
  /\ op'[r] = "resend" => r \in mailed'
  /\ verif'[user'[r]] = [code |-> code'[r], attempts |-> 0, by |-> r]
  /\ \A n \in Names \ {user'[r]} : verif'[n] \in {verif[n], None}
  /\ hit' = hit

\* The code of n is compared with the entry of r.
Compares(r, n) ==
  /\ verif[n] # None
  /\ verif[n].attempts < MaxAttempts
  /\ verif' \in {[verif EXCEPT ![n] = None], [verif EXCEPT ![n].attempts = @ + 1]}
  /\ hit' = [hit EXCEPT ![r] = verif[n].by]

\* A step stores a code, compares one, or only removes codes.
LEMMA CodeStep ==
  ASSUME TypeOK, Shape, [Next]_vars
  PROVE  \/ \E r \in Requests : Stores(r)
         \/ \E r \in Requests, n \in Names : Compares(r, n)
         \/ hit' = hit /\ \A n \in Names : verif'[n] \in {verif[n], None}
<1> DEFINE Removes == hit' = hit /\ \A n \in Names : verif'[n] \in {verif[n], None}
<1> USE AccountsAssumption DEF TypeOK, Shape
<1>1. ASSUME NEW r \in Requests, NEW n \in Names, NEW e \in Emails, NEW c \in Codes,
             NEW how \in CallReturns, Register(r, n, e, c, how)
      PROVE  Stores(r)
  BY <1>1 DEF Register, Arrive, Goto, Answer, Stores, Unstored
<1>2. ASSUME NEW r \in Requests, NEW how \in CallReturns, SaveEmailVerification(r, how)
      PROVE  Stores(r)
  BY <1>2 DEF SaveEmailVerification, Answer, Stores, Unstored
<1>3. ASSUME NEW r \in Requests, NEW how \in CallReturns, CompleteWrongCode(r, how)
      PROVE  Compares(r, user[r])
  BY <1>3 DEF CompleteWrongCode, Usable, Compares
<1>4. ASSUME NEW r \in Requests, NEW k \in Keys, NEW how \in CallReturns, Complete(r, k, how)
      PROVE  Compares(r, user[r])
  BY <1>4 DEF Complete, Usable, Compares
<1>5. ASSUME NEW r \in Requests, CompleteNotFound(r)
      PROVE  Removes
  BY <1>5 DEF CompleteNotFound
<1>6. CASE Start
  BY <1>6 DEF Start, BootVars, requestVars
<1>7. ASSUME NEW r \in Requests, Request(r),
             ~ \E n \in Names, e \in Emails, c \in Codes, how \in CallReturns :
                 Register(r, n, e, c, how)
      PROVE  Removes
  BY <1>7 DEF Request, RegisterConflict, Resend, ResendNothing, Verify, VerifyUnknown,
              Regenerate, storeVars
<1>8. ASSUME NEW r \in Requests,
             \/ MailSent(r) \/ MailFails(r) \/ StoreFails(r)
             \/ \E k \in Keys : CompleteClash(r, k) \/ SetKeyClash(r, k)
             \/ \E k \in Keys, how \in CallReturns : SetConnectKey(r, k, how)
      PROVE  Removes
  BY <1>8 DEF MailSent, MailFails, StoreFails, CompleteClash, SetKeyClash, SetConnectKey, storeVars
<1>9. CASE (\E n \in Names : Expire(n)) \/ Crash \/ Bootstrap \/ UNCHANGED vars
  BY <1>9 DEF Expire, Crash, Bootstrap, BootCreate, BootEnsure, BootVerify, BootAssign,
              BootVars, vars, requestVars, storeVars
<1>10. \A r \in Requests : pc[r] = "complete" => user[r] \in Names
  OBVIOUS
<1> QED
  BY <1>1, <1>2, <1>3, <1>4, <1>5, <1>6, <1>7, <1>8, <1>9, <1>10
  DEF Next, Handle, Complete, CompleteWrongCode

-----------------------------------------------------------------------------
(* Codes                                                                   *)

\* What is active after a step was active before, or is stored by it.
LEMMA ActiveStep ==
  ASSUME TypeOK, Shape, [Next]_vars, NEW q \in Requests, NEW n \in Names, Active(q, n)'
  PROVE  Active(q, n) \/ (Stores(q) /\ user'[q] = n)
<1>1. ASSUME NEW r \in Requests, Stores(r)
      PROVE  Active(q, n) \/ (Stores(q) /\ user'[q] = n)
  BY <1>1 DEF Stores, Active
<1>2. ASSUME NEW r \in Requests, NEW m \in Names, Compares(r, m)
      PROVE  Active(q, n)
  BY <1>2 DEF Compares, Active, TypeOK, Verifs
<1>3. CASE \A m \in Names : verif'[m] \in {verif[m], None}
  BY <1>3 DEF Active
<1> QED BY <1>1, <1>2, <1>3, CodeStep

LEMMA OriginStep == TypeOK /\ Shape /\ CodeOrigin /\ [Next]_vars => CodeOrigin'
<1> SUFFICES ASSUME TypeOK, Shape, CodeOrigin, [Next]_vars,
                    NEW q \in Requests, NEW n \in Names, Active(q, n)'
             PROVE  /\ ~Unstored(q)' /\ user'[q] = n
                    /\ op'[q] = "resend" => q \in mailed'
  BY DEF CodeOrigin
<1>1. CASE Active(q, n)
  BY <1>1, UnstoredStep DEF CodeOrigin
<1>2. CASE Stores(q) /\ user'[q] = n
  BY <1>2 DEF Stores
<1> QED BY <1>1, <1>2, ActiveStep

\* One more entry compared with a code is one more in its count, at most.
LEMMA OneMoreHit ==
  ASSUME TypeOK, NEW r \in Requests, NEW q \in Requests, NEW p \in Requests,
         hit' = [hit EXCEPT ![r] = q], IsFiniteSet(Hits(p))
  PROVE  /\ IsFiniteSet(Hits(p)')
         /\ Cardinality(Hits(p)') <= Cardinality(Hits(p)) + (IF p = q THEN 1 ELSE 0)
<1>1. Hits(p)' \subseteq IF p = q THEN Hits(p) \cup {r} ELSE Hits(p)
  BY DEF Hits, TypeOK
<1>2. /\ IsFiniteSet(Hits(p) \cup {r})
      /\ Cardinality(Hits(p) \cup {r}) <= Cardinality(Hits(p)) + 1
  <2>1. Cardinality(Hits(p)) \in Nat
    BY FS_CardinalityType
  <2>2. /\ IsFiniteSet(Hits(p) \cup {r})
        /\ Cardinality(Hits(p) \cup {r}) =
             IF r \in Hits(p) THEN Cardinality(Hits(p)) ELSE Cardinality(Hits(p)) + 1
    BY FS_AddElement
  <2> QED BY <2>1, <2>2
<1>3. CASE p = q
  <2>1. IsFiniteSet(Hits(p)') /\ Cardinality(Hits(p)') <= Cardinality(Hits(p) \cup {r})
    BY <1>1, <1>2, <1>3, FS_Subset
  <2> QED
    BY <1>2, <1>3, <2>1, FS_CardinalityType
<1>4. CASE p # q
  <2>1. IsFiniteSet(Hits(p)') /\ Cardinality(Hits(p)') <= Cardinality(Hits(p))
    BY <1>1, <1>4, FS_Subset
  <2> QED
    BY <1>4, <2>1, FS_CardinalityType
<1> QED BY <1>3, <1>4

\* Comparing counts, and stops at MaxAttempts.
LEMMA ComparesCounted ==
  ASSUME TypeOK, Shape, CodeOrigin, HitsCounted, [Next]_vars,
         NEW r \in Requests, NEW n \in Names, Compares(r, n)
  PROVE  HitsCounted'
<1> DEFINE q == verif[n].by
<1> USE AccountsAssumption
<1>1. q \in Requests /\ verif[n].attempts \in Nat /\ verif[n].attempts + 1 <= MaxAttempts
  BY DEF Compares, TypeOK, Verifs
<1>2. \A p \in Requests :
        /\ IsFiniteSet(Hits(p)) /\ Cardinality(Hits(p)) \in Nat
        /\ IsFiniteSet(Hits(p)') /\ Cardinality(Hits(p)') \in Nat
        /\ Cardinality(Hits(p)') <= Cardinality(Hits(p)) + (IF p = q THEN 1 ELSE 0)
  BY <1>1, OneMoreHit, FS_CardinalityType DEF HitsCounted, Compares
<1>3. Cardinality(Hits(q)) <= verif[n].attempts
  BY <1>1 DEF HitsCounted, Active, Compares
<1>4. ASSUME NEW p \in Requests
      PROVE  Cardinality(Hits(p)') <= MaxAttempts
  <2>1. CASE p = q
    BY <1>1, <1>2, <1>3, <2>1
  <2>2. CASE p # q
    BY <1>2, <2>2 DEF HitsCounted
  <2> QED BY <2>1, <2>2
<1>5. ASSUME NEW p \in Requests, Unstored(p)'
      PROVE  Hits(p)' = {}
  <2>1. Unstored(p) /\ Hits(p) = {}
    BY <1>5, UnstoredStep DEF HitsCounted
  <2>2. p # q
    BY <2>1 DEF CodeOrigin, Active, Compares
  <2> QED BY <2>1, <2>2 DEF Hits, Compares, TypeOK
<1>6. ASSUME NEW p \in Requests, NEW m \in Names, Active(p, m)'
      PROVE  Cardinality(Hits(p)') <= verif'[m].attempts
  <2>1. Active(p, m) /\ verif[m].attempts \in Nat
    BY <1>6 DEF Active, Compares, TypeOK, Verifs
  <2>2. Cardinality(Hits(p)) <= verif[m].attempts
    BY <2>1 DEF HitsCounted
  <2>3. CASE m = n
    <3>1. verif'[m].attempts = verif[m].attempts + 1
      BY <1>6, <2>3 DEF Active, Compares, TypeOK, Verifs
    <3> QED BY <1>1, <1>2, <2>1, <2>2, <3>1
  <2>4. CASE m # n
    <3>1. verif'[m] = verif[m]
      BY <2>4 DEF Compares, TypeOK
    <3>2. p # q
      BY <2>1, <2>4 DEF CodeOrigin, Active, Compares
    <3> QED BY <1>2, <2>1, <2>2, <3>1, <3>2
  <2> QED BY <2>3, <2>4
<1> QED BY <1>2, <1>4, <1>5, <1>6 DEF HitsCounted

\* A code is stored with no comparisons, and removing one adds none.
LEMMA HitsStep ==
  TypeOK /\ Shape /\ CodeOrigin /\ HitsCounted /\ [Next]_vars => HitsCounted'
<1> SUFFICES ASSUME TypeOK, Shape, CodeOrigin, HitsCounted, [Next]_vars
             PROVE  HitsCounted'
  OBVIOUS
<1>1. ASSUME hit' = hit,
             \A q \in Requests, n \in Names : Active(q, n)' =>
               \/ Active(q, n) /\ verif'[n] = verif[n]
               \/ Unstored(q) /\ verif'[n].attempts = 0
      PROVE  HitsCounted'
  <2>1. \A q \in Requests : Hits(q)' = Hits(q)
    BY <1>1 DEF Hits
  <2>2. \A q \in Requests : Unstored(q)' => Hits(q)' = {}
    BY <2>1, UnstoredStep DEF HitsCounted
  <2>3. ASSUME NEW q \in Requests, NEW n \in Names, Active(q, n)'
        PROVE  Cardinality(Hits(q)') <= verif'[n].attempts
    <3>1. CASE Active(q, n) /\ verif'[n] = verif[n]
      BY <2>1, <3>1 DEF HitsCounted
    <3>2. CASE Unstored(q) /\ verif'[n].attempts = 0
      BY <2>1, <3>2, FS_EmptySet DEF HitsCounted
    <3> QED BY <1>1, <2>3, <3>1, <3>2
  <2> QED BY <2>1, <2>2, <2>3 DEF HitsCounted
<1>2. ASSUME NEW r \in Requests, Stores(r)
      PROVE  HitsCounted'
  BY <1>1, <1>2 DEF Stores, Active
<1>3. CASE hit' = hit /\ \A n \in Names : verif'[n] \in {verif[n], None}
  BY <1>1, <1>3 DEF Active
<1> QED BY <1>2, <1>3, CodeStep, ComparesCounted

-----------------------------------------------------------------------------
(* Connect keys                                                            *)

\* A key that clashes with nobody's becomes the key of one user.
LEMMA AssignKeepsKeys ==
  ASSUME TypeOK, KeyFindsOwner, NEW n \in Names, NEW k \in Keys, NEW Old \in SUBSET {key[n]},
         ~Clash(n, k), Assign(n, k, Old)
  PROVE  KeyFindsOwner'
  BY AccountsAssumption DEF TypeOK, KeyFindsOwner, Clash, Assign

LEMMA KeysStep == TypeOK /\ Shape /\ KeyFindsOwner /\ [Next]_vars => KeyFindsOwner'
<1> SUFFICES ASSUME TypeOK, Shape, KeyFindsOwner, [Next]_vars PROVE KeyFindsOwner'
  OBVIOUS
<1>1. ASSUME NEW r \in Requests, NEW k \in Keys, NEW how \in CallReturns, Complete(r, k, how)
      PROVE  KeyFindsOwner'
  <2>1. user[r] \in Names
    BY <1>1 DEF Complete, Shape
  <2> QED BY <1>1, <2>1, AssignKeepsKeys DEF Complete
<1>2. ASSUME NEW r \in Requests, NEW k \in Keys, NEW how \in CallReturns, SetConnectKey(r, k, how)
      PROVE  KeyFindsOwner'
  <2>1. user[r] \in Names
    BY <1>2 DEF SetConnectKey, Shape
  <2> QED BY <1>2, <2>1, AssignKeepsKeys DEF SetConnectKey
<1>3. ASSUME NEW k \in Keys, BootAssign(k)
      PROVE  KeyFindsOwner'
  <2>1. BootName \in Names
    BY <1>3, SetupsAssumption DEF BootAssign, Shape, BootName, TypeOK
  <2>2. CASE Clash(BootName, k)
    BY <1>3, <2>2 DEF BootAssign, KeyFindsOwner
  <2>3. CASE ~Clash(BootName, k)
    BY <1>3, <2>1, <2>3, AssignKeepsKeys DEF BootAssign
  <2> QED BY <2>2, <2>3
<1>4. CASE Start
  BY <1>4 DEF Start, KeyFindsOwner
<1>5. ASSUME UNCHANGED <<key, owner>>
      PROVE  KeyFindsOwner'
  BY <1>5 DEF KeyFindsOwner
<1>6. ASSUME NEW r \in Requests, Request(r)
      PROVE  UNCHANGED <<key, owner>>
  BY <1>6 DEF Request, Register, RegisterConflict, Resend, ResendNothing, Verify, VerifyUnknown,
              Regenerate, storeVars
<1>7. ASSUME NEW r \in Requests,
             \/ MailSent(r) \/ MailFails(r) \/ CompleteNotFound(r) \/ StoreFails(r)
             \/ \E how \in CallReturns : SaveEmailVerification(r, how) \/ CompleteWrongCode(r, how)
             \/ \E k \in Keys : CompleteClash(r, k) \/ SetKeyClash(r, k)
      PROVE  UNCHANGED <<key, owner>>
  BY <1>7 DEF MailSent, MailFails, CompleteNotFound, StoreFails, SaveEmailVerification,
              CompleteWrongCode, CompleteClash, SetKeyClash, storeVars
<1>8. CASE (\E n \in Names : Expire(n)) \/ Crash \/ BootCreate \/ BootEnsure \/ BootVerify
           \/ UNCHANGED vars
  BY <1>5, <1>8 DEF Expire, Crash, BootCreate, BootEnsure, BootVerify, vars, storeVars
<1> QED BY <1>1, <1>2, <1>3, <1>4, <1>5, <1>6, <1>7, <1>8 DEF Next, Handle, Bootstrap

-----------------------------------------------------------------------------
(* The bootstrap user                                                      *)

\* Where the process goes on, nothing that the start reached is taken back:
\* accounts are not changed, verified users and their keys stay.
LEMMA KeptStep ==
  ASSUME TypeOK, Shape, [Next]_vars, service # "off"
  PROVE  \A n \in Names : /\ account[n] # None => account'[n] = account[n]
                          /\ n \in verified => n \in verified'
                          /\ key[n] # None => key'[n] # None
<1> USE AccountsAssumption DEF TypeOK
<1>1. ASSUME NEW r \in Requests, Request(r)
      PROVE  /\ UNCHANGED <<verified, key>>
             /\ \A n \in Names : account[n] # None => account'[n] = account[n]
  BY <1>1 DEF Request, Register, RegisterConflict, Resend, ResendNothing, Verify, VerifyUnknown,
              Regenerate, storeVars
<1>2. ASSUME NEW r \in Requests, Handle(r)
      PROVE  /\ UNCHANGED account /\ verified \subseteq verified'
             /\ \A n \in Names : key[n] # None => key'[n] # None
  BY <1>2 DEF Handle, MailSent, MailFails, CompleteNotFound, StoreFails, SaveEmailVerification,
              CompleteWrongCode, Complete, SetConnectKey, CompleteClash, SetKeyClash, Assign, storeVars
<1>3. CASE (\E n \in Names : Expire(n)) \/ Crash \/ Start \/ UNCHANGED vars
  BY <1>3 DEF Expire, Crash, Start, vars, storeVars
<1>4. CASE Bootstrap
  BY <1>4 DEF Bootstrap, BootCreate, BootEnsure, BootVerify, BootAssign, Assign
<1> QED BY <1>1, <1>2, <1>3, <1>4 DEF Next

LEMMA BootStep ==
  TypeOK /\ Shape /\ BootReached /\ [Next]_vars => BootReached'
<1> SUFFICES ASSUME TypeOK, Shape, BootReached, [Next]_vars PROVE BootReached'
  OBVIOUS
<1> USE SetupsAssumption, AccountsAssumption DEF TypeOK, Shape, BootReached, BootName, BootEmail
<1>1. CASE Start
  BY <1>1 DEF Start, BootVars
<1>2. CASE Crash
  BY <1>2 DEF Crash
<1>3. CASE BootCreate
  BY <1>3 DEF BootCreate, BootVars
<1>4. CASE BootEnsure
  BY <1>4 DEF BootEnsure, BootVars
<1>5. CASE BootVerify
  BY <1>5 DEF BootVerify, BootVars
<1>6. ASSUME NEW k \in Keys, BootAssign(k)
      PROVE  BootReached'
  BY <1>6 DEF BootAssign, BootVars, Assign
<1>7. ASSUME UNCHANGED <<service, setup>>
      PROVE  BootReached'
  <2>1. CASE service \in {"verify", "assign", "booted"}
    <3>1. BootName \in Names /\ account[BootName] # None
      BY <2>1 DEF Accounts
    <3> QED BY <1>7, <2>1, <3>1, KeptStep
  <2>2. CASE service \notin {"verify", "assign", "booted"}
    BY <1>7, <2>2
  <2> QED BY <2>1, <2>2
<1>8. ASSUME NEW r \in Requests, Request(r)
      PROVE  UNCHANGED <<service, setup>>
  BY <1>8 DEF Request, Register, RegisterConflict, Resend, ResendNothing, Verify, VerifyUnknown,
              Regenerate
<1>9. ASSUME NEW r \in Requests, Handle(r)
      PROVE  UNCHANGED <<service, setup>>
  BY <1>9 DEF Handle, MailSent, MailFails, CompleteNotFound, StoreFails, SaveEmailVerification,
              CompleteWrongCode, Complete, SetConnectKey, CompleteClash, SetKeyClash
<1>10. CASE (\E n \in Names : Expire(n)) \/ UNCHANGED vars
  BY <1>7, <1>10 DEF Expire, vars
<1> QED
  BY <1>1, <1>2, <1>3, <1>4, <1>5, <1>6, <1>7, <1>8, <1>9, <1>10 DEF Next, Bootstrap

-----------------------------------------------------------------------------
(* Theorems                                                                *)

LEMMA Invariance == Spec => []IInv
<1>1. Init => IInv
  BY InitInv
<1>2. IInv /\ [Next]_vars => IInv'
  BY ShapeStep, OriginStep, HitsStep, KeysStep, BootStep DEF IInv
<1> QED BY <1>1, <1>2, PTL DEF Spec

\* The store and the handlers keep their types; no request draws more than
\* KeyAttempts keys and no code counts more than MaxAttempts attempts.
THEOREM TypeCorrect == Spec => []TypeOK
<1>1. IInv => TypeOK
  BY DEF IInv
<1> QED BY <1>1, Invariance, PTL

\* No code is ever tried by more than MaxAttempts entries that are wrong or
\* complete with it, whatever enters them, and whatever replaces or consumes the
\* code meanwhile (CompleteEmailVerification).
THEOREM AttemptsBoundedAlways == Spec => []AttemptsBounded
<1>1. IInv => AttemptsBounded
  BY DEF IInv, HitsCounted, Hits, AttemptsBounded
<1> QED BY <1>1, Invariance, PTL

\* A code that a resend stores has been mailed (handleResend).
THEOREM StoredCodeWasMailedAlways == Spec => []StoredCodeWasMailed
<1>1. IInv => StoredCodeWasMailed
  BY DEF IInv, TypeOK, Verifs, CodeOrigin, Active, StoredCodeWasMailed
<1> QED BY <1>1, Invariance, PTL

\* The key of a user finds this user, in both stores (SetConnectKey,
\* CompleteEmailVerification, GetUserByConnectKey).
THEOREM KeyFindsOwnerAlways == Spec => []KeyFindsOwner
<1>1. IInv => KeyFindsOwner
  BY DEF IInv
<1> QED BY <1>1, Invariance, PTL

\* A service that came up with a bootstrap user serves the operator's own
\* account, verified and with a key, whatever starts and crashes came before
\* and whatever requests do to it (bootstrapUser, ensureBootstrapUser).
THEOREM BootstrapServesOwnAlways == Spec => []BootstrapServesOwn
<1>1. IInv => BootstrapServesOwn
  BY DEF IInv, BootReached, BootstrapServesOwn
<1> QED BY <1>1, Invariance, PTL

=============================================================================

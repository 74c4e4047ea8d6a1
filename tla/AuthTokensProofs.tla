--------------------------- MODULE AuthTokensProofs ---------------------------
(***************************************************************************)
(* Theorems about AuthTokens for every number of users, tokens, codes and  *)
(* requests: the type invariant, the invariants the runs check, and that   *)
(* the handlers implement RefreshSessions.                                 *)
(***************************************************************************)
EXTENDS AuthTokens, TLAPS

-----------------------------------------------------------------------------
(* The inductive invariant                                                 *)

\* What was never drawn is not in the store and has no history.
FreshIsNew ==
  /\ \A t \in Tokens : Fresh(t) => refr[t] = None /\ chain[t] = None /\ t \notin expired
  /\ \A c \in Codes : Fresh(c) => codes[c] = None

\* What a request presents was drawn before.
ArgDrawn == \A r \in Requests : arg[r] # None => ~Fresh(arg[r])

\* What each control state has at hand.
RequestShape ==
  \A r \in Requests :
    /\ pc[r] = "idle" => /\ op[r] = "none" /\ arg[r] = None /\ out[r] = None
                         /\ taken[r] = None /\ outcome[r] = "none"
    /\ pc[r] \in {"rotate", "revoke"} => arg[r] \in Tokens /\ outcome[r] = "none"
    /\ pc[r] = "rotate" => op[r] = "refresh"
    /\ pc[r] = "revoke" => op[r] = "revoke"
    /\ pc[r] \in {"consume", "compare"} => arg[r] \in Codes /\ op[r] = "code"
    /\ pc[r] = "consume" => taken[r] = None
    /\ pc[r] \in {"consume", "compare"} => claim[r] \in Claims
    /\ pc[r] = "compare" => taken[r] \in Records \ {None}
    /\ pc[r] = "issue" => who[r] \in Users /\ op[r] \in {"password", "code"}
    /\ pc[r] = "saveCode" => who[r] \in Users /\ claim[r] \in Claims /\ op[r] = "confirm"
    /\ pc[r] = "saveClient" => op[r] = "register" /\ out[r] \in Clients
    /\ pc[r] \in {"issue", "saveCode", "consume", "compare"} => outcome[r] = "none"
    /\ pc[r] \in {"issue", "rotate", "revoke", "saveCode", "consume", "compare"} => out[r] = None
    /\ op[r] = "refresh" => arg[r] \in Tokens
    /\ op[r] = "code" => arg[r] \in Codes
    /\ taken[r] # None => arg[r] \in Codes

\* Stored tokens have a chain, and a chain begins with its own name.
ChainRoots ==
  \A t \in Tokens :
    /\ refr[t] # None => chain[t] # None
    /\ chain[t] # None => chain[t] \in Tokens /\ chain[chain[t]] = chain[t]

\* What was won is gone from the store.
WonIsGone ==
  \A r \in Requests :
    /\ op[r] = "refresh" /\ outcome[r] = "ok" => refr[arg[r]] = None
    /\ taken[r] # None => codes[arg[r]] = None

\* The codes confirmed so far, each with its user and claim.
Confirmations ==
  {<<out[s], who[s], claim[s]>> : s \in {q \in Requests : op[q] = "confirm"}}

\* Stored, taken and granted codes come from their confirmation.
CodeOrigin ==
  /\ \A c \in Codes : codes[c] # None =>
       <<c, codes[c].user, codes[c].claim>> \in Confirmations
  /\ \A r \in Requests : taken[r] # None =>
       <<arg[r], taken[r].user, taken[r].claim>> \in Confirmations
  /\ \A r \in Requests : op[r] = "code" /\ (pc[r] = "issue" \/ outcome[r] = "ok") =>
       <<arg[r], who[r], claim[r]>> \in Confirmations

IInv ==
  /\ TypeOK
  /\ FreshIsNew
  /\ ArgDrawn
  /\ RequestShape
  /\ ChainRoots
  /\ OneTokenPerSession
  /\ WonIsGone
  /\ OneWinner
  /\ CodeOrigin
  /\ AnsweredTokenIsKept

-----------------------------------------------------------------------------
(* The invariant is inductive                                              *)

LEMMA InitInv == Init => IInv
  BY TokensAssumption
  DEF Init, IInv, TypeOK, FreshIsNew, ArgDrawn, RequestShape, ChainRoots,
      OneTokenPerSession, WonIsGone, OneWinner, CodeOrigin, AnsweredTokenIsKept,
      Ops, States, Outcomes, TokensAssumption

\* Every step keeps the types.
LEMMA TypeStep ==
  TypeOK /\ RequestShape /\ [Next]_vars => TypeOK'
<1> SUFFICES ASSUME TypeOK, RequestShape, [Next]_vars PROVE TypeOK'
  OBVIOUS
<1>1. ASSUME NEW r \in Requests, NEW u \in Users, GrantPassword(r, u)
      PROVE TypeOK'
  BY <1>1, TokensAssumption
  DEF GrantPassword, Arrive, TypeOK, RequestShape, Ops, States, Outcomes,
      Records, TokensAssumption, storeVars, requestVars
<1>2. ASSUME NEW r \in Requests, NEW t \in Tokens, GrantRefresh(r, t)
      PROVE TypeOK'
  BY <1>2, TokensAssumption
  DEF GrantRefresh, Arrive, Told, TypeOK, RequestShape, Ops, States,
      Outcomes, Records, TokensAssumption, storeVars, requestVars
<1>3. ASSUME NEW r \in Requests, NEW t \in Tokens, HandleRevoke(r, t)
      PROVE TypeOK'
  BY <1>3, TokensAssumption
  DEF HandleRevoke, Arrive, Told, TypeOK, RequestShape, Ops, States,
      Outcomes, Records, TokensAssumption, storeVars, requestVars
<1>4. ASSUME NEW r \in Requests, NEW k \in Clients, HandleOAuthRegister(r, k)
      PROVE TypeOK'
  BY <1>4, TokensAssumption
  DEF HandleOAuthRegister, Arrive, Fresh, TypeOK, RequestShape, Ops, States,
      Outcomes, Records, TokensAssumption, storeVars, requestVars
<1>5. ASSUME NEW r \in Requests, NEW u \in Users, NEW cl \in Claims, AuthorizeConfirm(r, u, cl)
      PROVE TypeOK'
  BY <1>5, TokensAssumption
  DEF AuthorizeConfirm, Arrive, TypeOK, RequestShape, Ops, States, Outcomes,
      Records, TokensAssumption, storeVars, requestVars
<1>6. ASSUME NEW r \in Requests, NEW cl \in Claims, AuthorizeRefused(r, cl)
      PROVE TypeOK'
  BY <1>6, TokensAssumption
  DEF AuthorizeRefused, Answer, TypeOK, RequestShape, Ops, States, Outcomes,
      Records, TokensAssumption, storeVars, requestVars
<1>7. ASSUME NEW r \in Requests, NEW c \in Codes, NEW cl \in Claims, GrantAuthorizationCode(r, c, cl)
      PROVE TypeOK'
  BY <1>7, TokensAssumption
  DEF GrantAuthorizationCode, Arrive, Told, TypeOK, RequestShape, Ops,
      States, Outcomes, Records, TokensAssumption, storeVars, requestVars
<1>8. ASSUME NEW r \in Requests, NEW n \in Tokens, NEW how \in CallReturns, Issue(r, n, how)
      PROVE TypeOK'
  BY <1>8, TokensAssumption
  DEF Issue, Answer, CallReturns, Fresh, TypeOK, RequestShape, Ops, States,
      Outcomes, Records, TokensAssumption, storeVars, requestVars
<1>9. ASSUME NEW r \in Requests, NEW n \in Tokens, NEW how \in CallReturns, Rotate(r, n, how)
      PROVE TypeOK'
  BY <1>9, TokensAssumption
  DEF Rotate, Answer, CallReturns, Valid, Swept, Fresh, TypeOK, RequestShape,
      Ops, States, Outcomes, Records, TokensAssumption, storeVars, requestVars
<1>10. ASSUME NEW r \in Requests, NEW how \in CallReturns, Revoke(r, how)
      PROVE TypeOK'
  BY <1>10, TokensAssumption
  DEF Revoke, Answer, CallReturns, TypeOK, RequestShape, Ops, States,
      Outcomes, Records, TokensAssumption, storeVars, requestVars
<1>11. ASSUME NEW r \in Requests, NEW U \in SUBSET Uris \ {{}}, NEW how \in CallReturns, SaveOAuthClient(r, U, how)
      PROVE TypeOK'
  BY <1>11, TokensAssumption
  DEF SaveOAuthClient, Answer, CallReturns, TypeOK, RequestShape, Ops,
      States, Outcomes, Records, TokensAssumption, storeVars, requestVars
<1>12. ASSUME NEW r \in Requests, NEW c \in Codes, NEW how \in CallReturns, SaveOAuthCode(r, c, how)
      PROVE TypeOK'
  BY <1>12, TokensAssumption
  DEF SaveOAuthCode, Answer, CallReturns, Swept, Fresh, TypeOK, RequestShape,
      Ops, States, Outcomes, Records, TokensAssumption, storeVars, requestVars
<1>13. ASSUME NEW r \in Requests, RotateNotFound(r)
      PROVE TypeOK'
  BY <1>13, TokensAssumption
  DEF RotateNotFound, Answer, Valid, Swept, TypeOK, RequestShape, Ops,
      States, Outcomes, Records, TokensAssumption, storeVars, requestVars
<1>14. ASSUME NEW r \in Requests, Consume(r)
      PROVE TypeOK'
  BY <1>14, TokensAssumption
  DEF Consume, Valid, TypeOK, RequestShape, Ops, States, Outcomes, Records,
      TokensAssumption, storeVars, requestVars
<1>15. ASSUME NEW r \in Requests, ConsumeUnknown(r)
      PROVE TypeOK'
  BY <1>15, TokensAssumption
  DEF ConsumeUnknown, Answer, Valid, TypeOK, RequestShape, Ops, States,
      Outcomes, Records, TokensAssumption, storeVars, requestVars
<1>16. ASSUME NEW r \in Requests, ConsumeNotFound(r)
      PROVE TypeOK'
  BY <1>16, TokensAssumption
  DEF ConsumeNotFound, Answer, Valid, TypeOK, RequestShape, Ops, States,
      Outcomes, Records, TokensAssumption, storeVars, requestVars
<1>17. ASSUME NEW r \in Requests, Match(r)
      PROVE TypeOK'
  BY <1>17, TokensAssumption
  DEF Match, TypeOK, RequestShape, Ops, States, Outcomes, Records,
      TokensAssumption, storeVars, requestVars
<1>18. ASSUME NEW r \in Requests, Mismatch(r)
      PROVE TypeOK'
  BY <1>18, TokensAssumption
  DEF Mismatch, Answer, TypeOK, RequestShape, Ops, States, Outcomes, Records,
      TokensAssumption, storeVars, requestVars
<1>19. ASSUME NEW r \in Requests, StoreFails(r)
      PROVE TypeOK'
  BY <1>19, TokensAssumption
  DEF StoreFails, Answer, TypeOK, RequestShape, Ops, States, Outcomes,
      Records, TokensAssumption, storeVars, requestVars
<1>20. ASSUME NEW r \in Requests, Deliver(r)
      PROVE TypeOK'
  BY <1>20, TokensAssumption
  DEF Deliver, TypeOK, RequestShape, Ops, States, Outcomes, Records,
      TokensAssumption, storeVars, requestVars
<1>21. ASSUME NEW r \in Requests, Lose(r)
      PROVE TypeOK'
  BY <1>21, TokensAssumption
  DEF Lose, TypeOK, RequestShape, Ops, States, Outcomes, Records,
      TokensAssumption, storeVars, requestVars
<1>22. ASSUME NEW t \in Tokens, ExpireToken(t)
      PROVE TypeOK'
  BY <1>22, TokensAssumption
  DEF ExpireToken, Valid, TypeOK, RequestShape, Ops, States, Outcomes,
      Records, TokensAssumption, storeVars, requestVars
<1>23. ASSUME NEW c \in Codes, ExpireCode(c)
      PROVE TypeOK'
  BY <1>23, TokensAssumption
  DEF ExpireCode, Valid, TypeOK, RequestShape, Ops, States, Outcomes,
      Records, TokensAssumption, storeVars, requestVars
<1>24. ASSUME Restart
      PROVE TypeOK'
  BY <1>24, TokensAssumption
  DEF Restart, Restarted, TypeOK, RequestShape, Ops, States, Outcomes,
      Records, TokensAssumption, storeVars, requestVars
<1>25. CASE UNCHANGED vars
  BY <1>25 DEF TypeOK, RequestShape, Ops, States, Outcomes, Records, TokensAssumption, vars, storeVars, requestVars
<1> QED
  BY <1>1, <1>2, <1>3, <1>4, <1>5, <1>6, <1>7, <1>8, <1>9, <1>10, <1>11,
     <1>12, <1>13, <1>14, <1>15, <1>16, <1>17, <1>18, <1>19, <1>20, <1>21,
     <1>22, <1>23, <1>24, <1>25
  DEF Next, Request, Handle

\* Only what is drawn in a step enters the store.
LEMMA FreshStep ==
  TypeOK /\ RequestShape /\ FreshIsNew /\ ArgDrawn /\ [Next]_vars => FreshIsNew'
<1> SUFFICES ASSUME TypeOK, RequestShape, FreshIsNew, ArgDrawn, [Next]_vars PROVE FreshIsNew'
  OBVIOUS
<1>1. ASSUME NEW r \in Requests, NEW u \in Users, GrantPassword(r, u)
      PROVE FreshIsNew'
  BY <1>1, TokensAssumption
  DEF GrantPassword, Arrive, FreshIsNew, ArgDrawn, RequestShape, TypeOK,
      Fresh, TokensAssumption, storeVars, requestVars
<1>2. ASSUME NEW r \in Requests, NEW t \in Tokens, GrantRefresh(r, t)
      PROVE FreshIsNew'
  BY <1>2, TokensAssumption
  DEF GrantRefresh, Arrive, Told, FreshIsNew, ArgDrawn, RequestShape, TypeOK,
      Fresh, TokensAssumption, storeVars, requestVars
<1>3. ASSUME NEW r \in Requests, NEW t \in Tokens, HandleRevoke(r, t)
      PROVE FreshIsNew'
  BY <1>3, TokensAssumption
  DEF HandleRevoke, Arrive, Told, FreshIsNew, ArgDrawn, RequestShape, TypeOK,
      Fresh, TokensAssumption, storeVars, requestVars
<1>4. ASSUME NEW r \in Requests, NEW k \in Clients, HandleOAuthRegister(r, k)
      PROVE FreshIsNew'
  BY <1>4, TokensAssumption
  DEF HandleOAuthRegister, Arrive, FreshIsNew, ArgDrawn, RequestShape,
      TypeOK, Fresh, TokensAssumption, storeVars, requestVars
<1>5. ASSUME NEW r \in Requests, NEW u \in Users, NEW cl \in Claims, AuthorizeConfirm(r, u, cl)
      PROVE FreshIsNew'
  BY <1>5, TokensAssumption
  DEF AuthorizeConfirm, Arrive, FreshIsNew, ArgDrawn, RequestShape, TypeOK,
      Fresh, TokensAssumption, storeVars, requestVars
<1>6. ASSUME NEW r \in Requests, NEW cl \in Claims, AuthorizeRefused(r, cl)
      PROVE FreshIsNew'
  BY <1>6, TokensAssumption
  DEF AuthorizeRefused, Answer, FreshIsNew, ArgDrawn, RequestShape, TypeOK,
      Fresh, TokensAssumption, storeVars, requestVars
<1>7. ASSUME NEW r \in Requests, NEW c \in Codes, NEW cl \in Claims, GrantAuthorizationCode(r, c, cl)
      PROVE FreshIsNew'
  BY <1>7, TokensAssumption
  DEF GrantAuthorizationCode, Arrive, Told, FreshIsNew, ArgDrawn,
      RequestShape, TypeOK, Fresh, TokensAssumption, storeVars, requestVars
<1>8. ASSUME NEW r \in Requests, NEW n \in Tokens, NEW how \in CallReturns, Issue(r, n, how)
      PROVE FreshIsNew'
  BY <1>8, TokensAssumption
  DEF Issue, Answer, CallReturns, FreshIsNew, ArgDrawn, RequestShape, TypeOK,
      Fresh, TokensAssumption, storeVars, requestVars
<1>9. ASSUME NEW r \in Requests, NEW n \in Tokens, NEW how \in CallReturns, Rotate(r, n, how)
      PROVE FreshIsNew'
  <2>1. ASSUME NEW x, Fresh(x)', x \in Tokens \cup Codes
        PROVE  Fresh(x) /\ x # n
    BY <1>9, <2>1, TokensAssumption
    DEF Rotate, RequestShape, TypeOK, Fresh, TokensAssumption
  <2>2. ASSUME NEW x \in Tokens, Fresh(x)'
        PROVE  refr'[x] = None /\ chain'[x] = None /\ x \notin expired'
    <3>1. Fresh(x) /\ x # n
      BY <2>1, <2>2
    <3>2. refr[x] = None /\ chain[x] = None /\ x \notin expired
      BY <3>1 DEF FreshIsNew
    <3> QED
      BY <1>9, <3>1, <3>2 DEF Rotate, Swept, TypeOK, RequestShape
  <2>3. codes' = codes
    BY <1>9 DEF Rotate
  <2> QED
    BY <2>1, <2>2, <2>3 DEF FreshIsNew
<1>10. ASSUME NEW r \in Requests, NEW how \in CallReturns, Revoke(r, how)
      PROVE FreshIsNew'
  BY <1>10, TokensAssumption
  DEF Revoke, Answer, CallReturns, FreshIsNew, ArgDrawn, RequestShape,
      TypeOK, Fresh, TokensAssumption, storeVars, requestVars
<1>11. ASSUME NEW r \in Requests, NEW U \in SUBSET Uris \ {{}}, NEW how \in CallReturns, SaveOAuthClient(r, U, how)
      PROVE FreshIsNew'
  BY <1>11, TokensAssumption
  DEF SaveOAuthClient, Answer, CallReturns, FreshIsNew, ArgDrawn,
      RequestShape, TypeOK, Fresh, TokensAssumption, storeVars, requestVars
<1>12. ASSUME NEW r \in Requests, NEW c \in Codes, NEW how \in CallReturns, SaveOAuthCode(r, c, how)
      PROVE FreshIsNew'
  BY <1>12, TokensAssumption
  DEF SaveOAuthCode, Answer, CallReturns, Swept, FreshIsNew, ArgDrawn,
      RequestShape, TypeOK, Fresh, TokensAssumption, storeVars, requestVars
<1>13. ASSUME NEW r \in Requests, RotateNotFound(r)
      PROVE FreshIsNew'
  BY <1>13, TokensAssumption
  DEF RotateNotFound, Answer, Valid, Swept, FreshIsNew, ArgDrawn,
      RequestShape, TypeOK, Fresh, TokensAssumption, storeVars, requestVars
<1>14. ASSUME NEW r \in Requests, Consume(r)
      PROVE FreshIsNew'
  BY <1>14, TokensAssumption
  DEF Consume, Valid, FreshIsNew, ArgDrawn, RequestShape, TypeOK, Fresh,
      TokensAssumption, storeVars, requestVars
<1>15. ASSUME NEW r \in Requests, ConsumeUnknown(r)
      PROVE FreshIsNew'
  BY <1>15, TokensAssumption
  DEF ConsumeUnknown, Answer, Valid, FreshIsNew, ArgDrawn, RequestShape,
      TypeOK, Fresh, TokensAssumption, storeVars, requestVars
<1>16. ASSUME NEW r \in Requests, ConsumeNotFound(r)
      PROVE FreshIsNew'
  BY <1>16, TokensAssumption
  DEF ConsumeNotFound, Answer, Valid, FreshIsNew, ArgDrawn, RequestShape,
      TypeOK, Fresh, TokensAssumption, storeVars, requestVars
<1>17. ASSUME NEW r \in Requests, Match(r)
      PROVE FreshIsNew'
  BY <1>17, TokensAssumption
  DEF Match, FreshIsNew, ArgDrawn, RequestShape, TypeOK, Fresh,
      TokensAssumption, storeVars, requestVars
<1>18. ASSUME NEW r \in Requests, Mismatch(r)
      PROVE FreshIsNew'
  BY <1>18, TokensAssumption
  DEF Mismatch, Answer, FreshIsNew, ArgDrawn, RequestShape, TypeOK, Fresh,
      TokensAssumption, storeVars, requestVars
<1>19. ASSUME NEW r \in Requests, StoreFails(r)
      PROVE FreshIsNew'
  BY <1>19, TokensAssumption
  DEF StoreFails, Answer, FreshIsNew, ArgDrawn, RequestShape, TypeOK, Fresh,
      TokensAssumption, storeVars, requestVars
<1>20. ASSUME NEW r \in Requests, Deliver(r)
      PROVE FreshIsNew'
  BY <1>20, TokensAssumption
  DEF Deliver, FreshIsNew, ArgDrawn, RequestShape, TypeOK, Fresh,
      TokensAssumption, storeVars, requestVars
<1>21. ASSUME NEW r \in Requests, Lose(r)
      PROVE FreshIsNew'
  BY <1>21, TokensAssumption
  DEF Lose, FreshIsNew, ArgDrawn, RequestShape, TypeOK, Fresh,
      TokensAssumption, storeVars, requestVars
<1>22. ASSUME NEW t \in Tokens, ExpireToken(t)
      PROVE FreshIsNew'
  BY <1>22, TokensAssumption
  DEF ExpireToken, Valid, FreshIsNew, ArgDrawn, RequestShape, TypeOK, Fresh,
      TokensAssumption, storeVars, requestVars
<1>23. ASSUME NEW c \in Codes, ExpireCode(c)
      PROVE FreshIsNew'
  BY <1>23, TokensAssumption
  DEF ExpireCode, Valid, FreshIsNew, ArgDrawn, RequestShape, TypeOK, Fresh,
      TokensAssumption, storeVars, requestVars
<1>24. ASSUME Restart
      PROVE FreshIsNew'
  BY <1>24, TokensAssumption
  DEF Restart, Restarted, FreshIsNew, ArgDrawn, RequestShape, TypeOK, Fresh,
      TokensAssumption, storeVars, requestVars
<1>25. CASE UNCHANGED vars
  BY <1>25 DEF FreshIsNew, ArgDrawn, RequestShape, TypeOK, Fresh, TokensAssumption, vars, storeVars, requestVars
<1> QED
  BY <1>1, <1>2, <1>3, <1>4, <1>5, <1>6, <1>7, <1>8, <1>9, <1>10, <1>11,
     <1>12, <1>13, <1>14, <1>15, <1>16, <1>17, <1>18, <1>19, <1>20, <1>21,
     <1>22, <1>23, <1>24, <1>25
  DEF Next, Request, Handle

\* A request carries what an answer told.
LEMMA ArgStep ==
  TypeOK /\ RequestShape /\ ArgDrawn /\ [Next]_vars => ArgDrawn'
<1> SUFFICES ASSUME TypeOK, RequestShape, ArgDrawn, [Next]_vars PROVE ArgDrawn'
  OBVIOUS
<1>1. ASSUME NEW r \in Requests, NEW u \in Users, GrantPassword(r, u)
      PROVE ArgDrawn'
  BY <1>1, TokensAssumption
  DEF GrantPassword, Arrive, ArgDrawn, RequestShape, TypeOK, Fresh,
      TokensAssumption, storeVars, requestVars
<1>2. ASSUME NEW r \in Requests, NEW t \in Tokens, GrantRefresh(r, t)
      PROVE ArgDrawn'
  BY <1>2, TokensAssumption
  DEF GrantRefresh, Arrive, Told, ArgDrawn, RequestShape, TypeOK, Fresh,
      TokensAssumption, storeVars, requestVars
<1>3. ASSUME NEW r \in Requests, NEW t \in Tokens, HandleRevoke(r, t)
      PROVE ArgDrawn'
  BY <1>3, TokensAssumption
  DEF HandleRevoke, Arrive, Told, ArgDrawn, RequestShape, TypeOK, Fresh,
      TokensAssumption, storeVars, requestVars
<1>4. ASSUME NEW r \in Requests, NEW k \in Clients, HandleOAuthRegister(r, k)
      PROVE ArgDrawn'
  BY <1>4, TokensAssumption
  DEF HandleOAuthRegister, Arrive, ArgDrawn, RequestShape, TypeOK, Fresh,
      TokensAssumption, storeVars, requestVars
<1>5. ASSUME NEW r \in Requests, NEW u \in Users, NEW cl \in Claims, AuthorizeConfirm(r, u, cl)
      PROVE ArgDrawn'
  BY <1>5, TokensAssumption
  DEF AuthorizeConfirm, Arrive, ArgDrawn, RequestShape, TypeOK, Fresh,
      TokensAssumption, storeVars, requestVars
<1>6. ASSUME NEW r \in Requests, NEW cl \in Claims, AuthorizeRefused(r, cl)
      PROVE ArgDrawn'
  BY <1>6, TokensAssumption
  DEF AuthorizeRefused, Answer, ArgDrawn, RequestShape, TypeOK, Fresh,
      TokensAssumption, storeVars, requestVars
<1>7. ASSUME NEW r \in Requests, NEW c \in Codes, NEW cl \in Claims, GrantAuthorizationCode(r, c, cl)
      PROVE ArgDrawn'
  BY <1>7, TokensAssumption
  DEF GrantAuthorizationCode, Arrive, Told, ArgDrawn, RequestShape, TypeOK,
      Fresh, TokensAssumption, storeVars, requestVars
<1>8. ASSUME NEW r \in Requests, NEW n \in Tokens, NEW how \in CallReturns, Issue(r, n, how)
      PROVE ArgDrawn'
  BY <1>8, TokensAssumption
  DEF Issue, Answer, CallReturns, ArgDrawn, RequestShape, TypeOK, Fresh,
      TokensAssumption, storeVars, requestVars
<1>9. ASSUME NEW r \in Requests, NEW n \in Tokens, NEW how \in CallReturns, Rotate(r, n, how)
      PROVE ArgDrawn'
  BY <1>9, TokensAssumption
  DEF Rotate, Answer, CallReturns, Valid, Swept, ArgDrawn, RequestShape,
      TypeOK, Fresh, TokensAssumption, storeVars, requestVars
<1>10. ASSUME NEW r \in Requests, NEW how \in CallReturns, Revoke(r, how)
      PROVE ArgDrawn'
  BY <1>10, TokensAssumption
  DEF Revoke, Answer, CallReturns, ArgDrawn, RequestShape, TypeOK, Fresh,
      TokensAssumption, storeVars, requestVars
<1>11. ASSUME NEW r \in Requests, NEW U \in SUBSET Uris \ {{}}, NEW how \in CallReturns, SaveOAuthClient(r, U, how)
      PROVE ArgDrawn'
  BY <1>11, TokensAssumption
  DEF SaveOAuthClient, Answer, CallReturns, ArgDrawn, RequestShape, TypeOK,
      Fresh, TokensAssumption, storeVars, requestVars
<1>12. ASSUME NEW r \in Requests, NEW c \in Codes, NEW how \in CallReturns, SaveOAuthCode(r, c, how)
      PROVE ArgDrawn'
  BY <1>12, TokensAssumption
  DEF SaveOAuthCode, Answer, CallReturns, Swept, ArgDrawn, RequestShape,
      TypeOK, Fresh, TokensAssumption, storeVars, requestVars
<1>13. ASSUME NEW r \in Requests, RotateNotFound(r)
      PROVE ArgDrawn'
  BY <1>13, TokensAssumption
  DEF RotateNotFound, Answer, Valid, Swept, ArgDrawn, RequestShape, TypeOK,
      Fresh, TokensAssumption, storeVars, requestVars
<1>14. ASSUME NEW r \in Requests, Consume(r)
      PROVE ArgDrawn'
  BY <1>14, TokensAssumption
  DEF Consume, Valid, ArgDrawn, RequestShape, TypeOK, Fresh,
      TokensAssumption, storeVars, requestVars
<1>15. ASSUME NEW r \in Requests, ConsumeUnknown(r)
      PROVE ArgDrawn'
  BY <1>15, TokensAssumption
  DEF ConsumeUnknown, Answer, Valid, ArgDrawn, RequestShape, TypeOK, Fresh,
      TokensAssumption, storeVars, requestVars
<1>16. ASSUME NEW r \in Requests, ConsumeNotFound(r)
      PROVE ArgDrawn'
  BY <1>16, TokensAssumption
  DEF ConsumeNotFound, Answer, Valid, ArgDrawn, RequestShape, TypeOK, Fresh,
      TokensAssumption, storeVars, requestVars
<1>17. ASSUME NEW r \in Requests, Match(r)
      PROVE ArgDrawn'
  BY <1>17, TokensAssumption
  DEF Match, ArgDrawn, RequestShape, TypeOK, Fresh, TokensAssumption,
      storeVars, requestVars
<1>18. ASSUME NEW r \in Requests, Mismatch(r)
      PROVE ArgDrawn'
  BY <1>18, TokensAssumption
  DEF Mismatch, Answer, ArgDrawn, RequestShape, TypeOK, Fresh,
      TokensAssumption, storeVars, requestVars
<1>19. ASSUME NEW r \in Requests, StoreFails(r)
      PROVE ArgDrawn'
  BY <1>19, TokensAssumption
  DEF StoreFails, Answer, ArgDrawn, RequestShape, TypeOK, Fresh,
      TokensAssumption, storeVars, requestVars
<1>20. ASSUME NEW r \in Requests, Deliver(r)
      PROVE ArgDrawn'
  BY <1>20, TokensAssumption
  DEF Deliver, ArgDrawn, RequestShape, TypeOK, Fresh, TokensAssumption,
      storeVars, requestVars
<1>21. ASSUME NEW r \in Requests, Lose(r)
      PROVE ArgDrawn'
  BY <1>21, TokensAssumption
  DEF Lose, ArgDrawn, RequestShape, TypeOK, Fresh, TokensAssumption,
      storeVars, requestVars
<1>22. ASSUME NEW t \in Tokens, ExpireToken(t)
      PROVE ArgDrawn'
  BY <1>22, TokensAssumption
  DEF ExpireToken, Valid, ArgDrawn, RequestShape, TypeOK, Fresh,
      TokensAssumption, storeVars, requestVars
<1>23. ASSUME NEW c \in Codes, ExpireCode(c)
      PROVE ArgDrawn'
  BY <1>23, TokensAssumption
  DEF ExpireCode, Valid, ArgDrawn, RequestShape, TypeOK, Fresh,
      TokensAssumption, storeVars, requestVars
<1>24. ASSUME Restart
      PROVE ArgDrawn'
  BY <1>24, TokensAssumption
  DEF Restart, Restarted, ArgDrawn, RequestShape, TypeOK, Fresh,
      TokensAssumption, storeVars, requestVars
<1>25. CASE UNCHANGED vars
  BY <1>25 DEF ArgDrawn, RequestShape, TypeOK, Fresh, TokensAssumption, vars, storeVars, requestVars
<1> QED
  BY <1>1, <1>2, <1>3, <1>4, <1>5, <1>6, <1>7, <1>8, <1>9, <1>10, <1>11,
     <1>12, <1>13, <1>14, <1>15, <1>16, <1>17, <1>18, <1>19, <1>20, <1>21,
     <1>22, <1>23, <1>24, <1>25
  DEF Next, Request, Handle

\* The handlers go from one control state to the next with what they need.
LEMMA ShapeStep ==
  TypeOK /\ RequestShape /\ [Next]_vars => RequestShape'
<1> SUFFICES ASSUME TypeOK, RequestShape, [Next]_vars PROVE RequestShape'
  OBVIOUS
<1>1. ASSUME NEW r \in Requests, NEW u \in Users, GrantPassword(r, u)
      PROVE RequestShape'
  BY <1>1, TokensAssumption
  DEF GrantPassword, Arrive, RequestShape, TypeOK, Records, TokensAssumption,
      storeVars, requestVars
<1>2. ASSUME NEW r \in Requests, NEW t \in Tokens, GrantRefresh(r, t)
      PROVE RequestShape'
  BY <1>2, TokensAssumption
  DEF GrantRefresh, Arrive, Told, RequestShape, TypeOK, Records,
      TokensAssumption, storeVars, requestVars
<1>3. ASSUME NEW r \in Requests, NEW t \in Tokens, HandleRevoke(r, t)
      PROVE RequestShape'
  BY <1>3, TokensAssumption
  DEF HandleRevoke, Arrive, Told, RequestShape, TypeOK, Records,
      TokensAssumption, storeVars, requestVars
<1>4. ASSUME NEW r \in Requests, NEW k \in Clients, HandleOAuthRegister(r, k)
      PROVE RequestShape'
  BY <1>4, TokensAssumption
  DEF HandleOAuthRegister, Arrive, Fresh, RequestShape, TypeOK, Records,
      TokensAssumption, storeVars, requestVars
<1>5. ASSUME NEW r \in Requests, NEW u \in Users, NEW cl \in Claims, AuthorizeConfirm(r, u, cl)
      PROVE RequestShape'
  BY <1>5, TokensAssumption
  DEF AuthorizeConfirm, Arrive, RequestShape, TypeOK, Records,
      TokensAssumption, storeVars, requestVars
<1>6. ASSUME NEW r \in Requests, NEW cl \in Claims, AuthorizeRefused(r, cl)
      PROVE RequestShape'
  BY <1>6, TokensAssumption
  DEF AuthorizeRefused, Answer, RequestShape, TypeOK, Records,
      TokensAssumption, storeVars, requestVars
<1>7. ASSUME NEW r \in Requests, NEW c \in Codes, NEW cl \in Claims, GrantAuthorizationCode(r, c, cl)
      PROVE RequestShape'
  BY <1>7, TokensAssumption
  DEF GrantAuthorizationCode, Arrive, Told, RequestShape, TypeOK, Records,
      TokensAssumption, storeVars, requestVars
<1>8. ASSUME NEW r \in Requests, NEW n \in Tokens, NEW how \in CallReturns, Issue(r, n, how)
      PROVE RequestShape'
  BY <1>8, TokensAssumption
  DEF Issue, Answer, CallReturns, Fresh, RequestShape, TypeOK, Records,
      TokensAssumption, storeVars, requestVars
<1>9. ASSUME NEW r \in Requests, NEW n \in Tokens, NEW how \in CallReturns, Rotate(r, n, how)
      PROVE RequestShape'
  BY <1>9, TokensAssumption
  DEF Rotate, Answer, CallReturns, Valid, Swept, Fresh, RequestShape, TypeOK,
      Records, TokensAssumption, storeVars, requestVars
<1>10. ASSUME NEW r \in Requests, NEW how \in CallReturns, Revoke(r, how)
      PROVE RequestShape'
  BY <1>10, TokensAssumption
  DEF Revoke, Answer, CallReturns, RequestShape, TypeOK, Records,
      TokensAssumption, storeVars, requestVars
<1>11. ASSUME NEW r \in Requests, NEW U \in SUBSET Uris \ {{}}, NEW how \in CallReturns, SaveOAuthClient(r, U, how)
      PROVE RequestShape'
  BY <1>11, TokensAssumption
  DEF SaveOAuthClient, Answer, CallReturns, RequestShape, TypeOK, Records,
      TokensAssumption, storeVars, requestVars
<1>12. ASSUME NEW r \in Requests, NEW c \in Codes, NEW how \in CallReturns, SaveOAuthCode(r, c, how)
      PROVE RequestShape'
  BY <1>12, TokensAssumption
  DEF SaveOAuthCode, Answer, CallReturns, Swept, Fresh, RequestShape, TypeOK,
      Records, TokensAssumption, storeVars, requestVars
<1>13. ASSUME NEW r \in Requests, RotateNotFound(r)
      PROVE RequestShape'
  BY <1>13, TokensAssumption
  DEF RotateNotFound, Answer, Valid, Swept, RequestShape, TypeOK, Records,
      TokensAssumption, storeVars, requestVars
<1>14. ASSUME NEW r \in Requests, Consume(r)
      PROVE RequestShape'
  BY <1>14, TokensAssumption
  DEF Consume, Valid, RequestShape, TypeOK, Records, TokensAssumption,
      storeVars, requestVars
<1>15. ASSUME NEW r \in Requests, ConsumeUnknown(r)
      PROVE RequestShape'
  BY <1>15, TokensAssumption
  DEF ConsumeUnknown, Answer, Valid, RequestShape, TypeOK, Records,
      TokensAssumption, storeVars, requestVars
<1>16. ASSUME NEW r \in Requests, ConsumeNotFound(r)
      PROVE RequestShape'
  BY <1>16, TokensAssumption
  DEF ConsumeNotFound, Answer, Valid, RequestShape, TypeOK, Records,
      TokensAssumption, storeVars, requestVars
<1>17. ASSUME NEW r \in Requests, Match(r)
      PROVE RequestShape'
  BY <1>17, TokensAssumption
  DEF Match, RequestShape, TypeOK, Records, TokensAssumption, storeVars,
      requestVars
<1>18. ASSUME NEW r \in Requests, Mismatch(r)
      PROVE RequestShape'
  BY <1>18, TokensAssumption
  DEF Mismatch, Answer, RequestShape, TypeOK, Records, TokensAssumption,
      storeVars, requestVars
<1>19. ASSUME NEW r \in Requests, StoreFails(r)
      PROVE RequestShape'
  BY <1>19, TokensAssumption
  DEF StoreFails, Answer, RequestShape, TypeOK, Records, TokensAssumption,
      storeVars, requestVars
<1>20. ASSUME NEW r \in Requests, Deliver(r)
      PROVE RequestShape'
  BY <1>20, TokensAssumption
  DEF Deliver, RequestShape, TypeOK, Records, TokensAssumption, storeVars,
      requestVars
<1>21. ASSUME NEW r \in Requests, Lose(r)
      PROVE RequestShape'
  BY <1>21, TokensAssumption
  DEF Lose, RequestShape, TypeOK, Records, TokensAssumption, storeVars,
      requestVars
<1>22. ASSUME NEW t \in Tokens, ExpireToken(t)
      PROVE RequestShape'
  BY <1>22, TokensAssumption
  DEF ExpireToken, Valid, RequestShape, TypeOK, Records, TokensAssumption,
      storeVars, requestVars
<1>23. ASSUME NEW c \in Codes, ExpireCode(c)
      PROVE RequestShape'
  BY <1>23, TokensAssumption
  DEF ExpireCode, Valid, RequestShape, TypeOK, Records, TokensAssumption,
      storeVars, requestVars
<1>24. ASSUME Restart
      PROVE RequestShape'
  BY <1>24, TokensAssumption
  DEF Restart, Restarted, RequestShape, TypeOK, Records, TokensAssumption,
      storeVars, requestVars
<1>25. CASE UNCHANGED vars
  BY <1>25 DEF RequestShape, TypeOK, Records, TokensAssumption, vars, storeVars, requestVars
<1> QED
  BY <1>1, <1>2, <1>3, <1>4, <1>5, <1>6, <1>7, <1>8, <1>9, <1>10, <1>11,
     <1>12, <1>13, <1>14, <1>15, <1>16, <1>17, <1>18, <1>19, <1>20, <1>21,
     <1>22, <1>23, <1>24, <1>25
  DEF Next, Request, Handle

\* What Rotate does to the store: the old token goes, the new one takes its
\* user and its chain, every other token stays or is swept.
LEMMA RotateEffect ==
  ASSUME TypeOK, RequestShape, FreshIsNew,
         NEW r \in Requests, NEW n \in Tokens, NEW how, Rotate(r, n, how)
  PROVE  /\ arg[r] \in Tokens /\ arg[r] # n
         /\ refr[n] = None /\ chain[n] = None
         /\ refr'[n] = refr[arg[r]] /\ refr'[arg[r]] = None
         /\ \A t \in Tokens \ {n} : refr'[t] # None =>
              t # arg[r] /\ refr[t] # None /\ refr'[t] = refr[t]
         /\ chain' = [chain EXCEPT ![n] = chain[arg[r]]]
<1>1. arg[r] \in Tokens
  BY DEF Rotate, RequestShape
<1>2. refr[n] = None /\ chain[n] = None
  BY DEF Rotate, FreshIsNew
<1>3. arg[r] # n
  BY <1>2 DEF Rotate
<1>4. /\ refr' = [Swept(refr) EXCEPT ![arg[r]] = None, ![n] = refr[arg[r]]]
      /\ Swept(refr) \in [Tokens -> Users \cup {None}]
      /\ \A t \in Tokens : Swept(refr)[t] # None => Swept(refr)[t] = refr[t]
  BY DEF Rotate, Swept, TypeOK
<1>5. chain' = [chain EXCEPT ![n] = chain[arg[r]]]
  BY DEF Rotate
<1> QED
  BY <1>1, <1>2, <1>3, <1>4, <1>5

\* Rotation hands the chain on.
LEMMA ChainStep ==
  TypeOK /\ RequestShape /\ FreshIsNew /\ ChainRoots /\ [Next]_vars => ChainRoots'
<1> SUFFICES ASSUME TypeOK, RequestShape, FreshIsNew, ChainRoots, [Next]_vars PROVE ChainRoots'
  OBVIOUS
<1>1. ASSUME NEW r \in Requests, NEW u \in Users, GrantPassword(r, u)
      PROVE ChainRoots'
  BY <1>1, TokensAssumption
  DEF GrantPassword, Arrive, ChainRoots, FreshIsNew, RequestShape, TypeOK,
      TokensAssumption, storeVars, requestVars
<1>2. ASSUME NEW r \in Requests, NEW t \in Tokens, GrantRefresh(r, t)
      PROVE ChainRoots'
  BY <1>2, TokensAssumption
  DEF GrantRefresh, Arrive, Told, ChainRoots, FreshIsNew, RequestShape,
      TypeOK, TokensAssumption, storeVars, requestVars
<1>3. ASSUME NEW r \in Requests, NEW t \in Tokens, HandleRevoke(r, t)
      PROVE ChainRoots'
  BY <1>3, TokensAssumption
  DEF HandleRevoke, Arrive, Told, ChainRoots, FreshIsNew, RequestShape,
      TypeOK, TokensAssumption, storeVars, requestVars
<1>4. ASSUME NEW r \in Requests, NEW k \in Clients, HandleOAuthRegister(r, k)
      PROVE ChainRoots'
  BY <1>4, TokensAssumption
  DEF HandleOAuthRegister, Arrive, Fresh, ChainRoots, FreshIsNew,
      RequestShape, TypeOK, TokensAssumption, storeVars, requestVars
<1>5. ASSUME NEW r \in Requests, NEW u \in Users, NEW cl \in Claims, AuthorizeConfirm(r, u, cl)
      PROVE ChainRoots'
  BY <1>5, TokensAssumption
  DEF AuthorizeConfirm, Arrive, ChainRoots, FreshIsNew, RequestShape, TypeOK,
      TokensAssumption, storeVars, requestVars
<1>6. ASSUME NEW r \in Requests, NEW cl \in Claims, AuthorizeRefused(r, cl)
      PROVE ChainRoots'
  BY <1>6, TokensAssumption
  DEF AuthorizeRefused, Answer, ChainRoots, FreshIsNew, RequestShape, TypeOK,
      TokensAssumption, storeVars, requestVars
<1>7. ASSUME NEW r \in Requests, NEW c \in Codes, NEW cl \in Claims, GrantAuthorizationCode(r, c, cl)
      PROVE ChainRoots'
  BY <1>7, TokensAssumption
  DEF GrantAuthorizationCode, Arrive, Told, ChainRoots, FreshIsNew,
      RequestShape, TypeOK, TokensAssumption, storeVars, requestVars
<1>8. ASSUME NEW r \in Requests, NEW n \in Tokens, NEW how \in CallReturns, Issue(r, n, how)
      PROVE ChainRoots'
  BY <1>8, TokensAssumption
  DEF Issue, Answer, CallReturns, Fresh, ChainRoots, FreshIsNew,
      RequestShape, TypeOK, TokensAssumption, storeVars, requestVars
<1>9. ASSUME NEW r \in Requests, NEW n \in Tokens, NEW how \in CallReturns, Rotate(r, n, how)
      PROVE ChainRoots'
  <2>0. arg[r] \in Tokens /\ refr[arg[r]] # None
    BY <1>9, RotateEffect DEF Rotate
  <2>1. chain[arg[r]] \in Tokens \ {n} /\ chain[chain[arg[r]]] = chain[arg[r]]
    <3>1. chain[n] = None
      BY <1>9, RotateEffect
    <3> QED
      BY <2>0, <3>1, TokensAssumption DEF ChainRoots, TokensAssumption
  <2>2. ASSUME NEW t \in Tokens, refr'[t] # None
        PROVE  chain'[t] # None
    BY <1>9, <2>1, <2>2, RotateEffect, TokensAssumption
    DEF ChainRoots, TypeOK, TokensAssumption
  <2>3. ASSUME NEW t \in Tokens, chain'[t] # None
        PROVE  chain'[t] \in Tokens /\ chain'[chain'[t]] = chain'[t]
    <3>1. CASE t = n
      BY <1>9, <2>1, <3>1, RotateEffect DEF TypeOK
    <3>2. CASE t # n
      <4>1. chain'[t] = chain[t] /\ chain[t] \in Tokens /\ chain[chain[t]] = chain[t]
        BY <1>9, <2>3, <3>2, RotateEffect DEF ChainRoots, TypeOK
      <4>2. chain[t] # n
        BY <1>9, <2>3, <4>1, RotateEffect
      <4> QED
        BY <1>9, <4>1, <4>2, RotateEffect DEF TypeOK
    <3> QED
      BY <3>1, <3>2
  <2> QED
    BY <2>2, <2>3 DEF ChainRoots
<1>10. ASSUME NEW r \in Requests, NEW how \in CallReturns, Revoke(r, how)
      PROVE ChainRoots'
  BY <1>10, TokensAssumption
  DEF Revoke, Answer, CallReturns, ChainRoots, FreshIsNew, RequestShape,
      TypeOK, TokensAssumption, storeVars, requestVars
<1>11. ASSUME NEW r \in Requests, NEW U \in SUBSET Uris \ {{}}, NEW how \in CallReturns, SaveOAuthClient(r, U, how)
      PROVE ChainRoots'
  BY <1>11, TokensAssumption
  DEF SaveOAuthClient, Answer, CallReturns, ChainRoots, FreshIsNew,
      RequestShape, TypeOK, TokensAssumption, storeVars, requestVars
<1>12. ASSUME NEW r \in Requests, NEW c \in Codes, NEW how \in CallReturns, SaveOAuthCode(r, c, how)
      PROVE ChainRoots'
  BY <1>12, TokensAssumption
  DEF SaveOAuthCode, Answer, CallReturns, Swept, Fresh, ChainRoots,
      FreshIsNew, RequestShape, TypeOK, TokensAssumption, storeVars, requestVars
<1>13. ASSUME NEW r \in Requests, RotateNotFound(r)
      PROVE ChainRoots'
  BY <1>13, TokensAssumption
  DEF RotateNotFound, Answer, Valid, Swept, ChainRoots, FreshIsNew,
      RequestShape, TypeOK, TokensAssumption, storeVars, requestVars
<1>14. ASSUME NEW r \in Requests, Consume(r)
      PROVE ChainRoots'
  BY <1>14, TokensAssumption
  DEF Consume, Valid, ChainRoots, FreshIsNew, RequestShape, TypeOK,
      TokensAssumption, storeVars, requestVars
<1>15. ASSUME NEW r \in Requests, ConsumeUnknown(r)
      PROVE ChainRoots'
  BY <1>15, TokensAssumption
  DEF ConsumeUnknown, Answer, Valid, ChainRoots, FreshIsNew, RequestShape,
      TypeOK, TokensAssumption, storeVars, requestVars
<1>16. ASSUME NEW r \in Requests, ConsumeNotFound(r)
      PROVE ChainRoots'
  BY <1>16, TokensAssumption
  DEF ConsumeNotFound, Answer, Valid, ChainRoots, FreshIsNew, RequestShape,
      TypeOK, TokensAssumption, storeVars, requestVars
<1>17. ASSUME NEW r \in Requests, Match(r)
      PROVE ChainRoots'
  BY <1>17, TokensAssumption
  DEF Match, ChainRoots, FreshIsNew, RequestShape, TypeOK, TokensAssumption,
      storeVars, requestVars
<1>18. ASSUME NEW r \in Requests, Mismatch(r)
      PROVE ChainRoots'
  BY <1>18, TokensAssumption
  DEF Mismatch, Answer, ChainRoots, FreshIsNew, RequestShape, TypeOK,
      TokensAssumption, storeVars, requestVars
<1>19. ASSUME NEW r \in Requests, StoreFails(r)
      PROVE ChainRoots'
  BY <1>19, TokensAssumption
  DEF StoreFails, Answer, ChainRoots, FreshIsNew, RequestShape, TypeOK,
      TokensAssumption, storeVars, requestVars
<1>20. ASSUME NEW r \in Requests, Deliver(r)
      PROVE ChainRoots'
  BY <1>20, TokensAssumption
  DEF Deliver, ChainRoots, FreshIsNew, RequestShape, TypeOK,
      TokensAssumption, storeVars, requestVars
<1>21. ASSUME NEW r \in Requests, Lose(r)
      PROVE ChainRoots'
  BY <1>21, TokensAssumption
  DEF Lose, ChainRoots, FreshIsNew, RequestShape, TypeOK, TokensAssumption,
      storeVars, requestVars
<1>22. ASSUME NEW t \in Tokens, ExpireToken(t)
      PROVE ChainRoots'
  BY <1>22, TokensAssumption
  DEF ExpireToken, Valid, ChainRoots, FreshIsNew, RequestShape, TypeOK,
      TokensAssumption, storeVars, requestVars
<1>23. ASSUME NEW c \in Codes, ExpireCode(c)
      PROVE ChainRoots'
  BY <1>23, TokensAssumption
  DEF ExpireCode, Valid, ChainRoots, FreshIsNew, RequestShape, TypeOK,
      TokensAssumption, storeVars, requestVars
<1>24. ASSUME Restart
      PROVE ChainRoots'
  BY <1>24, TokensAssumption
  DEF Restart, Restarted, ChainRoots, FreshIsNew, RequestShape, TypeOK,
      TokensAssumption, storeVars, requestVars
<1>25. CASE UNCHANGED vars
  BY <1>25 DEF ChainRoots, FreshIsNew, RequestShape, TypeOK, TokensAssumption, vars, storeVars, requestVars
<1> QED
  BY <1>1, <1>2, <1>3, <1>4, <1>5, <1>6, <1>7, <1>8, <1>9, <1>10, <1>11,
     <1>12, <1>13, <1>14, <1>15, <1>16, <1>17, <1>18, <1>19, <1>20, <1>21,
     <1>22, <1>23, <1>24, <1>25
  DEF Next, Request, Handle

\* A new token takes the place of the old one of its session, or begins a session.
LEMMA OneTokenStep ==
  TypeOK /\ RequestShape /\ FreshIsNew /\ ChainRoots /\ OneTokenPerSession /\ [Next]_vars => OneTokenPerSession'
<1> SUFFICES ASSUME TypeOK, RequestShape, FreshIsNew, ChainRoots, OneTokenPerSession, [Next]_vars PROVE OneTokenPerSession'
  OBVIOUS
<1>1. ASSUME NEW r \in Requests, NEW u \in Users, GrantPassword(r, u)
      PROVE OneTokenPerSession'
  BY <1>1, TokensAssumption
  DEF GrantPassword, Arrive, OneTokenPerSession, ChainRoots, FreshIsNew,
      RequestShape, TypeOK, TokensAssumption, storeVars, requestVars
<1>2. ASSUME NEW r \in Requests, NEW t \in Tokens, GrantRefresh(r, t)
      PROVE OneTokenPerSession'
  BY <1>2, TokensAssumption
  DEF GrantRefresh, Arrive, Told, OneTokenPerSession, ChainRoots, FreshIsNew,
      RequestShape, TypeOK, TokensAssumption, storeVars, requestVars
<1>3. ASSUME NEW r \in Requests, NEW t \in Tokens, HandleRevoke(r, t)
      PROVE OneTokenPerSession'
  BY <1>3, TokensAssumption
  DEF HandleRevoke, Arrive, Told, OneTokenPerSession, ChainRoots, FreshIsNew,
      RequestShape, TypeOK, TokensAssumption, storeVars, requestVars
<1>4. ASSUME NEW r \in Requests, NEW k \in Clients, HandleOAuthRegister(r, k)
      PROVE OneTokenPerSession'
  BY <1>4, TokensAssumption
  DEF HandleOAuthRegister, Arrive, Fresh, OneTokenPerSession, ChainRoots,
      FreshIsNew, RequestShape, TypeOK, TokensAssumption, storeVars, requestVars
<1>5. ASSUME NEW r \in Requests, NEW u \in Users, NEW cl \in Claims, AuthorizeConfirm(r, u, cl)
      PROVE OneTokenPerSession'
  BY <1>5, TokensAssumption
  DEF AuthorizeConfirm, Arrive, OneTokenPerSession, ChainRoots, FreshIsNew,
      RequestShape, TypeOK, TokensAssumption, storeVars, requestVars
<1>6. ASSUME NEW r \in Requests, NEW cl \in Claims, AuthorizeRefused(r, cl)
      PROVE OneTokenPerSession'
  BY <1>6, TokensAssumption
  DEF AuthorizeRefused, Answer, OneTokenPerSession, ChainRoots, FreshIsNew,
      RequestShape, TypeOK, TokensAssumption, storeVars, requestVars
<1>7. ASSUME NEW r \in Requests, NEW c \in Codes, NEW cl \in Claims, GrantAuthorizationCode(r, c, cl)
      PROVE OneTokenPerSession'
  BY <1>7, TokensAssumption
  DEF GrantAuthorizationCode, Arrive, Told, OneTokenPerSession, ChainRoots,
      FreshIsNew, RequestShape, TypeOK, TokensAssumption, storeVars, requestVars
<1>8. ASSUME NEW r \in Requests, NEW n \in Tokens, NEW how \in CallReturns, Issue(r, n, how)
      PROVE OneTokenPerSession'
  BY <1>8, TokensAssumption
  DEF Issue, Answer, CallReturns, Fresh, OneTokenPerSession, ChainRoots,
      FreshIsNew, RequestShape, TypeOK, TokensAssumption, storeVars, requestVars
<1>9. ASSUME NEW r \in Requests, NEW n \in Tokens, NEW how \in CallReturns, Rotate(r, n, how)
      PROVE OneTokenPerSession'
  <2> SUFFICES ASSUME NEW t \in Tokens, NEW u \in Tokens,
                      refr'[t] # None, refr'[u] # None, chain'[t] = chain'[u]
               PROVE  t = u
    BY DEF OneTokenPerSession
  <2>1. ASSUME NEW x \in Tokens \ {n}, refr'[x] # None
        PROVE  chain'[x] # chain'[n]
    <3>1. /\ x # arg[r] /\ refr[x] # None /\ refr[arg[r]] # None
          /\ chain'[x] = chain[x] /\ chain'[n] = chain[arg[r]]
      <4>1. refr[arg[r]] # None
        BY <1>9 DEF Rotate
      <4> QED
        BY <1>9, <2>1, <4>1, RotateEffect DEF TypeOK
    <3>2. arg[r] \in Tokens
      BY <1>9, RotateEffect
    <3> QED
      BY <3>1, <3>2 DEF OneTokenPerSession
  <2>2. CASE t # n /\ u # n
    BY <1>9, <2>2, RotateEffect DEF OneTokenPerSession, TypeOK
  <2> QED
    BY <2>1, <2>2
<1>10. ASSUME NEW r \in Requests, NEW how \in CallReturns, Revoke(r, how)
      PROVE OneTokenPerSession'
  BY <1>10, TokensAssumption
  DEF Revoke, Answer, CallReturns, OneTokenPerSession, ChainRoots,
      FreshIsNew, RequestShape, TypeOK, TokensAssumption, storeVars, requestVars
<1>11. ASSUME NEW r \in Requests, NEW U \in SUBSET Uris \ {{}}, NEW how \in CallReturns, SaveOAuthClient(r, U, how)
      PROVE OneTokenPerSession'
  BY <1>11, TokensAssumption
  DEF SaveOAuthClient, Answer, CallReturns, OneTokenPerSession, ChainRoots,
      FreshIsNew, RequestShape, TypeOK, TokensAssumption, storeVars, requestVars
<1>12. ASSUME NEW r \in Requests, NEW c \in Codes, NEW how \in CallReturns, SaveOAuthCode(r, c, how)
      PROVE OneTokenPerSession'
  BY <1>12, TokensAssumption
  DEF SaveOAuthCode, Answer, CallReturns, Swept, Fresh, OneTokenPerSession,
      ChainRoots, FreshIsNew, RequestShape, TypeOK, TokensAssumption,
      storeVars, requestVars
<1>13. ASSUME NEW r \in Requests, RotateNotFound(r)
      PROVE OneTokenPerSession'
  BY <1>13, TokensAssumption
  DEF RotateNotFound, Answer, Valid, Swept, OneTokenPerSession, ChainRoots,
      FreshIsNew, RequestShape, TypeOK, TokensAssumption, storeVars, requestVars
<1>14. ASSUME NEW r \in Requests, Consume(r)
      PROVE OneTokenPerSession'
  BY <1>14, TokensAssumption
  DEF Consume, Valid, OneTokenPerSession, ChainRoots, FreshIsNew,
      RequestShape, TypeOK, TokensAssumption, storeVars, requestVars
<1>15. ASSUME NEW r \in Requests, ConsumeUnknown(r)
      PROVE OneTokenPerSession'
  BY <1>15, TokensAssumption
  DEF ConsumeUnknown, Answer, Valid, OneTokenPerSession, ChainRoots,
      FreshIsNew, RequestShape, TypeOK, TokensAssumption, storeVars, requestVars
<1>16. ASSUME NEW r \in Requests, ConsumeNotFound(r)
      PROVE OneTokenPerSession'
  BY <1>16, TokensAssumption
  DEF ConsumeNotFound, Answer, Valid, OneTokenPerSession, ChainRoots,
      FreshIsNew, RequestShape, TypeOK, TokensAssumption, storeVars, requestVars
<1>17. ASSUME NEW r \in Requests, Match(r)
      PROVE OneTokenPerSession'
  BY <1>17, TokensAssumption
  DEF Match, OneTokenPerSession, ChainRoots, FreshIsNew, RequestShape,
      TypeOK, TokensAssumption, storeVars, requestVars
<1>18. ASSUME NEW r \in Requests, Mismatch(r)
      PROVE OneTokenPerSession'
  BY <1>18, TokensAssumption
  DEF Mismatch, Answer, OneTokenPerSession, ChainRoots, FreshIsNew,
      RequestShape, TypeOK, TokensAssumption, storeVars, requestVars
<1>19. ASSUME NEW r \in Requests, StoreFails(r)
      PROVE OneTokenPerSession'
  BY <1>19, TokensAssumption
  DEF StoreFails, Answer, OneTokenPerSession, ChainRoots, FreshIsNew,
      RequestShape, TypeOK, TokensAssumption, storeVars, requestVars
<1>20. ASSUME NEW r \in Requests, Deliver(r)
      PROVE OneTokenPerSession'
  BY <1>20, TokensAssumption
  DEF Deliver, OneTokenPerSession, ChainRoots, FreshIsNew, RequestShape,
      TypeOK, TokensAssumption, storeVars, requestVars
<1>21. ASSUME NEW r \in Requests, Lose(r)
      PROVE OneTokenPerSession'
  BY <1>21, TokensAssumption
  DEF Lose, OneTokenPerSession, ChainRoots, FreshIsNew, RequestShape, TypeOK,
      TokensAssumption, storeVars, requestVars
<1>22. ASSUME NEW t \in Tokens, ExpireToken(t)
      PROVE OneTokenPerSession'
  BY <1>22, TokensAssumption
  DEF ExpireToken, Valid, OneTokenPerSession, ChainRoots, FreshIsNew,
      RequestShape, TypeOK, TokensAssumption, storeVars, requestVars
<1>23. ASSUME NEW c \in Codes, ExpireCode(c)
      PROVE OneTokenPerSession'
  BY <1>23, TokensAssumption
  DEF ExpireCode, Valid, OneTokenPerSession, ChainRoots, FreshIsNew,
      RequestShape, TypeOK, TokensAssumption, storeVars, requestVars
<1>24. ASSUME Restart
      PROVE OneTokenPerSession'
  BY <1>24, TokensAssumption
  DEF Restart, Restarted, OneTokenPerSession, ChainRoots, FreshIsNew,
      RequestShape, TypeOK, TokensAssumption, storeVars, requestVars
<1>25. CASE UNCHANGED vars
  BY <1>25 DEF OneTokenPerSession, ChainRoots, FreshIsNew, RequestShape, TypeOK, TokensAssumption, vars, storeVars, requestVars
<1> QED
  BY <1>1, <1>2, <1>3, <1>4, <1>5, <1>6, <1>7, <1>8, <1>9, <1>10, <1>11,
     <1>12, <1>13, <1>14, <1>15, <1>16, <1>17, <1>18, <1>19, <1>20, <1>21,
     <1>22, <1>23, <1>24, <1>25
  DEF Next, Request, Handle

\* What a request has won is never stored again, for it was drawn before.
LEMMA WonStep ==
  TypeOK /\ RequestShape /\ FreshIsNew /\ ArgDrawn /\ WonIsGone /\ [Next]_vars => WonIsGone'
<1> SUFFICES ASSUME TypeOK, RequestShape, FreshIsNew, ArgDrawn, WonIsGone, [Next]_vars PROVE WonIsGone'
  OBVIOUS
<1>1. ASSUME NEW r \in Requests, NEW u \in Users, GrantPassword(r, u)
      PROVE WonIsGone'
  BY <1>1, TokensAssumption
  DEF GrantPassword, Arrive, WonIsGone, FreshIsNew, ArgDrawn, RequestShape,
      TypeOK, TokensAssumption, storeVars, requestVars
<1>2. ASSUME NEW r \in Requests, NEW t \in Tokens, GrantRefresh(r, t)
      PROVE WonIsGone'
  BY <1>2, TokensAssumption
  DEF GrantRefresh, Arrive, Told, WonIsGone, FreshIsNew, ArgDrawn,
      RequestShape, TypeOK, TokensAssumption, storeVars, requestVars
<1>3. ASSUME NEW r \in Requests, NEW t \in Tokens, HandleRevoke(r, t)
      PROVE WonIsGone'
  BY <1>3, TokensAssumption
  DEF HandleRevoke, Arrive, Told, WonIsGone, FreshIsNew, ArgDrawn,
      RequestShape, TypeOK, TokensAssumption, storeVars, requestVars
<1>4. ASSUME NEW r \in Requests, NEW k \in Clients, HandleOAuthRegister(r, k)
      PROVE WonIsGone'
  BY <1>4, TokensAssumption
  DEF HandleOAuthRegister, Arrive, Fresh, WonIsGone, FreshIsNew, ArgDrawn,
      RequestShape, TypeOK, TokensAssumption, storeVars, requestVars
<1>5. ASSUME NEW r \in Requests, NEW u \in Users, NEW cl \in Claims, AuthorizeConfirm(r, u, cl)
      PROVE WonIsGone'
  BY <1>5, TokensAssumption
  DEF AuthorizeConfirm, Arrive, WonIsGone, FreshIsNew, ArgDrawn,
      RequestShape, TypeOK, TokensAssumption, storeVars, requestVars
<1>6. ASSUME NEW r \in Requests, NEW cl \in Claims, AuthorizeRefused(r, cl)
      PROVE WonIsGone'
  BY <1>6, TokensAssumption
  DEF AuthorizeRefused, Answer, WonIsGone, FreshIsNew, ArgDrawn,
      RequestShape, TypeOK, TokensAssumption, storeVars, requestVars
<1>7. ASSUME NEW r \in Requests, NEW c \in Codes, NEW cl \in Claims, GrantAuthorizationCode(r, c, cl)
      PROVE WonIsGone'
  BY <1>7, TokensAssumption
  DEF GrantAuthorizationCode, Arrive, Told, WonIsGone, FreshIsNew, ArgDrawn,
      RequestShape, TypeOK, TokensAssumption, storeVars, requestVars
<1>8. ASSUME NEW r \in Requests, NEW n \in Tokens, NEW how \in CallReturns, Issue(r, n, how)
      PROVE WonIsGone'
  BY <1>8, TokensAssumption
  DEF Issue, Answer, CallReturns, Fresh, WonIsGone, FreshIsNew, ArgDrawn,
      RequestShape, TypeOK, TokensAssumption, storeVars, requestVars
<1>9. ASSUME NEW r \in Requests, NEW n \in Tokens, NEW how \in CallReturns, Rotate(r, n, how)
      PROVE WonIsGone'
  <2>1. ASSUME NEW s \in Requests, op'[s] = "refresh", outcome'[s] = "ok"
        PROVE  refr'[arg'[s]] = None
    <3>1. arg' = arg /\ op' = op /\ arg[s] \in Tokens /\ arg[s] # n
      BY <1>9, <2>1, TokensAssumption
      DEF Rotate, RequestShape, ArgDrawn, TokensAssumption
    <3>2. CASE s = r
      BY <1>9, <3>1, <3>2, RotateEffect
    <3>3. CASE s # r
      <4>1. refr[arg[s]] = None
        BY <1>9, <2>1, <3>1, <3>3 DEF Rotate, Answer, WonIsGone, TypeOK
      <4> QED
        BY <1>9, <3>1, <4>1, RotateEffect
    <3> QED
      BY <3>2, <3>3
  <2>2. codes' = codes /\ taken' = taken /\ arg' = arg
    BY <1>9 DEF Rotate
  <2> QED
    BY <2>1, <2>2 DEF WonIsGone
<1>10. ASSUME NEW r \in Requests, NEW how \in CallReturns, Revoke(r, how)
      PROVE WonIsGone'
  BY <1>10, TokensAssumption
  DEF Revoke, Answer, CallReturns, WonIsGone, FreshIsNew, ArgDrawn,
      RequestShape, TypeOK, TokensAssumption, storeVars, requestVars
<1>11. ASSUME NEW r \in Requests, NEW U \in SUBSET Uris \ {{}}, NEW how \in CallReturns, SaveOAuthClient(r, U, how)
      PROVE WonIsGone'
  BY <1>11, TokensAssumption
  DEF SaveOAuthClient, Answer, CallReturns, WonIsGone, FreshIsNew, ArgDrawn,
      RequestShape, TypeOK, TokensAssumption, storeVars, requestVars
<1>12. ASSUME NEW r \in Requests, NEW c \in Codes, NEW how \in CallReturns, SaveOAuthCode(r, c, how)
      PROVE WonIsGone'
  BY <1>12, TokensAssumption
  DEF SaveOAuthCode, Answer, CallReturns, Swept, Fresh, WonIsGone,
      FreshIsNew, ArgDrawn, RequestShape, TypeOK, TokensAssumption,
      storeVars, requestVars
<1>13. ASSUME NEW r \in Requests, RotateNotFound(r)
      PROVE WonIsGone'
  BY <1>13, TokensAssumption
  DEF RotateNotFound, Answer, Valid, Swept, WonIsGone, FreshIsNew, ArgDrawn,
      RequestShape, TypeOK, TokensAssumption, storeVars, requestVars
<1>14. ASSUME NEW r \in Requests, Consume(r)
      PROVE WonIsGone'
  BY <1>14, TokensAssumption
  DEF Consume, Valid, WonIsGone, FreshIsNew, ArgDrawn, RequestShape, TypeOK,
      TokensAssumption, storeVars, requestVars
<1>15. ASSUME NEW r \in Requests, ConsumeUnknown(r)
      PROVE WonIsGone'
  BY <1>15, TokensAssumption
  DEF ConsumeUnknown, Answer, Valid, WonIsGone, FreshIsNew, ArgDrawn,
      RequestShape, TypeOK, TokensAssumption, storeVars, requestVars
<1>16. ASSUME NEW r \in Requests, ConsumeNotFound(r)
      PROVE WonIsGone'
  BY <1>16, TokensAssumption
  DEF ConsumeNotFound, Answer, Valid, WonIsGone, FreshIsNew, ArgDrawn,
      RequestShape, TypeOK, TokensAssumption, storeVars, requestVars
<1>17. ASSUME NEW r \in Requests, Match(r)
      PROVE WonIsGone'
  BY <1>17, TokensAssumption
  DEF Match, WonIsGone, FreshIsNew, ArgDrawn, RequestShape, TypeOK,
      TokensAssumption, storeVars, requestVars
<1>18. ASSUME NEW r \in Requests, Mismatch(r)
      PROVE WonIsGone'
  BY <1>18, TokensAssumption
  DEF Mismatch, Answer, WonIsGone, FreshIsNew, ArgDrawn, RequestShape,
      TypeOK, TokensAssumption, storeVars, requestVars
<1>19. ASSUME NEW r \in Requests, StoreFails(r)
      PROVE WonIsGone'
  BY <1>19, TokensAssumption
  DEF StoreFails, Answer, WonIsGone, FreshIsNew, ArgDrawn, RequestShape,
      TypeOK, TokensAssumption, storeVars, requestVars
<1>20. ASSUME NEW r \in Requests, Deliver(r)
      PROVE WonIsGone'
  BY <1>20, TokensAssumption
  DEF Deliver, WonIsGone, FreshIsNew, ArgDrawn, RequestShape, TypeOK,
      TokensAssumption, storeVars, requestVars
<1>21. ASSUME NEW r \in Requests, Lose(r)
      PROVE WonIsGone'
  BY <1>21, TokensAssumption
  DEF Lose, WonIsGone, FreshIsNew, ArgDrawn, RequestShape, TypeOK,
      TokensAssumption, storeVars, requestVars
<1>22. ASSUME NEW t \in Tokens, ExpireToken(t)
      PROVE WonIsGone'
  BY <1>22, TokensAssumption
  DEF ExpireToken, Valid, WonIsGone, FreshIsNew, ArgDrawn, RequestShape,
      TypeOK, TokensAssumption, storeVars, requestVars
<1>23. ASSUME NEW c \in Codes, ExpireCode(c)
      PROVE WonIsGone'
  BY <1>23, TokensAssumption
  DEF ExpireCode, Valid, WonIsGone, FreshIsNew, ArgDrawn, RequestShape,
      TypeOK, TokensAssumption, storeVars, requestVars
<1>24. ASSUME Restart
      PROVE WonIsGone'
  BY <1>24, TokensAssumption
  DEF Restart, Restarted, WonIsGone, FreshIsNew, ArgDrawn, RequestShape,
      TypeOK, TokensAssumption, storeVars, requestVars
<1>25. CASE UNCHANGED vars
  BY <1>25 DEF WonIsGone, FreshIsNew, ArgDrawn, RequestShape, TypeOK, TokensAssumption, vars, storeVars, requestVars
<1> QED
  BY <1>1, <1>2, <1>3, <1>4, <1>5, <1>6, <1>7, <1>8, <1>9, <1>10, <1>11,
     <1>12, <1>13, <1>14, <1>15, <1>16, <1>17, <1>18, <1>19, <1>20, <1>21,
     <1>22, <1>23, <1>24, <1>25
  DEF Next, Request, Handle

\* A second request finds nothing where the first has won.
LEMMA WinnerStep ==
  TypeOK /\ RequestShape /\ WonIsGone /\ OneWinner /\ [Next]_vars => OneWinner'
<1> SUFFICES ASSUME TypeOK, RequestShape, WonIsGone, OneWinner, [Next]_vars PROVE OneWinner'
  OBVIOUS
<1>1. ASSUME NEW r \in Requests, NEW u \in Users, GrantPassword(r, u)
      PROVE OneWinner'
  BY <1>1, TokensAssumption
  DEF GrantPassword, Arrive, OneWinner, WonIsGone, RequestShape, TypeOK,
      TokensAssumption, storeVars, requestVars
<1>2. ASSUME NEW r \in Requests, NEW t \in Tokens, GrantRefresh(r, t)
      PROVE OneWinner'
  BY <1>2, TokensAssumption
  DEF GrantRefresh, Arrive, Told, OneWinner, WonIsGone, RequestShape, TypeOK,
      TokensAssumption, storeVars, requestVars
<1>3. ASSUME NEW r \in Requests, NEW t \in Tokens, HandleRevoke(r, t)
      PROVE OneWinner'
  BY <1>3, TokensAssumption
  DEF HandleRevoke, Arrive, Told, OneWinner, WonIsGone, RequestShape, TypeOK,
      TokensAssumption, storeVars, requestVars
<1>4. ASSUME NEW r \in Requests, NEW k \in Clients, HandleOAuthRegister(r, k)
      PROVE OneWinner'
  BY <1>4, TokensAssumption
  DEF HandleOAuthRegister, Arrive, Fresh, OneWinner, WonIsGone, RequestShape,
      TypeOK, TokensAssumption, storeVars, requestVars
<1>5. ASSUME NEW r \in Requests, NEW u \in Users, NEW cl \in Claims, AuthorizeConfirm(r, u, cl)
      PROVE OneWinner'
  BY <1>5, TokensAssumption
  DEF AuthorizeConfirm, Arrive, OneWinner, WonIsGone, RequestShape, TypeOK,
      TokensAssumption, storeVars, requestVars
<1>6. ASSUME NEW r \in Requests, NEW cl \in Claims, AuthorizeRefused(r, cl)
      PROVE OneWinner'
  BY <1>6, TokensAssumption
  DEF AuthorizeRefused, Answer, OneWinner, WonIsGone, RequestShape, TypeOK,
      TokensAssumption, storeVars, requestVars
<1>7. ASSUME NEW r \in Requests, NEW c \in Codes, NEW cl \in Claims, GrantAuthorizationCode(r, c, cl)
      PROVE OneWinner'
  BY <1>7, TokensAssumption
  DEF GrantAuthorizationCode, Arrive, Told, OneWinner, WonIsGone,
      RequestShape, TypeOK, TokensAssumption, storeVars, requestVars
<1>8. ASSUME NEW r \in Requests, NEW n \in Tokens, NEW how \in CallReturns, Issue(r, n, how)
      PROVE OneWinner'
  BY <1>8, TokensAssumption
  DEF Issue, Answer, CallReturns, Fresh, OneWinner, WonIsGone, RequestShape,
      TypeOK, TokensAssumption, storeVars, requestVars
<1>9. ASSUME NEW r \in Requests, NEW n \in Tokens, NEW how \in CallReturns, Rotate(r, n, how)
      PROVE OneWinner'
  BY <1>9, TokensAssumption
  DEF Rotate, Answer, CallReturns, Valid, Swept, Fresh, OneWinner, WonIsGone,
      RequestShape, TypeOK, TokensAssumption, storeVars, requestVars
<1>10. ASSUME NEW r \in Requests, NEW how \in CallReturns, Revoke(r, how)
      PROVE OneWinner'
  BY <1>10, TokensAssumption
  DEF Revoke, Answer, CallReturns, OneWinner, WonIsGone, RequestShape,
      TypeOK, TokensAssumption, storeVars, requestVars
<1>11. ASSUME NEW r \in Requests, NEW U \in SUBSET Uris \ {{}}, NEW how \in CallReturns, SaveOAuthClient(r, U, how)
      PROVE OneWinner'
  BY <1>11, TokensAssumption
  DEF SaveOAuthClient, Answer, CallReturns, OneWinner, WonIsGone,
      RequestShape, TypeOK, TokensAssumption, storeVars, requestVars
<1>12. ASSUME NEW r \in Requests, NEW c \in Codes, NEW how \in CallReturns, SaveOAuthCode(r, c, how)
      PROVE OneWinner'
  BY <1>12, TokensAssumption
  DEF SaveOAuthCode, Answer, CallReturns, Swept, Fresh, OneWinner, WonIsGone,
      RequestShape, TypeOK, TokensAssumption, storeVars, requestVars
<1>13. ASSUME NEW r \in Requests, RotateNotFound(r)
      PROVE OneWinner'
  BY <1>13, TokensAssumption
  DEF RotateNotFound, Answer, Valid, Swept, OneWinner, WonIsGone,
      RequestShape, TypeOK, TokensAssumption, storeVars, requestVars
<1>14. ASSUME NEW r \in Requests, Consume(r)
      PROVE OneWinner'
  BY <1>14, TokensAssumption
  DEF Consume, Valid, OneWinner, WonIsGone, RequestShape, TypeOK,
      TokensAssumption, storeVars, requestVars
<1>15. ASSUME NEW r \in Requests, ConsumeUnknown(r)
      PROVE OneWinner'
  BY <1>15, TokensAssumption
  DEF ConsumeUnknown, Answer, Valid, OneWinner, WonIsGone, RequestShape,
      TypeOK, TokensAssumption, storeVars, requestVars
<1>16. ASSUME NEW r \in Requests, ConsumeNotFound(r)
      PROVE OneWinner'
  BY <1>16, TokensAssumption
  DEF ConsumeNotFound, Answer, Valid, OneWinner, WonIsGone, RequestShape,
      TypeOK, TokensAssumption, storeVars, requestVars
<1>17. ASSUME NEW r \in Requests, Match(r)
      PROVE OneWinner'
  BY <1>17, TokensAssumption
  DEF Match, OneWinner, WonIsGone, RequestShape, TypeOK, TokensAssumption,
      storeVars, requestVars
<1>18. ASSUME NEW r \in Requests, Mismatch(r)
      PROVE OneWinner'
  BY <1>18, TokensAssumption
  DEF Mismatch, Answer, OneWinner, WonIsGone, RequestShape, TypeOK,
      TokensAssumption, storeVars, requestVars
<1>19. ASSUME NEW r \in Requests, StoreFails(r)
      PROVE OneWinner'
  BY <1>19, TokensAssumption
  DEF StoreFails, Answer, OneWinner, WonIsGone, RequestShape, TypeOK,
      TokensAssumption, storeVars, requestVars
<1>20. ASSUME NEW r \in Requests, Deliver(r)
      PROVE OneWinner'
  BY <1>20, TokensAssumption
  DEF Deliver, OneWinner, WonIsGone, RequestShape, TypeOK, TokensAssumption,
      storeVars, requestVars
<1>21. ASSUME NEW r \in Requests, Lose(r)
      PROVE OneWinner'
  BY <1>21, TokensAssumption
  DEF Lose, OneWinner, WonIsGone, RequestShape, TypeOK, TokensAssumption,
      storeVars, requestVars
<1>22. ASSUME NEW t \in Tokens, ExpireToken(t)
      PROVE OneWinner'
  BY <1>22, TokensAssumption
  DEF ExpireToken, Valid, OneWinner, WonIsGone, RequestShape, TypeOK,
      TokensAssumption, storeVars, requestVars
<1>23. ASSUME NEW c \in Codes, ExpireCode(c)
      PROVE OneWinner'
  BY <1>23, TokensAssumption
  DEF ExpireCode, Valid, OneWinner, WonIsGone, RequestShape, TypeOK,
      TokensAssumption, storeVars, requestVars
<1>24. ASSUME Restart
      PROVE OneWinner'
  BY <1>24, TokensAssumption
  DEF Restart, Restarted, OneWinner, WonIsGone, RequestShape, TypeOK,
      TokensAssumption, storeVars, requestVars
<1>25. CASE UNCHANGED vars
  BY <1>25 DEF OneWinner, WonIsGone, RequestShape, TypeOK, TokensAssumption, vars, storeVars, requestVars
<1> QED
  BY <1>1, <1>2, <1>3, <1>4, <1>5, <1>6, <1>7, <1>8, <1>9, <1>10, <1>11,
     <1>12, <1>13, <1>14, <1>15, <1>16, <1>17, <1>18, <1>19, <1>20, <1>21,
     <1>22, <1>23, <1>24, <1>25
  DEF Next, Request, Handle

\* A confirmation with its code stays as it is.
LEMMA ConfirmationsStay ==
  TypeOK /\ RequestShape /\ [Next]_vars =>
    \A c \in Codes : \A u, cl : <<c, u, cl>> \in Confirmations => <<c, u, cl>> \in Confirmations'
<1> DEFINE Same(s) == /\ op'[s] = op[s] /\ out'[s] = out[s]
                      /\ who'[s] = who[s] /\ claim'[s] = claim[s]
<1> SUFFICES ASSUME TypeOK, RequestShape, [Next]_vars,
                    NEW s \in Requests, op[s] = "confirm", out[s] \in Codes
             PROVE  Same(s)
  BY DEF Confirmations
<1>1. ASSUME NEW r \in Requests, NEW u \in Users, GrantPassword(r, u)
      PROVE  Same(s)
  BY <1>1, TokensAssumption
  DEF GrantPassword, Arrive, RequestShape, TypeOK, TokensAssumption,
      storeVars, requestVars
<1>2. ASSUME NEW r \in Requests, NEW t \in Tokens, GrantRefresh(r, t)
      PROVE  Same(s)
  BY <1>2, TokensAssumption
  DEF GrantRefresh, Arrive, Told, RequestShape, TypeOK, TokensAssumption,
      storeVars, requestVars
<1>3. ASSUME NEW r \in Requests, NEW t \in Tokens, HandleRevoke(r, t)
      PROVE  Same(s)
  BY <1>3, TokensAssumption
  DEF HandleRevoke, Arrive, Told, RequestShape, TypeOK, TokensAssumption,
      storeVars, requestVars
<1>4. ASSUME NEW r \in Requests, NEW k \in Clients, HandleOAuthRegister(r, k)
      PROVE  Same(s)
  BY <1>4, TokensAssumption
  DEF HandleOAuthRegister, Arrive, Fresh, RequestShape, TypeOK,
      TokensAssumption, storeVars, requestVars
<1>5. ASSUME NEW r \in Requests, NEW u \in Users, NEW cl \in Claims, AuthorizeConfirm(r, u, cl)
      PROVE  Same(s)
  BY <1>5, TokensAssumption
  DEF AuthorizeConfirm, Arrive, RequestShape, TypeOK, TokensAssumption,
      storeVars, requestVars
<1>6. ASSUME NEW r \in Requests, NEW cl \in Claims, AuthorizeRefused(r, cl)
      PROVE  Same(s)
  BY <1>6, TokensAssumption
  DEF AuthorizeRefused, Answer, RequestShape, TypeOK, TokensAssumption,
      storeVars, requestVars
<1>7. ASSUME NEW r \in Requests, NEW c \in Codes, NEW cl \in Claims, GrantAuthorizationCode(r, c, cl)
      PROVE  Same(s)
  BY <1>7, TokensAssumption
  DEF GrantAuthorizationCode, Arrive, Told, RequestShape, TypeOK,
      TokensAssumption, storeVars, requestVars
<1>8. ASSUME NEW r \in Requests, NEW n \in Tokens, NEW how \in CallReturns, Issue(r, n, how)
      PROVE  Same(s)
  BY <1>8, TokensAssumption
  DEF Issue, Answer, CallReturns, Fresh, RequestShape, TypeOK,
      TokensAssumption, storeVars, requestVars
<1>9. ASSUME NEW r \in Requests, NEW n \in Tokens, NEW how \in CallReturns, Rotate(r, n, how)
      PROVE  Same(s)
  BY <1>9, TokensAssumption
  DEF Rotate, Answer, CallReturns, Valid, Swept, Fresh, RequestShape, TypeOK,
      TokensAssumption, storeVars, requestVars
<1>10. ASSUME NEW r \in Requests, NEW how \in CallReturns, Revoke(r, how)
      PROVE  Same(s)
  BY <1>10, TokensAssumption
  DEF Revoke, Answer, CallReturns, RequestShape, TypeOK, TokensAssumption,
      storeVars, requestVars
<1>11. ASSUME NEW r \in Requests, NEW U \in SUBSET Uris \ {{}}, NEW how \in CallReturns, SaveOAuthClient(r, U, how)
      PROVE  Same(s)
  BY <1>11, TokensAssumption
  DEF SaveOAuthClient, Answer, CallReturns, RequestShape, TypeOK,
      TokensAssumption, storeVars, requestVars
<1>12. ASSUME NEW r \in Requests, NEW c \in Codes, NEW how \in CallReturns, SaveOAuthCode(r, c, how)
      PROVE  Same(s)
  BY <1>12, TokensAssumption
  DEF SaveOAuthCode, Answer, CallReturns, Swept, Fresh, RequestShape, TypeOK,
      TokensAssumption, storeVars, requestVars
<1>13. ASSUME NEW r \in Requests, RotateNotFound(r)
      PROVE  Same(s)
  BY <1>13, TokensAssumption
  DEF RotateNotFound, Answer, Valid, Swept, RequestShape, TypeOK,
      TokensAssumption, storeVars, requestVars
<1>14. ASSUME NEW r \in Requests, Consume(r)
      PROVE  Same(s)
  BY <1>14, TokensAssumption
  DEF Consume, Valid, RequestShape, TypeOK, TokensAssumption, storeVars,
      requestVars
<1>15. ASSUME NEW r \in Requests, ConsumeUnknown(r)
      PROVE  Same(s)
  BY <1>15, TokensAssumption
  DEF ConsumeUnknown, Answer, Valid, RequestShape, TypeOK, TokensAssumption,
      storeVars, requestVars
<1>16. ASSUME NEW r \in Requests, ConsumeNotFound(r)
      PROVE  Same(s)
  BY <1>16, TokensAssumption
  DEF ConsumeNotFound, Answer, Valid, RequestShape, TypeOK, TokensAssumption,
      storeVars, requestVars
<1>17. ASSUME NEW r \in Requests, Match(r)
      PROVE  Same(s)
  BY <1>17, TokensAssumption
  DEF Match, RequestShape, TypeOK, TokensAssumption, storeVars, requestVars
<1>18. ASSUME NEW r \in Requests, Mismatch(r)
      PROVE  Same(s)
  BY <1>18, TokensAssumption
  DEF Mismatch, Answer, RequestShape, TypeOK, TokensAssumption, storeVars,
      requestVars
<1>19. ASSUME NEW r \in Requests, StoreFails(r)
      PROVE  Same(s)
  BY <1>19, TokensAssumption
  DEF StoreFails, Answer, RequestShape, TypeOK, TokensAssumption, storeVars,
      requestVars
<1>20. ASSUME NEW r \in Requests, Deliver(r)
      PROVE  Same(s)
  BY <1>20, TokensAssumption
  DEF Deliver, RequestShape, TypeOK, TokensAssumption, storeVars, requestVars
<1>21. ASSUME NEW r \in Requests, Lose(r)
      PROVE  Same(s)
  BY <1>21, TokensAssumption
  DEF Lose, RequestShape, TypeOK, TokensAssumption, storeVars, requestVars
<1>22. ASSUME NEW t \in Tokens, ExpireToken(t)
      PROVE  Same(s)
  BY <1>22, TokensAssumption
  DEF ExpireToken, Valid, RequestShape, TypeOK, TokensAssumption, storeVars,
      requestVars
<1>23. ASSUME NEW c \in Codes, ExpireCode(c)
      PROVE  Same(s)
  BY <1>23, TokensAssumption
  DEF ExpireCode, Valid, RequestShape, TypeOK, TokensAssumption, storeVars,
      requestVars
<1>24. ASSUME Restart
      PROVE  Same(s)
  BY <1>24, TokensAssumption
  DEF Restart, Restarted, RequestShape, TypeOK, TokensAssumption, storeVars,
      requestVars
<1>25. CASE UNCHANGED vars
  BY <1>25 DEF RequestShape, TypeOK, TokensAssumption, vars, storeVars, requestVars
<1> QED
  BY <1>1, <1>2, <1>3, <1>4, <1>5, <1>6, <1>7, <1>8, <1>9, <1>10, <1>11,
     <1>12, <1>13, <1>14, <1>15, <1>16, <1>17, <1>18, <1>19, <1>20, <1>21,
     <1>22, <1>23, <1>24, <1>25
  DEF Next, Request, Handle

\* Codes, records and grants keep the confirmation they come from.
LEMMA OriginStep ==
  TypeOK /\ RequestShape /\ CodeOrigin /\ [Next]_vars => CodeOrigin'
<1> SUFFICES ASSUME TypeOK, RequestShape, CodeOrigin, [Next]_vars PROVE CodeOrigin'
  OBVIOUS
<1>0. \A c \in Codes : \A u, cl : <<c, u, cl>> \in Confirmations => <<c, u, cl>> \in Confirmations'
  BY ConfirmationsStay
<1>1. ASSUME NEW r \in Requests, NEW u \in Users, GrantPassword(r, u)
      PROVE CodeOrigin'
  BY <1>1, TokensAssumption, <1>0
  DEF GrantPassword, Arrive, CodeOrigin, RequestShape, TypeOK, Records,
      TokensAssumption, storeVars, requestVars
<1>2. ASSUME NEW r \in Requests, NEW t \in Tokens, GrantRefresh(r, t)
      PROVE CodeOrigin'
  BY <1>2, TokensAssumption, <1>0
  DEF GrantRefresh, Arrive, Told, CodeOrigin, RequestShape, TypeOK, Records,
      TokensAssumption, storeVars, requestVars
<1>3. ASSUME NEW r \in Requests, NEW t \in Tokens, HandleRevoke(r, t)
      PROVE CodeOrigin'
  BY <1>3, TokensAssumption, <1>0
  DEF HandleRevoke, Arrive, Told, CodeOrigin, RequestShape, TypeOK, Records,
      TokensAssumption, storeVars, requestVars
<1>4. ASSUME NEW r \in Requests, NEW k \in Clients, HandleOAuthRegister(r, k)
      PROVE CodeOrigin'
  BY <1>4, TokensAssumption, <1>0
  DEF HandleOAuthRegister, Arrive, Fresh, CodeOrigin, RequestShape, TypeOK,
      Records, TokensAssumption, storeVars, requestVars
<1>5. ASSUME NEW r \in Requests, NEW u \in Users, NEW cl \in Claims, AuthorizeConfirm(r, u, cl)
      PROVE CodeOrigin'
  BY <1>5, TokensAssumption, <1>0
  DEF AuthorizeConfirm, Arrive, CodeOrigin, RequestShape, TypeOK, Records,
      TokensAssumption, storeVars, requestVars
<1>6. ASSUME NEW r \in Requests, NEW cl \in Claims, AuthorizeRefused(r, cl)
      PROVE CodeOrigin'
  BY <1>6, TokensAssumption, <1>0
  DEF AuthorizeRefused, Answer, CodeOrigin, RequestShape, TypeOK, Records,
      TokensAssumption, storeVars, requestVars
<1>7. ASSUME NEW r \in Requests, NEW c \in Codes, NEW cl \in Claims, GrantAuthorizationCode(r, c, cl)
      PROVE CodeOrigin'
  BY <1>7, TokensAssumption, <1>0
  DEF GrantAuthorizationCode, Arrive, Told, CodeOrigin, RequestShape, TypeOK,
      Records, TokensAssumption, storeVars, requestVars
<1>8. ASSUME NEW r \in Requests, NEW n \in Tokens, NEW how \in CallReturns, Issue(r, n, how)
      PROVE CodeOrigin'
  BY <1>8, TokensAssumption, <1>0
  DEF Issue, Answer, CallReturns, Fresh, CodeOrigin, RequestShape, TypeOK,
      Records, TokensAssumption, storeVars, requestVars
<1>9. ASSUME NEW r \in Requests, NEW n \in Tokens, NEW how \in CallReturns, Rotate(r, n, how)
      PROVE CodeOrigin'
  BY <1>9, TokensAssumption, <1>0
  DEF Rotate, Answer, CallReturns, Valid, Swept, Fresh, CodeOrigin,
      RequestShape, TypeOK, Records, TokensAssumption, storeVars, requestVars
<1>10. ASSUME NEW r \in Requests, NEW how \in CallReturns, Revoke(r, how)
      PROVE CodeOrigin'
  BY <1>10, TokensAssumption, <1>0
  DEF Revoke, Answer, CallReturns, CodeOrigin, RequestShape, TypeOK, Records,
      TokensAssumption, storeVars, requestVars
<1>11. ASSUME NEW r \in Requests, NEW U \in SUBSET Uris \ {{}}, NEW how \in CallReturns, SaveOAuthClient(r, U, how)
      PROVE CodeOrigin'
  BY <1>11, TokensAssumption, <1>0
  DEF SaveOAuthClient, Answer, CallReturns, CodeOrigin, RequestShape, TypeOK,
      Records, TokensAssumption, storeVars, requestVars
<1>12. ASSUME NEW r \in Requests, NEW c \in Codes, NEW how \in CallReturns, SaveOAuthCode(r, c, how)
      PROVE CodeOrigin'
  <2>1. <<c, who[r], claim[r]>> \in Confirmations'
    BY <1>12 DEF SaveOAuthCode, Confirmations, RequestShape, TypeOK
  <2>2. ASSUME NEW d \in Codes, codes'[d] # None
        PROVE  <<d, codes'[d].user, codes'[d].claim>> \in Confirmations'
    <3>1. CASE d = c
      BY <1>12, <2>1, <3>1 DEF SaveOAuthCode, Swept, TypeOK
    <3>2. CASE d # c
      <4>1. codes'[d] = codes[d]
        BY <1>12, <2>2, <3>2 DEF SaveOAuthCode, Swept, TypeOK
      <4> QED
        BY <1>0, <2>2, <4>1 DEF CodeOrigin
    <3> QED
      BY <3>1, <3>2
  <2>3. ASSUME NEW s \in Requests, taken'[s] # None
        PROVE  <<arg'[s], taken'[s].user, taken'[s].claim>> \in Confirmations'
    BY <1>0, <1>12, <2>3 DEF SaveOAuthCode, CodeOrigin, RequestShape
  <2>4. ASSUME NEW s \in Requests,
               op'[s] = "code", pc'[s] = "issue" \/ outcome'[s] = "ok"
        PROVE  <<arg'[s], who'[s], claim'[s]>> \in Confirmations'
    <3>1. s # r
      BY <1>12, <2>4 DEF SaveOAuthCode, RequestShape
    <3>2. /\ arg' = arg /\ who' = who /\ claim' = claim
          /\ op[s] = "code" /\ (pc[s] = "issue" \/ outcome[s] = "ok")
      BY <1>12, <2>4, <3>1 DEF SaveOAuthCode, Answer, TypeOK
    <3> QED
      BY <1>0, <3>2 DEF CodeOrigin, RequestShape
  <2> QED
    BY <2>2, <2>3, <2>4 DEF CodeOrigin
<1>13. ASSUME NEW r \in Requests, RotateNotFound(r)
      PROVE CodeOrigin'
  BY <1>13, TokensAssumption, <1>0
  DEF RotateNotFound, Answer, Valid, Swept, CodeOrigin, RequestShape, TypeOK,
      Records, TokensAssumption, storeVars, requestVars
<1>14. ASSUME NEW r \in Requests, Consume(r)
      PROVE CodeOrigin'
  BY <1>14, TokensAssumption, <1>0
  DEF Consume, Valid, CodeOrigin, RequestShape, TypeOK, Records,
      TokensAssumption, storeVars, requestVars
<1>15. ASSUME NEW r \in Requests, ConsumeUnknown(r)
      PROVE CodeOrigin'
  BY <1>15, TokensAssumption, <1>0
  DEF ConsumeUnknown, Answer, Valid, CodeOrigin, RequestShape, TypeOK,
      Records, TokensAssumption, storeVars, requestVars
<1>16. ASSUME NEW r \in Requests, ConsumeNotFound(r)
      PROVE CodeOrigin'
  BY <1>16, TokensAssumption, <1>0
  DEF ConsumeNotFound, Answer, Valid, CodeOrigin, RequestShape, TypeOK,
      Records, TokensAssumption, storeVars, requestVars
<1>17. ASSUME NEW r \in Requests, Match(r)
      PROVE CodeOrigin'
  <2>1. /\ taken' = taken /\ arg' = arg /\ claim' = claim /\ op' = op
        /\ codes' = codes /\ outcome' = outcome
        /\ \A s \in Requests \ {r} : who'[s] = who[s] /\ pc'[s] = pc[s]
        /\ who'[r] = taken[r].user /\ claim[r] = taken[r].claim /\ taken[r] # None
    <3>1. claim[r] = taken[r].claim /\ taken[r] # None
      BY <1>17 DEF Match, RequestShape
    <3>2. who' = [who EXCEPT ![r] = taken[r].user] /\ pc' = [pc EXCEPT ![r] = "issue"]
      BY <1>17 DEF Match
    <3>3. /\ taken' = taken /\ arg' = arg /\ claim' = claim /\ op' = op
          /\ codes' = codes /\ outcome' = outcome
      BY <1>17 DEF Match, storeVars
    <3> QED
      BY <3>1, <3>2, <3>3 DEF TypeOK
  <2>2. ASSUME NEW d \in Codes, codes'[d] # None
        PROVE  <<d, codes'[d].user, codes'[d].claim>> \in Confirmations'
    BY <1>0, <2>1, <2>2 DEF CodeOrigin
  <2>3. ASSUME NEW s \in Requests, taken'[s] # None
        PROVE  <<arg'[s], taken'[s].user, taken'[s].claim>> \in Confirmations'
    BY <1>0, <2>1, <2>3 DEF CodeOrigin, RequestShape
  <2>4. ASSUME NEW s \in Requests,
               op'[s] = "code", pc'[s] = "issue" \/ outcome'[s] = "ok"
        PROVE  <<arg'[s], who'[s], claim'[s]>> \in Confirmations'
    <3>1. CASE s = r
      BY <2>1, <2>3, <3>1
    <3>2. CASE s # r
      BY <1>0, <2>1, <2>4, <3>2 DEF CodeOrigin, RequestShape
    <3> QED
      BY <3>1, <3>2
  <2> QED
    BY <2>2, <2>3, <2>4 DEF CodeOrigin
<1>18. ASSUME NEW r \in Requests, Mismatch(r)
      PROVE CodeOrigin'
  BY <1>18, TokensAssumption, <1>0
  DEF Mismatch, Answer, CodeOrigin, RequestShape, TypeOK, Records,
      TokensAssumption, storeVars, requestVars
<1>19. ASSUME NEW r \in Requests, StoreFails(r)
      PROVE CodeOrigin'
  BY <1>19, TokensAssumption, <1>0
  DEF StoreFails, Answer, CodeOrigin, RequestShape, TypeOK, Records,
      TokensAssumption, storeVars, requestVars
<1>20. ASSUME NEW r \in Requests, Deliver(r)
      PROVE CodeOrigin'
  BY <1>20, TokensAssumption, <1>0
  DEF Deliver, CodeOrigin, RequestShape, TypeOK, Records, TokensAssumption,
      storeVars, requestVars
<1>21. ASSUME NEW r \in Requests, Lose(r)
      PROVE CodeOrigin'
  BY <1>21, TokensAssumption, <1>0
  DEF Lose, CodeOrigin, RequestShape, TypeOK, Records, TokensAssumption,
      storeVars, requestVars
<1>22. ASSUME NEW t \in Tokens, ExpireToken(t)
      PROVE CodeOrigin'
  BY <1>22, TokensAssumption, <1>0
  DEF ExpireToken, Valid, CodeOrigin, RequestShape, TypeOK, Records,
      TokensAssumption, storeVars, requestVars
<1>23. ASSUME NEW c \in Codes, ExpireCode(c)
      PROVE CodeOrigin'
  BY <1>23, TokensAssumption, <1>0
  DEF ExpireCode, Valid, CodeOrigin, RequestShape, TypeOK, Records,
      TokensAssumption, storeVars, requestVars
<1>24. ASSUME Restart
      PROVE CodeOrigin'
  BY <1>24, TokensAssumption, <1>0
  DEF Restart, Restarted, CodeOrigin, RequestShape, TypeOK, Records,
      TokensAssumption, storeVars, requestVars
<1>25. CASE UNCHANGED vars
  BY <1>0, <1>25 DEF CodeOrigin, RequestShape, TypeOK, Records, TokensAssumption, vars, storeVars, requestVars
<1> QED
  BY <1>1, <1>2, <1>3, <1>4, <1>5, <1>6, <1>7, <1>8, <1>9, <1>10, <1>11,
     <1>12, <1>13, <1>14, <1>15, <1>16, <1>17, <1>18, <1>19, <1>20, <1>21,
     <1>22, <1>23, <1>24, <1>25
  DEF Next, Request, Handle

-----------------------------------------------------------------------------
(* Answered tokens                                                         *)

\* A refresh or a revocation has presented t to the store.
Spent(t) ==
  \E s \in Requests :
    op[s] \in {"refresh", "revoke"} /\ arg[s] = t /\ pc[s] \notin {"idle", "rotate", "revoke"}

\* A request that has begun keeps its endpoint and what it presents, and does
\* not come back to its store call.
LEMMA SpentStays ==
  ASSUME TypeOK, [Next]_vars, NEW t, Spent(t)
  PROVE  Spent(t)'
<1>1. PICK s \in Requests :
        op[s] \in {"refresh", "revoke"} /\ arg[s] = t /\ pc[s] \notin {"idle", "rotate", "revoke"}
  BY DEF Spent
<1> SUFFICES op'[s] = op[s] /\ arg'[s] = arg[s] /\ pc'[s] \notin {"idle", "rotate", "revoke"}
  BY <1>1 DEF Spent
<1> USE <1>1 DEF TypeOK
<1>2. ASSUME NEW r \in Requests, Request(r)
      PROVE  op'[s] = op[s] /\ arg'[s] = arg[s] /\ pc'[s] \notin {"idle", "rotate", "revoke"}
  BY <1>2
  DEF Request, GrantPassword, GrantRefresh, HandleRevoke, HandleOAuthRegister, AuthorizeConfirm,
      AuthorizeRefused, GrantAuthorizationCode, Arrive, Answer
<1>3. ASSUME NEW r \in Requests, Handle(r)
      PROVE  op'[s] = op[s] /\ arg'[s] = arg[s] /\ pc'[s] \notin {"idle", "rotate", "revoke"}
  BY <1>3
  DEF Handle, Issue, Rotate, RotateNotFound, Revoke, SaveOAuthClient, SaveOAuthCode, Consume,
      ConsumeUnknown, ConsumeNotFound, Match, Mismatch, StoreFails, Answer
<1>4. ASSUME NEW r \in Requests, Deliver(r) \/ Lose(r)
      PROVE  op'[s] = op[s] /\ arg'[s] = arg[s] /\ pc'[s] \notin {"idle", "rotate", "revoke"}
  BY <1>4 DEF Deliver, Lose
<1>5. CASE (\E x \in Tokens : ExpireToken(x)) \/ (\E x \in Codes : ExpireCode(x)) \/ UNCHANGED vars
  BY <1>5 DEF ExpireToken, ExpireCode, requestVars, vars
<1>6. CASE Restart
  BY <1>6 DEF Restart
<1> QED BY <1>2, <1>3, <1>4, <1>5, <1>6 DEF Next

\* Postgres drops a token that expired, or that this step presents.
LEMMA GoneStep ==
  ASSUME TypeOK, RequestShape, FreshIsNew, ~Memory, [Next]_vars,
         NEW t \in Tokens, refr[t] # None, refr'[t] = None
  PROVE  t \in expired \/ Spent(t)'
<1> USE TokensAssumption DEF TypeOK
<1>1. ASSUME NEW r \in Requests, Request(r)
      PROVE  refr' = refr
  BY <1>1
  DEF Request, GrantPassword, GrantRefresh, HandleRevoke, HandleOAuthRegister, AuthorizeConfirm,
      AuthorizeRefused, GrantAuthorizationCode, storeVars
<1>2. ASSUME NEW r \in Requests, NEW n \in Tokens, NEW how \in CallReturns, Issue(r, n, how)
      PROVE  FALSE
  BY <1>2 DEF Issue, RequestShape
<1>3. ASSUME NEW r \in Requests, NEW n \in Tokens, NEW how \in CallReturns, Rotate(r, n, how)
      PROVE  Spent(t)'
  <2>1. refr' = [refr EXCEPT ![arg[r]] = None, ![n] = refr[arg[r]]]
    BY <1>3 DEF Rotate, Swept
  <2>2. t = arg[r]
    BY <1>3, <2>1 DEF Rotate
  <2> QED BY <1>3, <2>2 DEF Rotate, Answer, RequestShape, Spent
<1>4. ASSUME NEW r \in Requests, NEW how \in CallReturns, Revoke(r, how)
      PROVE  Spent(t)'
  BY <1>4 DEF Revoke, Answer, RequestShape, Spent
<1>5. ASSUME NEW r \in Requests,
             \/ RotateNotFound(r) \/ Consume(r) \/ ConsumeUnknown(r) \/ ConsumeNotFound(r)
             \/ Match(r) \/ Mismatch(r) \/ StoreFails(r) \/ Deliver(r) \/ Lose(r)
             \/ \E how \in CallReturns :
                  \/ \E U \in SUBSET Uris \ {{}} : SaveOAuthClient(r, U, how)
                  \/ \E c \in Codes : SaveOAuthCode(r, c, how)
      PROVE  refr' = refr
  BY <1>5
  DEF RotateNotFound, Swept, Consume, ConsumeUnknown, ConsumeNotFound, Match, Mismatch, StoreFails,
      Deliver, Lose, SaveOAuthClient, SaveOAuthCode, storeVars
<1>6. CASE (\E x \in Tokens : ExpireToken(x)) \/ (\E x \in Codes : ExpireCode(x)) \/ UNCHANGED vars
  BY <1>6 DEF ExpireToken, ExpireCode, vars, storeVars
<1>7. CASE Restart
  BY <1>7 DEF Restart, Restarted
<1> QED BY <1>1, <1>2, <1>3, <1>4, <1>5, <1>6, <1>7 DEF Next, Handle

\* A token that begins to be answered is stored.
LEMMA AnswerStep ==
  ASSUME TypeOK, RequestShape, FreshIsNew, [Next]_vars,
         NEW q \in Requests, NEW t \in Tokens, out'[q] = t, outcome'[q] = "ok"
  PROVE  (out[q] = t /\ outcome[q] = "ok") \/ refr'[t] # None
<1> USE TokensAssumption DEF TypeOK
<1>1. ASSUME NEW r \in Requests, Request(r)
      PROVE  out[q] = t /\ outcome[q] = "ok"
  BY <1>1
  DEF Request, GrantPassword, GrantRefresh, HandleRevoke, HandleOAuthRegister, AuthorizeConfirm,
      AuthorizeRefused, GrantAuthorizationCode, Arrive, Answer, RequestShape
<1>2. ASSUME NEW r \in Requests, NEW n \in Tokens, NEW how \in CallReturns, Issue(r, n, how)
      PROVE  (out[q] = t /\ outcome[q] = "ok") \/ refr'[t] # None
  BY <1>2 DEF Issue, Answer, RequestShape
<1>3. ASSUME NEW r \in Requests, NEW n \in Tokens, NEW how \in CallReturns, Rotate(r, n, how)
      PROVE  (out[q] = t /\ outcome[q] = "ok") \/ refr'[t] # None
  <2>1. refr'[n] # None
    BY <1>3, RotateEffect DEF Rotate
  <2>2. CASE q = r
    BY <1>3, <2>1, <2>2 DEF Rotate
  <2>3. CASE q # r
    BY <1>3, <2>3 DEF Rotate, Answer
  <2> QED BY <2>2, <2>3
<1>4. ASSUME NEW r \in Requests,
             \/ \E how \in CallReturns :
                  \/ Revoke(r, how)
                  \/ \E U \in SUBSET Uris \ {{}} : SaveOAuthClient(r, U, how)
                  \/ \E c \in Codes : SaveOAuthCode(r, c, how)
      PROVE  out[q] = t /\ outcome[q] = "ok"
  BY <1>4 DEF Revoke, SaveOAuthClient, SaveOAuthCode, Answer, RequestShape
<1>5. ASSUME NEW r \in Requests,
             \/ RotateNotFound(r) \/ Consume(r) \/ ConsumeUnknown(r) \/ ConsumeNotFound(r)
             \/ Match(r) \/ Mismatch(r) \/ StoreFails(r) \/ Deliver(r) \/ Lose(r)
      PROVE  out[q] = t /\ outcome[q] = "ok"
  BY <1>5
  DEF RotateNotFound, Consume, ConsumeUnknown, ConsumeNotFound, Match, Mismatch, StoreFails,
      Deliver, Lose, Answer
<1>6. CASE \/ \E x \in Tokens : ExpireToken(x)
           \/ \E x \in Codes : ExpireCode(x)
           \/ Restart \/ UNCHANGED vars
  BY <1>6 DEF ExpireToken, ExpireCode, Restart, vars, requestVars
<1> QED BY <1>1, <1>2, <1>3, <1>4, <1>5, <1>6 DEF Next, Handle

\* Expired tokens stay so.
LEMMA ExpiredStays == [Next]_vars => expired \subseteq expired'
<1> SUFFICES ASSUME [Next]_vars PROVE expired \subseteq expired'
  OBVIOUS
<1>1. ASSUME NEW r \in Requests, Request(r) \/ Deliver(r) \/ Lose(r)
      PROVE  expired' = expired
  BY <1>1
  DEF Request, GrantPassword, GrantRefresh, HandleRevoke, HandleOAuthRegister, AuthorizeConfirm,
      AuthorizeRefused, GrantAuthorizationCode, Deliver, Lose, storeVars
<1>2. ASSUME NEW r \in Requests, Handle(r)
      PROVE  expired' = expired
  BY <1>2
  DEF Handle, Issue, Rotate, RotateNotFound, Revoke, SaveOAuthClient, SaveOAuthCode, Consume,
      ConsumeUnknown, ConsumeNotFound, Match, Mismatch, StoreFails, storeVars
<1>3. CASE \/ \E x \in Tokens : ExpireToken(x)
           \/ \E x \in Codes : ExpireCode(x)
           \/ Restart \/ UNCHANGED vars
  BY <1>3 DEF ExpireToken, ExpireCode, Restart, vars, storeVars
<1> QED BY <1>1, <1>2, <1>3 DEF Next

LEMMA KeptStep ==
  TypeOK /\ RequestShape /\ FreshIsNew /\ AnsweredTokenIsKept /\ [Next]_vars => AnsweredTokenIsKept'
<1> SUFFICES ASSUME TypeOK, RequestShape, FreshIsNew, AnsweredTokenIsKept, [Next]_vars, ~Memory,
                    NEW q \in Requests, NEW t \in Tokens,
                    out'[q] = t, outcome'[q] = "ok", refr'[t] = None
             PROVE  t \in expired' \/ Spent(t)'
  BY DEF AnsweredTokenIsKept, Spent
<1>1. out[q] = t /\ outcome[q] = "ok"
  BY AnswerStep
<1>2. CASE refr[t] = None
  <2>1. t \in expired \/ Spent(t)
    BY <1>1, <1>2 DEF AnsweredTokenIsKept, Spent
  <2> QED BY <2>1, SpentStays, ExpiredStays
<1>3. CASE refr[t] # None
  BY <1>3, GoneStep, ExpiredStays
<1> QED BY <1>2, <1>3

\* All parts together.
LEMMA NextInv == IInv /\ [Next]_vars => IInv'
  BY TypeStep, FreshStep, ArgStep, ShapeStep, ChainStep, OneTokenStep, WonStep,
     WinnerStep, OriginStep, KeptStep
  DEF IInv

LEMMA SpecInv == Spec => []IInv
  BY InitInv, NextInv, PTL DEF Spec

-----------------------------------------------------------------------------
(* What follows                                                            *)

\* The store and the requests keep their types.
THEOREM TokensTypeCorrect == Spec => []TypeOK
  BY SpecInv, PTL DEF IInv

\* A session never has two stored refresh tokens (RotateRefresh).
THEOREM OneTokenPerSessionAlways == Spec => []OneTokenPerSession
  BY SpecInv, PTL DEF IInv

\* One request at most wins a refresh token or a code, however many present
\* it at once (RotateRefresh, ConsumeOAuthCode).
THEOREM OneWinnerAlways == Spec => []OneWinner
  BY SpecInv, PTL DEF IInv

\* A code gives the tokens of its confirming user, to the confirmed client
\* only (grantAuthorizationCode).
THEOREM GrantMatchesConfirmAlways == Spec => []GrantMatchesConfirm
<1>1. IInv => GrantMatchesConfirm
  BY DEF IInv, CodeOrigin, Confirmations, GrantMatchesConfirm
<1> QED
  BY <1>1, SpecInv, PTL

\* In Postgres no token that was answered vanishes by what others do
\* (grantRefresh, issuePair).
THEOREM AnsweredTokenIsKeptAlways == Spec => []AnsweredTokenIsKept
  BY SpecInv, PTL DEF IInv

-----------------------------------------------------------------------------
(* The handlers implement the abstract sessions                            *)

\* The refinement mapping, without Live and CHOOSE.
MapFacts ==
  /\ SessionMap = [s \in Tokens |-> SessionMap[s]]
  /\ \A t \in Tokens : refr[t] # None /\ t \notin expired => SessionMap[chain[t]] = refr[t]
  /\ \A s \in Tokens : chain[s] # s => SessionMap[s] = "none"
  /\ \A s \in Tokens :
       /\ chain[s] = s
       /\ \A t \in Tokens : chain[t] = s => refr[t] = None \/ t \in expired
       => SessionMap[s] = "over"

LEMMA MapCorrect == IInv => MapFacts
<1> SUFFICES ASSUME IInv PROVE MapFacts
  OBVIOUS
<1>1. ASSUME NEW t \in Tokens, refr[t] # None, t \notin expired
      PROVE  SessionMap[chain[t]] = refr[t]
  <2>1. chain[t] \in Tokens /\ chain[chain[t]] = chain[t]
    BY <1>1 DEF IInv, ChainRoots
  <2>2. Live(chain[t]) = {t}
    BY <1>1 DEF IInv, OneTokenPerSession, Live, Valid
  <2>3. (CHOOSE u \in Live(chain[t]) : TRUE) = t
    BY <2>2
  <2> QED
    BY <2>1, <2>2, <2>3 DEF SessionMap, SessionState
<1>2. ASSUME NEW s \in Tokens, chain[s] # s
      PROVE  SessionMap[s] = "none"
  BY <1>2 DEF SessionMap, SessionState
<1>3. ASSUME NEW s \in Tokens, chain[s] = s,
             \A t \in Tokens : chain[t] = s => refr[t] = None \/ t \in expired
      PROVE  SessionMap[s] = "over"
  <2>1. Live(s) = {}
    BY <1>3 DEF Live, Valid
  <2> QED
    BY <1>3, <2>1 DEF SessionMap, SessionState
<1>4. SessionMap = [s \in Tokens |-> SessionMap[s]]
  BY DEF SessionMap
<1> QED
  BY <1>1, <1>2, <1>3, <1>4 DEF MapFacts

LEMMA InitRefines == Init => Abstract!Init
<1> SUFFICES ASSUME Init PROVE Abstract!Init
  OBVIOUS
<1>1. \A s \in Tokens : SessionState(s) = "none"
  BY TokensAssumption DEF Init, SessionState, TokensAssumption
<1> QED
  BY <1>1 DEF Abstract!Init, SessionMap

\* A step that only takes tokens away ends the sessions they were the last of.
LEMMA EndStep ==
  ASSUME IInv, MapFacts, MapFacts', chain' = chain,
         \A t \in Tokens : refr'[t] # None /\ t \notin expired' =>
           refr[t] # None /\ t \notin expired /\ refr'[t] = refr[t]
  PROVE  Abstract!Next
<1> DEFINE S == {s \in Tokens : SessionMap[s] \in Users /\ SessionMap'[s] = "over"}
<1>1. ASSUME NEW s \in Tokens, s \notin S
      PROVE  SessionMap'[s] = SessionMap[s]
  <2>1. CASE chain[s] # s
    BY <2>1 DEF MapFacts
  <2>2. CASE chain[s] = s /\ \E t \in Tokens : chain[t] = s /\ refr'[t] # None /\ t \notin expired'
    <3>1. PICK t \in Tokens : chain[t] = s /\ refr'[t] # None /\ t \notin expired'
      BY <2>2
    <3>2. SessionMap'[s] = refr'[t]
      BY <3>1 DEF MapFacts
    <3>3. SessionMap[s] = refr[t]
      BY <3>1 DEF MapFacts
    <3> QED
      BY <3>1, <3>2, <3>3
  <2>3. CASE chain[s] = s /\ \A t \in Tokens : chain[t] = s => refr'[t] = None \/ t \in expired'
    <3>1. SessionMap'[s] = "over"
      BY <2>3 DEF MapFacts
    <3>2. CASE \E t \in Tokens : chain[t] = s /\ refr[t] # None /\ t \notin expired
      <4>1. PICK t \in Tokens : chain[t] = s /\ refr[t] # None /\ t \notin expired
        BY <3>2
      <4>2. SessionMap[s] = refr[t]
        BY <4>1 DEF MapFacts
      <4>3. refr[t] \in Users
        BY <4>1 DEF IInv, TypeOK
      <4> QED
        BY <1>1, <3>1, <4>2, <4>3
    <3>3. CASE \A t \in Tokens : chain[t] = s => refr[t] = None \/ t \in expired
      BY <2>3, <3>1, <3>3 DEF MapFacts
    <3> QED
      BY <3>2, <3>3
  <2> QED
    BY <2>1, <2>2, <2>3
<1>2. SessionMap' = [s \in Tokens |-> SessionMap'[s]]
  BY DEF MapFacts
<1>3. SessionMap' = [s \in Tokens |-> IF s \in S THEN "over" ELSE SessionMap[s]]
  BY <1>1, <1>2
<1>4. S \in SUBSET Tokens /\ \A s \in S : SessionMap[s] \in Users
  OBVIOUS
<1> QED
  BY <1>3, <1>4 DEF Abstract!Next, Abstract!End

\* A token issued begins a session.
LEMMA IssueRefines ==
  ASSUME IInv, MapFacts, MapFacts',
         NEW r \in Requests, NEW n \in Tokens, NEW how \in CallReturns, Issue(r, n, how)
  PROVE  Abstract!Next
<1>1. /\ who[r] \in Users
      /\ refr[n] = None /\ chain[n] = None /\ n \notin expired
  BY DEF Issue, IInv, RequestShape, FreshIsNew
<1>2. /\ expired' = expired
      /\ refr'[n] = who[r] /\ chain'[n] = n
      /\ \A t \in Tokens \ {n} : refr'[t] = refr[t] /\ chain'[t] = chain[t]
  BY DEF Issue, IInv, TypeOK
<1>3. SessionMap[n] = "none"
  BY <1>1, TokensAssumption DEF MapFacts, TokensAssumption
<1>4. SessionMap'[n] = who[r]
  BY <1>1, <1>2, TokensAssumption DEF MapFacts, TokensAssumption
<1>5. ASSUME NEW s \in Tokens \ {n}
      PROVE  SessionMap'[s] = SessionMap[s]
  <2>1. CASE chain[s] # s
    BY <1>2, <2>1 DEF MapFacts
  <2>2. CASE chain[s] = s /\ \E t \in Tokens : chain[t] = s /\ refr[t] # None /\ t \notin expired
    <3>1. PICK t \in Tokens : chain[t] = s /\ refr[t] # None /\ t \notin expired
      BY <2>2
    <3>2. t # n
      BY <1>1, <3>1
    <3>3. SessionMap[s] = refr[t]
      BY <3>1 DEF MapFacts
    <3>4. SessionMap'[s] = refr'[t]
      BY <1>2, <3>1, <3>2 DEF MapFacts
    <3> QED
      BY <1>2, <3>2, <3>3, <3>4
  <2>3. CASE chain[s] = s /\ \A t \in Tokens : chain[t] = s => refr[t] = None \/ t \in expired
    <3>1. SessionMap[s] = "over"
      BY <2>3 DEF MapFacts
    <3>2. \A t \in Tokens : chain'[t] = s => refr'[t] = None \/ t \in expired'
      BY <1>2, <1>5, <2>3
    <3> QED
      BY <1>2, <2>3, <3>1, <3>2 DEF MapFacts
  <2> QED
    BY <2>1, <2>2, <2>3
<1>6. SessionMap' = [SessionMap EXCEPT ![n] = who[r]]
  <2>1. /\ SessionMap = [s \in Tokens |-> SessionMap[s]]
        /\ SessionMap' = [s \in Tokens |-> SessionMap'[s]]
    BY DEF MapFacts
  <2> QED
    BY <1>4, <1>5, <2>1
<1> QED
  BY <1>1, <1>3, <1>6 DEF Abstract!Next, Abstract!Login

\* Rotation is invisible: the session goes on with the new token.
LEMMA RotateRefines ==
  ASSUME IInv, MapFacts, MapFacts',
         NEW r \in Requests, NEW n \in Tokens, NEW how \in CallReturns, Rotate(r, n, how)
  PROVE  SessionMap' = SessionMap
<1> DEFINE old == arg[r]
<1>1. /\ old \in Tokens /\ old # n
      /\ refr[n] = None /\ chain[n] = None
      /\ refr'[n] = refr[old] /\ refr'[old] = None
      /\ \A t \in Tokens \ {n} : refr'[t] # None =>
           t # old /\ refr[t] # None /\ refr'[t] = refr[t]
      /\ chain' = [chain EXCEPT ![n] = chain[old]]
  BY RotateEffect DEF IInv
<1>2. /\ refr[old] # None /\ old \notin expired /\ expired' = expired
      /\ \A t \in Tokens \ {n, old} : t \notin expired => refr'[t] = refr[t]
  BY <1>1 DEF Rotate, Swept, Valid, IInv, TypeOK
<1>3. n \notin expired
  BY DEF Rotate, IInv, FreshIsNew
<1>4. /\ chain'[n] = chain[old]
      /\ \A t \in Tokens \ {n} : chain'[t] = chain[t]
  BY <1>1 DEF IInv, TypeOK
<1>5. chain[old] \in Tokens \ {n} /\ chain[chain[old]] = chain[old]
  BY <1>1, <1>2, TokensAssumption DEF IInv, ChainRoots, TokensAssumption
<1>6. ASSUME NEW s \in Tokens
      PROVE  SessionMap'[s] = SessionMap[s]
  <2>1. CASE s = n
    BY <1>1, <1>4, <1>5, <2>1, TokensAssumption DEF MapFacts, TokensAssumption
  <2>2. CASE s = chain[old]
    <3>1. SessionMap[s] = refr[old]
      BY <1>1, <1>2, <2>2 DEF MapFacts
    <3>2. SessionMap'[s] = refr'[n]
      BY <1>1, <1>2, <1>3, <1>4, <2>2 DEF MapFacts
    <3> QED
      BY <1>1, <3>1, <3>2
  <2>3. CASE s # n /\ s # chain[old] /\ chain[s] # s
    BY <1>4, <2>3 DEF MapFacts
  <2>4. CASE /\ s # n /\ s # chain[old] /\ chain[s] = s
             /\ \E t \in Tokens : chain[t] = s /\ refr[t] # None /\ t \notin expired
    <3>1. PICK t \in Tokens : chain[t] = s /\ refr[t] # None /\ t \notin expired
      BY <2>4
    <3>2. t # n /\ t # old
      BY <1>1, <2>4, <3>1
    <3>3. SessionMap[s] = refr[t]
      BY <3>1 DEF MapFacts
    <3>4. refr'[t] = refr[t] /\ chain'[t] = s
      BY <1>2, <1>4, <3>1, <3>2
    <3>5. SessionMap'[s] = refr'[t]
      BY <1>2, <3>1, <3>4 DEF MapFacts
    <3> QED
      BY <3>3, <3>4, <3>5
  <2>5. CASE /\ s # n /\ s # chain[old] /\ chain[s] = s
             /\ \A t \in Tokens : chain[t] = s => refr[t] = None \/ t \in expired
    <3>1. SessionMap[s] = "over"
      BY <2>5 DEF MapFacts
    <3>2. ASSUME NEW t \in Tokens, chain'[t] = s
          PROVE  refr'[t] = None \/ t \in expired'
      <4>1. t # n /\ chain[t] = s
        BY <1>4, <2>5, <3>2
      <4> QED
        BY <1>1, <1>2, <2>5, <4>1
    <3>3. chain'[s] = s
      BY <1>4, <2>5
    <3> QED
      BY <3>1, <3>2, <3>3 DEF MapFacts
  <2> QED
    BY <2>1, <2>2, <2>3, <2>4, <2>5
<1>7. /\ SessionMap = [s \in Tokens |-> SessionMap[s]]
      /\ SessionMap' = [s \in Tokens |-> SessionMap'[s]]
  BY DEF MapFacts
<1> QED
  BY <1>6, <1>7

\* Every step of the handlers, of time and of the operator is a step of the
\* abstract sessions, or none.
LEMMA StepRefines ==
  IInv /\ MapFacts /\ MapFacts' /\ [Next]_vars => [Abstract!Next]_SessionMap
<1> SUFFICES ASSUME IInv, MapFacts, MapFacts', [Next]_vars
             PROVE  [Abstract!Next]_SessionMap
  OBVIOUS
<1>1. ASSUME UNCHANGED <<refr, expired, chain>>
      PROVE  Abstract!Next
  BY <1>1, EndStep
<1>2. ASSUME NEW r \in Requests, Request(r)
      PROVE  UNCHANGED <<refr, expired, chain>>
  BY <1>2
  DEF Request, GrantPassword, GrantRefresh, HandleRevoke, HandleOAuthRegister,
      AuthorizeConfirm, AuthorizeRefused, GrantAuthorizationCode, storeVars
<1>3. ASSUME NEW r \in Requests, NEW how \in CallReturns, Revoke(r, how)
      PROVE  Abstract!Next
  <2>1. /\ chain' = chain /\ expired' = expired
        /\ \A t \in Tokens : refr'[t] # None => refr'[t] = refr[t]
    BY <1>3 DEF Revoke, IInv, TypeOK
  <2> QED
    BY <2>1, EndStep
<1>4. ASSUME NEW r \in Requests, RotateNotFound(r)
      PROVE  Abstract!Next
  <2>1. /\ chain' = chain /\ expired' = expired
        /\ \A t \in Tokens : refr'[t] # None => refr'[t] = refr[t]
    BY <1>4 DEF RotateNotFound, Swept, IInv, TypeOK
  <2> QED
    BY <2>1, EndStep
<1>5. ASSUME NEW r \in Requests,
             \/ \E how \in CallReturns :
                  \/ \E U \in SUBSET Uris \ {{}} : SaveOAuthClient(r, U, how)
                  \/ \E c \in Codes : SaveOAuthCode(r, c, how)
             \/ Consume(r) \/ ConsumeUnknown(r) \/ ConsumeNotFound(r)
             \/ Match(r) \/ Mismatch(r) \/ StoreFails(r)
             \/ Deliver(r) \/ Lose(r)
      PROVE  UNCHANGED <<refr, expired, chain>>
  BY <1>5
  DEF SaveOAuthClient, SaveOAuthCode, Consume, ConsumeUnknown, ConsumeNotFound,
      Match, Mismatch, StoreFails, Deliver, Lose, storeVars
<1>6. ASSUME NEW t \in Tokens, ExpireToken(t)
      PROVE  Abstract!Next
  <2>1. chain' = chain /\ refr' = refr /\ expired \subseteq expired'
    BY <1>6 DEF ExpireToken
  <2> QED
    BY <2>1, EndStep
<1>7. ASSUME NEW c \in Codes, ExpireCode(c)
      PROVE  Abstract!Next
  <2>1. chain' = chain /\ refr' = refr /\ expired \subseteq expired'
    BY <1>7 DEF ExpireCode
  <2> QED
    BY <2>1, EndStep
<1>8. ASSUME Restart
      PROVE  Abstract!Next
  <2>1. /\ chain' = chain /\ expired' = expired
        /\ \A t \in Tokens : refr'[t] # None => refr'[t] = refr[t]
    BY <1>8 DEF Restart, Restarted, IInv, TypeOK
  <2> QED
    BY <2>1, EndStep
<1>9. CASE UNCHANGED vars
  BY <1>1, <1>9 DEF vars, storeVars
<1> QED
  BY <1>1, <1>2, <1>3, <1>4, <1>5, <1>6, <1>7, <1>8, <1>9, IssueRefines, RotateRefines
  DEF Next, Handle

\* Sessions keep their user, and once over they stay over, whatever is
\* replayed, revoked, lost, half done or restarted (RefreshStore).
THEOREM HandlersImplementSessions == Spec => ImplementsSessions
<1>1. Spec => [](IInv /\ MapFacts)
  BY SpecInv, MapCorrect, PTL
<1> QED
  BY <1>1, InitRefines, StepRefines, PTL
  DEF Spec, ImplementsSessions, Abstract!Spec

=============================================================================

------------------------------ MODULE SignInProofs ------------------------------
(***************************************************************************)
(* Theorems about how an account is signed in to: its sessions, its second *)
(* factor and its passkeys, for any number of sessions, calls, devices,    *)
(* secrets, credentials, ceremonies and rotations.  The modules share no   *)
(* state; each part proves the theorems of one, and the last says that     *)
(* they hold of the combined specification too.                            *)
(***************************************************************************)
EXTENDS MCAccounts, AccountKeysProofs

--------------------------------------------------------------------------------
(***************************************************************************)
(* Sessions.                                                               *)
(***************************************************************************)

LEMMA IdleType == NoHandler \in Handler
  BY SessionsBound DEF NoHandler, Handler

(* Starting a call, and moving one on.                                     *)
LEMMA HandlersType ==
  ASSUME SessionsTypeOK, NEW k \in Handlers, NEW q \in Handler,
         q.op \in SessionOps => q.session \in Sessions,
         handler' = [handler EXCEPT ![k] = q]
  PROVE  /\ handler' \in [Handlers -> Handler]
         /\ \A j \in Handlers : handler'[j].op \in SessionOps => handler'[j].session \in Sessions
  BY DEF SessionsTypeOK

LEMMA FinishHandlerType ==
  ASSUME SessionsTypeOK, NEW k \in Handlers, FinishHandler(k)
  PROVE  /\ handler' \in [Handlers -> Handler]
         /\ \A j \in Handlers : handler'[j].op \in SessionOps => handler'[j].session \in Sessions
  <1>1. NoHandler.op \notin SessionOps
    BY DEF NoHandler, SessionOps
  <1> QED
    BY <1>1, IdleType, HandlersType DEF FinishHandler

LEMMA BeginHandlerType ==
  ASSUME SessionsTypeOK, NEW k \in Handlers,
         NEW op \in {"idle", "login", "refresh", "reuse", "logout", "change",
                     "recover", "connect"},
         NEW pc \in {"start", "write", "list", "sweep", "create"},
         NEW s \in Sessions \union {NoSession}, NEW t \in 0..MaxToken,
         NEW pw \in 0..PasswordBound, BeginHandler(k, op, pc, s, t, pw),
         op \in SessionOps => s \in Sessions
  PROVE  /\ handler' \in [Handlers -> Handler]
         /\ \A j \in Handlers : handler'[j].op \in SessionOps => handler'[j].session \in Sessions
  <1> DEFINE q == [op |-> op, pc |-> pc, session |-> s, token |-> t, with |-> pw,
                   existing |-> {}, victims |-> {}]
  <1>1. q \in Handler
    BY DEF Handler
  <1>2. q.op = op /\ q.session = s
    OBVIOUS
  <1>3. handler' = [handler EXCEPT ![k] = q]
    BY DEF BeginHandler
  <1> HIDE DEF q
  <1> QED
    BY <1>1, <1>2, <1>3, HandlersType

LEMMA RevokedType ==
  ASSUME SessionsTypeOK, NEW S
  PROVE  Revoked(S) \in [Sessions -> Row]
  BY DEF Revoked, SessionsTypeOK, Row

LEMMA RotatedType ==
  ASSUME SessionsTypeOK, NEW s \in Sessions, NEW t \in 0..MaxToken
  PROVE  Rotated(s, t) \in Row
  BY DEF Rotated, SessionsTypeOK, Row

LEMMA SessionsTypeStep == SessionsTypeOK /\ [SessionsNext]_sessionVars => SessionsTypeOK'
  <1> SUFFICES ASSUME SessionsTypeOK, [SessionsNext]_sessionVars
               PROVE  SessionsTypeOK'
    OBVIOUS
  <1> DEFINE CallsOK(c) == /\ c \in [Handlers -> Handler]
                           /\ \A j \in Handlers : c[j].op \in SessionOps
                                                 => c[j].session \in Sessions
  <1> USE SessionsBound
  <1>a. ASSUME NEW k \in Handlers, NEW q \in Handler, q.op = handler[k].op,
               q.session = handler[k].session, handler' = [handler EXCEPT ![k] = q]
        PROVE  CallsOK(handler')
    BY <1>a, HandlersType DEF SessionsTypeOK
  <1>1. ASSUME NEW k \in Handlers, LoginCheck(k) \/ RecoverCheck(k)
        PROVE  SessionsTypeOK'
    <2>1. \E op \in {"login", "recover"}, pc \in {"create", "write"},
             pw \in 0..PasswordBound : BeginHandler(k, op, pc, NoSession, 0, pw)
      BY <1>1 DEF LoginCheck, RecoverCheck, SessionsTypeOK, PasswordNumbers
    <2>2. CallsOK(handler')
      BY <2>1, BeginHandlerType DEF SessionOps
    <2> QED
      BY <1>1, <2>2 DEF LoginCheck, RecoverCheck, SessionsTypeOK
  <1>2. ASSUME NEW k \in Handlers, NEW s \in Sessions, Create(k, s)
        PROVE  SessionsTypeOK'
    <2>1. CallsOK(handler')
      BY <1>2, FinishHandlerType DEF Create
    <2>2. handler[k].with \in 0..PasswordBound
      BY DEF SessionsTypeOK, Handler
    <2> QED
      BY <1>2, <2>1, <2>2 DEF Create, SessionsTypeOK, Row
  <1>3. ASSUME NEW k \in Handlers, NEW s \in Sessions, NEW t \in TokenNumbers,
               RefreshRead(k, s, t) \/ LogoutRead(k, s, t)
        PROVE  SessionsTypeOK'
    <2>1. \E op \in {"refresh", "reuse", "logout"} : BeginHandler(k, op, "write", s, t, 0)
      BY <1>3 DEF RefreshRead, LogoutRead
    <2>2. t \in 0..MaxToken
      BY DEF TokenNumbers
    <2>3. CallsOK(handler')
      BY <2>1, <2>2, BeginHandlerType
    <2> QED
      BY <1>3, <2>3 DEF RefreshRead, LogoutRead, SessionsTypeOK
  <1>4. ASSUME NEW k \in Handlers, RefreshWrite(k)
        PROVE  SessionsTypeOK'
    <2>1. handler[k].token \in 0..MaxToken /\ handler[k].session \in Sessions
      BY <1>4 DEF RefreshWrite, HandlerAt, SessionOps, SessionsTypeOK, Handler
    <2>2. issued[handler[k].session] + 1 \in 0..MaxToken
      BY <1>4, <2>1 DEF RefreshWrite, SessionsTypeOK
    <2>3. issued' \in [Sessions -> 0..MaxToken]
      BY <1>4, <2>2 DEF RefreshWrite, SessionsTypeOK
    <2>4. row' \in [Sessions -> Row]
      BY <1>4, <2>1, <2>2, RotatedType DEF RefreshWrite, SessionsTypeOK
    <2>5. rotated' \in [Sessions -> SUBSET (0..MaxToken)]
      BY <1>4, <2>1 DEF RefreshWrite, SessionsTypeOK
    <2>6. CallsOK(handler')
      BY <1>4, FinishHandlerType DEF RefreshWrite
    <2> QED
      BY <1>4, <2>3, <2>4, <2>5, <2>6 DEF RefreshWrite, SessionsTypeOK
  <1>5. ASSUME NEW k \in Handlers, ReuseRevoke(k) \/ LogoutWrite(k)
        PROVE  SessionsTypeOK'
    <2>1. CallsOK(handler')
      BY <1>5, FinishHandlerType DEF ReuseRevoke, LogoutWrite
    <2> QED
      BY <1>5, <2>1, RevokedType DEF ReuseRevoke, LogoutWrite, Disconnect, SessionsTypeOK
  <1>6. ASSUME NEW s \in Sessions, ExpireSession(s) \/ Revoke(s) \/ Hangup(s)
        PROVE  SessionsTypeOK'
    BY <1>6, RevokedType DEF ExpireSession, Revoke, Hangup, Disconnect, SessionsTypeOK, Row
  <1>7. ASSUME NEW k \in Handlers, NEW s \in Sessions,
               ChangeCheck(k, s) \/ ConnectCheck(k, s)
        PROVE  SessionsTypeOK'
    <2>1. \E op \in {"change", "connect"}, pw \in 0..PasswordBound :
            BeginHandler(k, op, "write", s, 0, pw)
      BY <1>7 DEF ChangeCheck, ConnectCheck, SessionsTypeOK, PasswordNumbers
    <2>2. CallsOK(handler')
      BY <2>1, BeginHandlerType
    <2> QED
      BY <1>7, <2>2 DEF ChangeCheck, ConnectCheck, SessionsTypeOK
  <1>8. ASSUME NEW k \in Handlers, SetPassword(k)
        PROVE  SessionsTypeOK'
    <2>1. password + 1 \in PasswordNumbers /\ password + 1 \in 0..PasswordBound
      BY <1>8 DEF SetPassword, SessionsTypeOK, PasswordNumbers
    <2>2. row' \in [Sessions -> Row]
      BY <1>8, <2>1 DEF SetPassword, SessionsTypeOK, Row
    <2>3. CallsOK(handler')
      <3> DEFINE q == [handler[k] EXCEPT !.pc = "list", !.with = password + 1,
                         !.existing = Existing \ {handler[k].session}]
      <3>1. handler[k] \in Handler /\ Existing \ {handler[k].session} \in SUBSET Sessions
        BY DEF SessionsTypeOK, Existing
      <3>2. q \in Handler /\ q.op = handler[k].op /\ q.session = handler[k].session
        BY <2>1, <3>1 DEF Handler
      <3>3. handler' = [handler EXCEPT ![k] = q]
        BY <1>8 DEF SetPassword
      <3> HIDE DEF q
      <3> QED
        BY <3>2, <3>3, <1>a
    <2> QED
      BY <1>8, <2>1, <2>2, <2>3 DEF SetPassword, SessionsTypeOK
  <1>9. ASSUME NEW k \in Handlers, SweepList(k)
        PROVE  SessionsTypeOK'
    <2> DEFINE q == [handler[k] EXCEPT !.pc = "sweep", !.victims = Sweepable(k)]
    <2>1. handler[k] \in Handler /\ Sweepable(k) \in SUBSET Sessions
      BY DEF SessionsTypeOK, Sweepable
    <2>2. q \in Handler /\ q.op = handler[k].op /\ q.session = handler[k].session
      BY <2>1 DEF Handler
    <2>3. handler' = [handler EXCEPT ![k] = q]
      BY <1>9 DEF SweepList
    <2> HIDE DEF q
    <2>4. CallsOK(handler')
      BY <2>2, <2>3, <1>a
    <2> QED
      BY <1>9, <2>4 DEF SweepList, SessionsTypeOK
  <1>10. ASSUME NEW k \in Handlers, SweepWrite(k)
         PROVE  SessionsTypeOK'
    <2> DEFINE q == [handler[k] EXCEPT !.pc = "create"]
    <2>1. handler[k] \in Handler /\ handler[k].existing \in SUBSET Sessions
      BY DEF SessionsTypeOK, Handler
    <2>2. q \in Handler /\ q.op = handler[k].op /\ q.session = handler[k].session
      BY <2>1 DEF Handler
    <2>3. handler' = [handler EXCEPT ![k] = q] \/ FinishHandler(k)
      BY <1>10 DEF SweepWrite, Proceed, SessionsTypeOK
    <2> HIDE DEF q
    <2>4. CallsOK(handler')
      BY <2>2, <2>3, <1>a, FinishHandlerType
    <2> QED
      BY <1>10, <2>1, <2>4, RevokedType DEF SweepWrite, Disconnect, SessionsTypeOK
  <1>11. ASSUME NEW k \in Handlers, ConnectJoin(k)
         PROVE  SessionsTypeOK'
    <2>1. handler[k].session \in Sessions
      BY <1>11 DEF ConnectJoin, HandlerAt, SessionOps, SessionsTypeOK
    <2>2. CallsOK(handler')
      BY <1>11, FinishHandlerType DEF ConnectJoin
    <2> QED
      BY <1>11, <2>1, <2>2 DEF ConnectJoin, SessionsTypeOK
  <1>12. CASE StoreOnlyHash
    BY <1>12 DEF StoreOnlyHash, SessionsTypeOK, PasswordNumbers
  <1>13. CASE UNCHANGED sessionVars
    BY <1>13 DEF sessionVars, SessionsTypeOK
  <1> QED
    BY <1>1, <1>2, <1>3, <1>4, <1>5, <1>6, <1>7, <1>8, <1>9, <1>10, <1>11,
       <1>12, <1>13 DEF SessionsNext

LEMMA SessionsInitHolds == SessionsInit => SessionsInv
  <1> SUFFICES ASSUME SessionsInit PROVE SessionsInv
    OBVIOUS
  <1> USE SessionsBound
  <1>1. SessionsTypeOK
    <2>1. handler \in [Handlers -> Handler]
      BY IdleType DEF SessionsInit
    <2>2. \A k \in Handlers : handler[k].op = "idle"
      BY DEF SessionsInit, NoHandler
    <2> QED
      BY <2>1, <2>2 DEF SessionsInit, SessionsTypeOK, PasswordNumbers, Row, SessionOps
  <1>2. \A k \in Handlers : handler[k].op = "idle"
    BY DEF SessionsInit, NoHandler
  <1>3. TokensWereIssued
    BY <1>2 DEF SessionsInit, TokensWereIssued
  <1> QED
    BY <1>1, <1>2, <1>3
       DEF SessionsInit, SessionsInv, NoHandler, CallsFollowCreation, SessionOps,
           RotatedTokensAreDead, SweepsAreComplete, SweptSessionsStayRevoked

(* Every reachable state is well typed.                                    *)
THEOREM SessionsTyped == SessionsSpec => []SessionsTypeOK
  <1>1. SessionsInit => SessionsTypeOK
    BY SessionsInitHolds DEF SessionsInv
  <1> QED
    BY <1>1, SessionsTypeStep, PTL DEF SessionsSpec

(* What starting and finishing a call do to the records of all calls.      *)
LEMMA BeginEffect ==
  ASSUME SessionsTypeOK, NEW k \in Handlers,
         NEW op \in {"login", "refresh", "reuse", "logout", "change", "recover",
                     "connect"},
         NEW pc \in {"write", "create"},
         NEW s \in Sessions \union {NoSession}, NEW t \in Nat, NEW pw \in Nat,
         BeginHandler(k, op, pc, s, t, pw)
  PROVE  /\ \A j \in Handlers : j # k => handler'[j] = handler[j]
         /\ handler'[k].op = op
         /\ handler'[k].session = s
         /\ handler'[k].token = t
         /\ handler'[k].existing = {}
         /\ handler'[k].victims = {}
  BY DEF BeginHandler, SessionsTypeOK

LEMMA FinishEffect ==
  ASSUME SessionsTypeOK, NEW k \in Handlers, FinishHandler(k)
  PROVE  /\ \A j \in Handlers : j # k => handler'[j] = handler[j]
         /\ handler'[k].op = "idle"
         /\ handler'[k].victims = {}
  BY DEF FinishHandler, SessionsTypeOK, NoHandler

(* A row leaves "none" once, and never leaves "revoked".                   *)
LEMMA StateStep ==
  ASSUME SessionsTypeOK, [SessionsNext]_sessionVars, NEW s \in Sessions
  PROVE  /\ row[s].state # "none" => row'[s].state # "none"
         /\ row[s].state = "revoked" => row'[s].state = "revoked"
  <1>1. ASSUME NEW k \in Handlers, NEW z \in Sessions, Create(k, z)
        PROVE  /\ row[s].state # "none" => row'[s].state # "none"
               /\ row[s].state = "revoked" => row'[s].state = "revoked"
    BY <1>1 DEF Create, SessionsTypeOK
  <1>2. ASSUME NEW k \in Handlers, RefreshWrite(k)
        PROVE  /\ row[s].state # "none" => row'[s].state # "none"
               /\ row[s].state = "revoked" => row'[s].state = "revoked"
    BY <1>2 DEF RefreshWrite, Rotated, SessionsTypeOK, Row
  <1>3. ASSUME NEW S, row' = Revoked(S)
        PROVE  /\ row[s].state # "none" => row'[s].state # "none"
               /\ row[s].state = "revoked" => row'[s].state = "revoked"
    BY <1>3 DEF Revoked, SessionsTypeOK, Row
  <1>4. ASSUME NEW z \in Sessions, ExpireSession(z)
        PROVE  /\ row[s].state # "none" => row'[s].state # "none"
               /\ row[s].state = "revoked" => row'[s].state = "revoked"
    BY <1>4 DEF ExpireSession, SessionsTypeOK, Row
  <1>5. ASSUME NEW k \in Handlers, SetPassword(k)
        PROVE  /\ row[s].state # "none" => row'[s].state # "none"
               /\ row[s].state = "revoked" => row'[s].state = "revoked"
    BY <1>5 DEF SetPassword, SessionsTypeOK, Row
  <1>6. \/ \E k \in Handlers, z \in Sessions : Create(k, z)
        \/ \E k \in Handlers : RefreshWrite(k) \/ SetPassword(k)
        \/ \E z \in Sessions : ExpireSession(z)
        \/ \E S : row' = Revoked(S)
        \/ row' = row
    BY DEF SessionsNext, sessionVars, LoginCheck, RecoverCheck, ReuseRevoke, LogoutWrite,
           SweepList, SweepWrite, ConnectJoin, ChangeCheck, ConnectCheck,
           RefreshRead, LogoutRead, Revoke, Hangup, StoreOnlyHash
  <1> QED
    BY <1>1, <1>2, <1>3, <1>4, <1>5, <1>6

(* The invariant of the tokens.                                            *)
TokensInv == CallsFollowCreation /\ TokensWereIssued /\ RotatedTokensAreDead

LEMMA TokensStep ==
  SessionsTypeOK /\ TokensInv /\ [SessionsNext]_sessionVars => TokensInv'
  <1> SUFFICES ASSUME SessionsTypeOK, TokensInv, [SessionsNext]_sessionVars
               PROVE  TokensInv'
    OBVIOUS
  <1> USE SessionsBound
  <1>a. Existing \subseteq Existing'
    BY StateStep DEF Existing
  <1>t. /\ SessionsTypeOK
        /\ \A s \in Sessions : issued[s] \in 0..MaxToken
        /\ \A s \in Sessions : row[s].token \in 0..MaxToken
        /\ \A s \in Sessions : rotated[s] \in SUBSET (0..MaxToken)
        /\ \A k \in Handlers : handler[k] \in Handler
        /\ \A k \in Handlers : handler[k].token \in 0..MaxToken
        /\ \A k \in Handlers : handler[k].op \in SessionOps => handler[k].session \in Sessions
    BY DEF SessionsTypeOK, Row, Handler
  \* Calls that move on without touching a row.
  <1>b. ASSUME NEW k \in Handlers,
               row' = row, issued' = issued, rotated' = rotated,
               \A j \in Handlers : j # k => handler'[j] = handler[j],
               handler'[k].op \in SessionOps => handler'[k].session \in Existing,
               handler'[k].victims \subseteq Existing,
               handler'[k].op = "refresh" => handler'[k].token <= issued[handler'[k].session]
        PROVE  TokensInv'
    <2>1. CallsFollowCreation'
      BY <1>b DEF TokensInv, CallsFollowCreation, Existing
    <2>2. TokensWereIssued'
      BY <1>b DEF TokensInv, TokensWereIssued
    <2> QED
      BY <1>b, <2>1, <2>2 DEF TokensInv, RotatedTokensAreDead
  \* Steps that change the state of rows and end or advance a call.
  <1>c. ASSUME issued' = issued, rotated' = rotated,
               \A s \in Sessions : row'[s].token = row[s].token,
               \A s \in Sessions : row'[s].state = "none" => row[s].state = "none",
               \A j \in Handlers : handler'[j].op # "idle" =>
                 /\ handler'[j].op = handler[j].op
                 /\ handler'[j].session = handler[j].session
                 /\ handler'[j].token = handler[j].token,
               \A j \in Handlers : handler'[j].victims \subseteq handler[j].victims
        PROVE  TokensInv'
    <2>1. CallsFollowCreation'
      <3>1. \A s \in Sessions : row'[s].state = "none" => issued'[s] = 0
        BY <1>c DEF TokensInv, CallsFollowCreation
      <3>2. \A j \in Handlers : handler'[j].op \in SessionOps => handler'[j].session \in Existing'
        BY <1>c, <1>a DEF TokensInv, CallsFollowCreation, SessionOps
      <3>3. \A j \in Handlers : handler'[j].victims \subseteq Existing'
        BY <1>c, <1>a DEF TokensInv, CallsFollowCreation
      <3> QED
        BY <3>1, <3>2, <3>3 DEF CallsFollowCreation
    <2>2. TokensWereIssued'
      BY <1>c DEF TokensInv, TokensWereIssued
    <2> QED
      BY <1>c, <2>1, <2>2 DEF TokensInv, RotatedTokensAreDead
  <1>1. ASSUME NEW k \in Handlers, LoginCheck(k) \/ RecoverCheck(k)
        PROVE  TokensInv'
    <2>1. \E op \in {"login", "recover"}, pc \in {"create", "write"},
             pw \in Nat : BeginHandler(k, op, pc, NoSession, 0, pw)
      <3>1. 0 \in Nat /\ password \in Nat
        BY <1>t DEF SessionsTypeOK, PasswordNumbers
      <3>2. CASE LoginCheck(k)
        BY <3>1, <3>2 DEF LoginCheck
      <3>3. CASE RecoverCheck(k)
        BY <3>1, <3>3 DEF RecoverCheck
      <3> QED
        BY <1>1, <3>2, <3>3
    <2>2. /\ \A j \in Handlers : j # k => handler'[j] = handler[j]
          /\ handler'[k].op \in {"login", "recover"} /\ handler'[k].victims = {}
      <3>1. PICK op \in {"login", "recover"}, pc \in {"create", "write"},
                 pw \in Nat : BeginHandler(k, op, pc, NoSession, 0, pw)
        BY <2>1
      <3> QED
        BY <3>1, BeginEffect
    <2> QED
      BY <1>1, <1>b, <2>2 DEF LoginCheck, RecoverCheck, SessionOps
  <1>2. ASSUME NEW k \in Handlers, NEW s \in Sessions, Create(k, s)
        PROVE  TokensInv'
    <2>1. /\ \A j \in Handlers : j # k => handler'[j] = handler[j]
          /\ handler'[k].op = "idle" /\ handler'[k].victims = {}
      BY <1>2, FinishEffect DEF Create
    <2>2. issued[s] = 0 /\ issued'[s] = 1 /\ row'[s].token = 1
          /\ row'[s].state = "live"
      BY <1>2 DEF Create, TokensInv, CallsFollowCreation, SessionsTypeOK
    <2>3. \A z \in Sessions : z # s => row'[z] = row[z] /\ issued'[z] = issued[z]
      BY <1>2 DEF Create, SessionsTypeOK
    <2>4. rotated' = rotated /\ \A t \in rotated[s] : t <= 0
      BY <1>2, <2>2 DEF Create, TokensInv, TokensWereIssued
    <2>5. CallsFollowCreation'
      BY <2>1, <2>2, <2>3, <1>a DEF TokensInv, CallsFollowCreation, SessionOps
    <2>6. TokensWereIssued'
      <3>1. \A z \in Sessions : row'[z].token <= issued'[z]
        BY <2>2, <2>3 DEF TokensInv, TokensWereIssued
      <3>2. \A z \in Sessions : \A t \in rotated'[z] : t <= issued'[z]
        BY <1>t, <2>2, <2>3, <2>4 DEF TokensInv, TokensWereIssued
      <3>3. \A j \in Handlers : handler'[j].op = "refresh" =>
              handler'[j].token <= issued'[handler'[j].session]
        BY <1>t, <2>1, <2>2, <2>3 DEF TokensInv, TokensWereIssued, SessionOps
      <3> QED
        BY <3>1, <3>2, <3>3 DEF TokensWereIssued
    <2>7. RotatedTokensAreDead'
      BY <1>t, <2>2, <2>3, <2>4 DEF TokensInv, RotatedTokensAreDead
    <2> QED
      BY <2>5, <2>6, <2>7 DEF TokensInv
  <1>3. ASSUME NEW k \in Handlers, NEW s \in Sessions, NEW t \in TokenNumbers,
               RefreshRead(k, s, t) \/ LogoutRead(k, s, t)
        PROVE  TokensInv'
    <2>1. \E op \in {"refresh", "reuse", "logout"} : BeginHandler(k, op, "write", s, t, 0)
      BY <1>3 DEF RefreshRead, LogoutRead
    <2>2. t \in Nat /\ t <= issued[s] /\ s \in Existing
      BY <1>3, <1>t DEF RefreshRead, LogoutRead, Presentable, Existing, TokenNumbers
    <2>3. row' = row /\ issued' = issued /\ rotated' = rotated
      BY <1>3 DEF RefreshRead, LogoutRead
    <2>4. /\ \A j \in Handlers : j # k => handler'[j] = handler[j]
          /\ handler'[k].session = s /\ handler'[k].token = t /\ handler'[k].victims = {}
      <3>1. PICK op \in {"refresh", "reuse", "logout"} :
              BeginHandler(k, op, "write", s, t, 0)
        BY <2>1
      <3> QED
        BY <2>2, <3>1, BeginEffect
    <2> QED
      BY <2>2, <2>3, <2>4, <1>b
  <1>4. ASSUME NEW k \in Handlers, RefreshWrite(k)
        PROVE  TokensInv'
    <2> DEFINE s == handler[k].session
    <2>1. handler[k].op = "refresh" /\ s \in Sessions /\ handler[k].token <= issued[s]
      BY <1>4, <1>t DEF RefreshWrite, HandlerAt, SessionOps, TokensInv, TokensWereIssued
    <2>2. /\ \A j \in Handlers : j # k => handler'[j] = handler[j]
          /\ handler'[k].op = "idle" /\ handler'[k].victims = {}
      BY <1>4, FinishEffect DEF RefreshWrite
    <2>3. /\ issued'[s] = issued[s] + 1
          /\ row'[s].token = issued[s] + 1
          /\ rotated'[s] = rotated[s] \union {handler[k].token}
      BY <1>4, <2>1 DEF RefreshWrite, Rotated, SessionsTypeOK, Row
    <2>4. \A z \in Sessions : z # s =>
            row'[z] = row[z] /\ issued'[z] = issued[z] /\ rotated'[z] = rotated[z]
      BY <1>4, <2>1 DEF RefreshWrite, SessionsTypeOK
    <2>5. row[s].state # "none"
      BY <2>1 DEF TokensInv, CallsFollowCreation, SessionOps, Existing
    <2>6. row'[s].state # "none"
      BY <2>1, <2>5, StateStep
    <2> HIDE DEF s
    <2>7. CallsFollowCreation'
      BY <2>2, <2>4, <2>6, <1>a DEF TokensInv, CallsFollowCreation, SessionOps
    <2>8. TokensWereIssued'
      <3>1. \A z \in Sessions : row'[z].token <= issued'[z]
        BY <1>t, <2>1, <2>3, <2>4 DEF TokensInv, TokensWereIssued
      <3>2. \A z \in Sessions : \A t \in rotated'[z] : t <= issued'[z]
        BY <1>t, <2>1, <2>3, <2>4 DEF TokensInv, TokensWereIssued
      <3>3. \A j \in Handlers : handler'[j].op = "refresh" =>
              handler'[j].token <= issued'[handler'[j].session]
        BY <1>t, <2>1, <2>2, <2>3, <2>4 DEF TokensInv, TokensWereIssued, SessionOps
      <3> QED
        BY <3>1, <3>2, <3>3 DEF TokensWereIssued
    <2>9. RotatedTokensAreDead'
      BY <1>t, <2>1, <2>3, <2>4 DEF TokensInv, TokensWereIssued, RotatedTokensAreDead
    <2> QED
      BY <2>7, <2>8, <2>9 DEF TokensInv
  <1>5. ASSUME NEW k \in Handlers, ReuseRevoke(k) \/ LogoutWrite(k)
        PROVE  TokensInv'
    <2>1. /\ \A j \in Handlers : j # k => handler'[j] = handler[j]
          /\ handler'[k].op = "idle" /\ handler'[k].victims = {}
      BY <1>5, FinishEffect DEF ReuseRevoke, LogoutWrite
    <2>2. \A s \in Sessions : /\ row'[s].token = row[s].token
                              /\ row'[s].state = "none" => row[s].state = "none"
      BY <1>5 DEF ReuseRevoke, LogoutWrite, Revoked, SessionsTypeOK, Row
    <2>3. issued' = issued /\ rotated' = rotated
      BY <1>5 DEF ReuseRevoke, LogoutWrite
    <2> QED
      BY <2>1, <2>2, <2>3, <1>c
  <1>6. ASSUME NEW s \in Sessions, ExpireSession(s) \/ Revoke(s) \/ Hangup(s)
        PROVE  TokensInv'
    <2>1. \A z \in Sessions : /\ row'[z].token = row[z].token
                              /\ row'[z].state = "none" => row[z].state = "none"
      BY <1>6 DEF ExpireSession, Revoke, Hangup, Revoked, SessionsTypeOK, Row
    <2>2. issued' = issued /\ rotated' = rotated /\ handler' = handler
      BY <1>6 DEF ExpireSession, Revoke, Hangup
    <2> QED
      BY <2>1, <2>2, <1>c
  <1>7. ASSUME NEW k \in Handlers, NEW s \in Sessions,
               ChangeCheck(k, s) \/ ConnectCheck(k, s)
        PROVE  TokensInv'
    <2>1. \E op \in {"change", "connect"}, pw \in Nat :
            BeginHandler(k, op, "write", s, 0, pw)
      BY <1>7 DEF ChangeCheck, ConnectCheck, SessionsTypeOK, PasswordNumbers
    <2>2. s \in Existing
      BY <1>7 DEF ChangeCheck, ConnectCheck, Existing
    <2>3. row' = row /\ issued' = issued /\ rotated' = rotated
      BY <1>7 DEF ChangeCheck, ConnectCheck
    <2>4. /\ \A j \in Handlers : j # k => handler'[j] = handler[j]
          /\ handler'[k].op # "refresh"
          /\ handler'[k].session = s /\ handler'[k].victims = {}
      <3>1. PICK op \in {"change", "connect"}, pw \in Nat :
              BeginHandler(k, op, "write", s, 0, pw)
        BY <2>1
      <3> QED
        BY <2>2, <3>1, BeginEffect
    <2> QED
      BY <2>2, <2>3, <2>4, <1>b
  <1>8. ASSUME NEW k \in Handlers, SetPassword(k)
        PROVE  TokensInv'
    <2>1. \A z \in Sessions : /\ row'[z].token = row[z].token
                              /\ row'[z].state = row[z].state
      BY <1>8 DEF SetPassword, SessionsTypeOK, Row
    <2>2. \A j \in Handlers : /\ handler'[j].op = handler[j].op
                           /\ handler'[j].session = handler[j].session
                           /\ handler'[j].token = handler[j].token
                           /\ handler'[j].victims = handler[j].victims
      BY <1>8, <1>t DEF SetPassword, SessionsTypeOK, Handler
    <2>3. issued' = issued /\ rotated' = rotated
      BY <1>8 DEF SetPassword
    <2> QED
      BY <2>1, <2>2, <2>3, <1>c
  <1>9. ASSUME NEW k \in Handlers, SweepList(k)
        PROVE  TokensInv'
    <2>1. row' = row /\ issued' = issued /\ rotated' = rotated
      BY <1>9 DEF SweepList
    <2>2. /\ \A j \in Handlers : j # k => handler'[j] = handler[j]
          /\ handler'[k].op = handler[k].op
          /\ handler'[k].session = handler[k].session
          /\ handler'[k].victims = Sweepable(k)
      BY <1>9, <1>t DEF SweepList, SessionsTypeOK, Handler
    <2>3. Sweepable(k) \subseteq Existing /\ handler[k].op # "refresh"
      BY <1>9 DEF SweepList, Sweepable, Existing
    <2>4. handler'[k].op \in SessionOps => handler'[k].session \in Existing
      BY <2>2 DEF TokensInv, CallsFollowCreation
    <2> QED
      BY <2>1, <2>2, <2>3, <2>4, <1>b
  <1>10. ASSUME NEW k \in Handlers, SweepWrite(k)
         PROVE  TokensInv'
    <2>1. \A s \in Sessions : /\ row'[s].token = row[s].token
                              /\ row'[s].state = "none" => row[s].state = "none"
      BY <1>10 DEF SweepWrite, Revoked, SessionsTypeOK, Row
    <2>2. Proceed(k, "create") \/ FinishHandler(k)
      BY <1>10 DEF SweepWrite
    <2>3. \A j \in Handlers :
            /\ handler'[j].op # "idle" =>
                 /\ handler'[j].op = handler[j].op
                 /\ handler'[j].session = handler[j].session
                 /\ handler'[j].token = handler[j].token
            /\ handler'[j].victims \subseteq handler[j].victims
      <3>1. CASE Proceed(k, "create")
        BY <3>1, <1>t DEF Proceed, SessionsTypeOK, Handler
      <3>2. CASE FinishHandler(k)
        BY <3>2, <1>t, FinishEffect
      <3> QED
        BY <2>2, <3>1, <3>2
    <2>4. issued' = issued /\ rotated' = rotated
      BY <1>10 DEF SweepWrite
    <2> QED
      BY <2>1, <2>3, <2>4, <1>c
  <1>11. ASSUME NEW k \in Handlers, ConnectJoin(k)
         PROVE  TokensInv'
    <2>1. row' = row /\ issued' = issued /\ rotated' = rotated
      BY <1>11 DEF ConnectJoin
    <2>2. /\ \A j \in Handlers : j # k => handler'[j] = handler[j]
          /\ handler'[k].op = "idle" /\ handler'[k].victims = {}
      BY <1>11, FinishEffect DEF ConnectJoin
    <2> QED
      BY <2>1, <2>2, <1>b DEF SessionOps
  <1>12. CASE StoreOnlyHash \/ UNCHANGED sessionVars
    BY <1>12, <1>c DEF StoreOnlyHash, sessionVars
  <1> QED
    BY <1>1, <1>2, <1>3, <1>4, <1>5, <1>6, <1>7, <1>8, <1>9, <1>10, <1>11,
       <1>12 DEF SessionsNext

(* Once a rotation has committed, the token it exchanged is never the      *)
(* stored one again, whatever calls overlap.                               *)
THEOREM RotationIsFinal == SessionsSpec => []RotatedTokensAreDead
  <1>1. SessionsInit => SessionsTypeOK /\ TokensInv
    BY SessionsInitHolds DEF SessionsInv, TokensInv
  <1>2. (SessionsTypeOK /\ TokensInv) /\ [SessionsNext]_sessionVars => (SessionsTypeOK /\ TokensInv)'
    BY SessionsTypeStep, TokensStep
  <1>3. TokensInv => RotatedTokensAreDead
    BY DEF TokensInv
  <1> QED
    BY <1>1, <1>2, <1>3, PTL DEF SessionsSpec

(* The invariant of the sweeps.                                            *)
SweepsInv == SweepsAreComplete /\ SweptSessionsStayRevoked

LEMMA SweepsStep ==
  SessionsTypeOK /\ SweepsInv /\ [SessionsNext]_sessionVars => SweepsInv'
  <1> SUFFICES ASSUME SessionsTypeOK, SweepsInv, [SessionsNext]_sessionVars
               PROVE  SweepsInv'
    OBVIOUS
  <1> USE SessionsBound
  <1>t. /\ \A k \in Handlers : handler[k] \in Handler
        /\ outlawed \in SUBSET Sessions
        /\ \A k \in Handlers : handler[k].existing \in SUBSET Sessions
    BY DEF SessionsTypeOK, Handler
  <1>a. Existing \subseteq Existing'
    BY StateStep DEF Existing
  <1>r. \A s \in Sessions : row[s].state = "revoked" => row'[s].state = "revoked"
    BY StateStep
  \* Only a change or a recovery past its first step is concerned.
  <1>b. ASSUME outlawed' = outlawed,
               \A j \in Handlers : handler'[j].op \in {"change", "recover"}
                                  /\ handler'[j].pc \in {"list", "sweep"}
                 => handler'[j] = handler[j]
        PROVE  SweepsInv'
    <2>1. ASSUME NEW j \in Handlers, handler'[j].op \in {"change", "recover"},
                 handler'[j].pc = "list"
          PROVE  handler'[j].existing \subseteq Existing' \ {handler'[j].session}
      BY <1>a, <1>b, <2>1 DEF SweepsInv, SweepsAreComplete
    <2>2. ASSUME NEW j \in Handlers, handler'[j].op \in {"change", "recover"},
                 handler'[j].pc = "sweep", NEW s \in handler'[j].existing
          PROVE  s \in handler'[j].victims \/ row'[s].state = "revoked"
      BY <1>t, <1>r, <1>b, <2>2 DEF SweepsInv, SweepsAreComplete
    <2>3. SweptSessionsStayRevoked'
      BY <1>t, <1>r, <1>b DEF SweepsInv, SweptSessionsStayRevoked
    <2> QED
      BY <2>1, <2>2, <2>3 DEF SweepsInv, SweepsAreComplete
  <1>1. ASSUME NEW k \in Handlers, NEW op \in {"login", "refresh", "reuse", "logout",
               "change", "recover", "connect"}, NEW pc \in {"write", "create"},
               NEW s \in Sessions \union {NoSession}, NEW t \in Nat, NEW pw \in Nat,
               BeginHandler(k, op, pc, s, t, pw), outlawed' = outlawed
        PROVE  SweepsInv'
    <2>1. handler'[k].pc = pc
      BY <1>1 DEF BeginHandler, SessionsTypeOK
    <2>2. \A j \in Handlers : j # k => handler'[j] = handler[j]
      BY <1>1 DEF BeginHandler, SessionsTypeOK
    <2> QED
      BY <1>1, <2>1, <2>2, <1>b
  <1>2. ASSUME NEW k \in Handlers, FinishHandler(k), outlawed' = outlawed
        PROVE  SweepsInv'
    BY <1>2, FinishEffect, <1>b
  <1>3. ASSUME NEW k \in Handlers, SetPassword(k)
        PROVE  SweepsInv'
    <2>1. /\ \A j \in Handlers : j # k => handler'[j] = handler[j]
          /\ handler'[k].pc = "list" /\ handler'[k].session = handler[k].session
          /\ handler'[k].existing = Existing \ {handler[k].session}
          /\ outlawed' = outlawed
      BY <1>3, <1>t DEF SetPassword, SessionsTypeOK, Handler
    <2>2. ASSUME NEW j \in Handlers, handler'[j].op \in {"change", "recover"},
                 handler'[j].pc = "list"
          PROVE  handler'[j].existing \subseteq Existing' \ {handler'[j].session}
      BY <1>a, <2>1, <2>2 DEF SweepsInv, SweepsAreComplete
    <2>3. ASSUME NEW j \in Handlers, handler'[j].op \in {"change", "recover"},
                 handler'[j].pc = "sweep", NEW s \in handler'[j].existing
          PROVE  s \in handler'[j].victims \/ row'[s].state = "revoked"
      BY <1>t, <1>r, <2>1, <2>3 DEF SweepsInv, SweepsAreComplete
    <2>4. SweptSessionsStayRevoked'
      BY <1>t, <1>r, <2>1 DEF SweepsInv, SweptSessionsStayRevoked
    <2> QED
      BY <2>2, <2>3, <2>4 DEF SweepsInv, SweepsAreComplete
  <1>4. ASSUME NEW k \in Handlers, SweepList(k)
        PROVE  SweepsInv'
    <2>1. /\ \A j \in Handlers : j # k => handler'[j] = handler[j]
          /\ handler'[k].pc = "sweep" /\ handler'[k].session = handler[k].session
          /\ handler'[k].existing = handler[k].existing
          /\ handler'[k].victims = Sweepable(k)
          /\ outlawed' = outlawed /\ row' = row
      BY <1>4, <1>t DEF SweepList, SessionsTypeOK, Handler
    <2>2. handler[k].existing \subseteq Existing \ {handler[k].session}
      BY <1>4 DEF SweepList, SweepsInv, SweepsAreComplete
    <2>3. \A s \in Existing : row[s].state \in {"live", "expired", "revoked"}
      BY DEF Existing, SessionsTypeOK, Row
    <2>4. \A s \in handler'[k].existing : s \in handler'[k].victims \/ row'[s].state = "revoked"
      BY <1>t, <2>1, <2>2, <2>3 DEF Sweepable
    <2>5. ASSUME NEW j \in Handlers, handler'[j].op \in {"change", "recover"},
                 handler'[j].pc = "list"
          PROVE  handler'[j].existing \subseteq Existing' \ {handler'[j].session}
      BY <1>a, <2>1, <2>5 DEF SweepsInv, SweepsAreComplete
    <2>6. ASSUME NEW j \in Handlers, handler'[j].op \in {"change", "recover"},
                 handler'[j].pc = "sweep", NEW s \in handler'[j].existing
          PROVE  s \in handler'[j].victims \/ row'[s].state = "revoked"
      BY <2>1, <2>4, <2>6 DEF SweepsInv, SweepsAreComplete
    <2>7. SweptSessionsStayRevoked'
      BY <2>1 DEF SweepsInv, SweptSessionsStayRevoked
    <2> QED
      BY <2>5, <2>6, <2>7 DEF SweepsInv, SweepsAreComplete
  <1>5. ASSUME NEW k \in Handlers, SweepWrite(k)
        PROVE  SweepsInv'
    <2>1. /\ \A j \in Handlers : j # k => handler'[j] = handler[j]
          /\ handler'[k].pc \notin {"list", "sweep"}
      BY <1>5, <1>t DEF SweepWrite, Proceed, FinishHandler, NoHandler, SessionsTypeOK, Handler
    <2>2. \A s \in handler[k].existing : row'[s].state = "revoked"
      <3>1. \A s \in handler[k].victims \cap Sessions : row'[s].state = "revoked"
        BY <1>5 DEF SweepWrite, Revoked, SessionsTypeOK, Row
      <3>2. \A s \in handler[k].existing : s \in handler[k].victims \/ row[s].state = "revoked"
        BY <1>5 DEF SweepWrite, SweepsInv, SweepsAreComplete
      <3> QED
        BY <3>1, <3>2, <1>t, <1>r
    <2>3. outlawed' = outlawed \union handler[k].existing
      BY <1>5 DEF SweepWrite
    <2>4. ASSUME NEW j \in Handlers, handler'[j].op \in {"change", "recover"},
                 handler'[j].pc = "list"
          PROVE  handler'[j].existing \subseteq Existing' \ {handler'[j].session}
      BY <1>a, <2>1, <2>4 DEF SweepsInv, SweepsAreComplete
    <2>5. ASSUME NEW j \in Handlers, handler'[j].op \in {"change", "recover"},
                 handler'[j].pc = "sweep", NEW s \in handler'[j].existing
          PROVE  s \in handler'[j].victims \/ row'[s].state = "revoked"
      BY <1>t, <1>r, <2>1, <2>5 DEF SweepsInv, SweepsAreComplete
    <2>6. SweptSessionsStayRevoked'
      BY <1>t, <1>r, <2>2, <2>3 DEF SweepsInv, SweptSessionsStayRevoked
    <2> QED
      BY <2>4, <2>5, <2>6 DEF SweepsInv, SweepsAreComplete
  <1>6. ASSUME outlawed' = outlawed, handler' = handler
        PROVE  SweepsInv'
    BY <1>6, <1>b
  <1>7. ASSUME NEW k \in Handlers,
               \/ LoginCheck(k) \/ RecoverCheck(k)
               \/ \E s \in Sessions :
                    \/ ChangeCheck(k, s) \/ ConnectCheck(k, s)
                    \/ \E t \in TokenNumbers : RefreshRead(k, s, t) \/ LogoutRead(k, s, t)
        PROVE  SweepsInv'
    <2>1. outlawed' = outlawed
      BY <1>7 DEF LoginCheck, RecoverCheck, ChangeCheck, ConnectCheck,
                  RefreshRead, LogoutRead
    <2>2. password \in Nat /\ \A t \in TokenNumbers : t \in Nat
      BY DEF SessionsTypeOK, PasswordNumbers, TokenNumbers
    <2>3. \E op \in {"login", "refresh", "reuse", "logout", "change", "recover",
                     "connect"}, pc \in {"write", "create"},
             s \in Sessions \union {NoSession}, t \in Nat, pw \in Nat :
            BeginHandler(k, op, pc, s, t, pw)
      BY <1>7, <2>2 DEF LoginCheck, RecoverCheck, ChangeCheck, ConnectCheck,
                        RefreshRead, LogoutRead
    <2> QED
      BY <2>1, <2>3, <1>1
  <1>8. ASSUME NEW k \in Handlers,
               \/ RefreshWrite(k) \/ ReuseRevoke(k) \/ LogoutWrite(k) \/ ConnectJoin(k)
               \/ \E s \in Sessions : Create(k, s)
        PROVE  SweepsInv'
    BY <1>8, <1>2 DEF RefreshWrite, ReuseRevoke, LogoutWrite, ConnectJoin, Create
  <1>9. ASSUME NEW s \in Sessions, ExpireSession(s) \/ Revoke(s) \/ Hangup(s)
        PROVE  SweepsInv'
    BY <1>9, <1>6 DEF ExpireSession, Revoke, Hangup
  <1>10. CASE StoreOnlyHash \/ UNCHANGED sessionVars
    BY <1>10, <1>6 DEF StoreOnlyHash, sessionVars
  <1> QED
    BY <1>3, <1>4, <1>5, <1>7, <1>8, <1>9, <1>10 DEF SessionsNext

(* What a sweep had to revoke is revoked when it ends and for good, for    *)
(* any number of refreshes, logouts and sweeps of the same rows.           *)
THEOREM SweepIsEffective == SessionsSpec => []SweptSessionsStayRevoked
  <1>1. SessionsInit => SessionsTypeOK /\ SweepsInv
    BY SessionsInitHolds DEF SessionsInv, SweepsInv
  <1>2. (SessionsTypeOK /\ SweepsInv) /\ [SessionsNext]_sessionVars => (SessionsTypeOK /\ SweepsInv)'
    BY SessionsTypeStep, SweepsStep
  <1>3. SweepsInv => SweptSessionsStayRevoked
    BY DEF SweepsInv
  <1> QED
    BY <1>1, <1>2, <1>3, PTL DEF SessionsSpec

--------------------------------------------------------------------------------
(***************************************************************************)
(* TwoFactor.                                                              *)
(***************************************************************************)

LEMMA NoCallType == NoCall \in TotpCall /\ SignedOut \in Page
  BY TotpBounds DEF NoCall, TotpCall, SignedOut, Page

(* What the handlers do to the record of a device.                         *)
LEMMA PageUpdate ==
  ASSUME NEW q \in Page, NEW on \in BOOLEAN, NEW b \in BOOLEAN, NEW n \in 0..MaxSecrets
  PROVE  /\ [q EXCEPT !.signedIn = TRUE, !.on = on] \in Page
         /\ [q EXCEPT !.open = TRUE, !.shown = 0, !.loading = FALSE] \in Page
         /\ [q EXCEPT !.open = b] \in Page
         /\ [q EXCEPT !.loading = b] \in Page
         /\ [q EXCEPT !.shown = n] \in Page
         /\ [q EXCEPT !.loading = FALSE, !.on = on] \in Page
         /\ [q EXCEPT !.loading = FALSE, !.on = on, !.shown = n] \in Page
  <1>1. 0 \in 0..MaxSecrets
    BY TotpBounds
  <1> QED
    BY <1>1 DEF Page

LEMMA TotpCallUpdate ==
  ASSUME NEW q \in TotpCall, NEW n \in 0..MaxSecrets, NEW ok \in BOOLEAN,
         NEW pc \in {"sent", "checked", "answered"}
  PROVE  /\ [q EXCEPT !.pc = pc] \in TotpCall
         /\ [q EXCEPT !.pc = pc, !.secret = n] \in TotpCall
         /\ [q EXCEPT !.pc = pc, !.ok = ok] \in TotpCall
  BY DEF TotpCall

LEMMA TotpInitType == TotpInit => TotpTypeOK
  <1> SUFFICES ASSUME TotpInit
               PROVE  TotpTypeOK
    OBVIOUS
  <1>1. 0 \in 0..MaxSecrets
    BY TotpBounds
  <1>2. /\ page \in [Pages -> Page]
        /\ totpCall \in [TotpCalls -> TotpCall]
    BY NoCallType DEF TotpInit
  <1> QED
    BY <1>1, <1>2 DEF TotpInit, TotpTypeOK

LEMMA TotpCallFields ==
  ASSUME TotpTypeOK, NEW k \in TotpCalls
  PROVE  /\ totpCall[k] \in TotpCall /\ totpCall[k].secret \in 0..MaxSecrets
         /\ totpCall[k].from \in Pages \union {NoPage} /\ totpCall[k].ok \in BOOLEAN
  BY DEF TotpTypeOK, TotpCall

LEMMA SentCalls ==
  ASSUME NEW S, NEW op, NEW p, NEW entry, NEW k \in TotpCalls
  PROVE  /\ k \in S => /\ Sent(S, op, p, entry)[k].op = op
                       /\ Sent(S, op, p, entry)[k].pc = "sent"
                       /\ Sent(S, op, p, entry)[k].secret = entry
         /\ k \notin S => Sent(S, op, p, entry)[k] = totpCall[k]
  BY DEF Sent, NoCall

LEMMA SentType ==
  ASSUME TotpTypeOK, NEW S, NEW op \in {"setup", "verify", "disable"},
         NEW p \in Pages \union {NoPage}, NEW entry \in 0..MaxSecrets
  PROVE  Sent(S, op, p, entry) \in [TotpCalls -> TotpCall]
  BY DEF TotpTypeOK, Sent, NoCall, TotpCall

LEMMA TotpTypeStep == TotpTypeOK /\ [TotpNext]_totpVars => TotpTypeOK'
  <1> SUFFICES ASSUME TotpTypeOK, [TotpNext]_totpVars
               PROVE  TotpTypeOK'
    OBVIOUS
  <1>0. /\ \A p \in Pages : /\ page[p] \in Page /\ page[p].on \in BOOLEAN
                            /\ page[p].signedIn \in BOOLEAN
                            /\ page[p].shown \in 0..MaxSecrets
        /\ page \in [Pages -> Page] /\ totpCall \in [TotpCalls -> TotpCall]
        /\ 0 \in 0..MaxSecrets
    BY TotpBounds DEF TotpTypeOK, Page
  <1>1. CASE UNCHANGED totpVars
    BY <1>1 DEF totpVars, TotpTypeOK
  <1>2. CASE Recovered
    BY <1>0, <1>2 DEF Recovered, FlagAfterRecovery, TotpTypeOK
  <1>3. ASSUME NEW p \in Pages, SignIn(p) \/ SignOut(p) \/ ClosePage(p) \/ Scan(p)
        PROVE  TotpTypeOK'
    <2>1. page' \in [Pages -> Page]
      <3>1. CASE SignIn(p)
        <4>1. [SignedOut EXCEPT !.signedIn = TRUE, !.on = totpEnabled] \in Page
          BY NoCallType, PageUpdate DEF TotpTypeOK
        <4> QED
          BY <1>0, <3>1, <4>1 DEF SignIn
      <3>2. CASE SignOut(p)
        BY <1>0, <3>2, NoCallType DEF SignOut
      <3>3. CASE ClosePage(p)
        <4>1. [page[p] EXCEPT !.open = FALSE] \in Page
          BY <1>0, PageUpdate
        <4> QED
          BY <1>0, <3>3, <4>1 DEF ClosePage
      <3>4. CASE Scan(p)
        BY <1>0, <3>4 DEF Scan
      <3> QED
        BY <1>3, <3>1, <3>2, <3>3, <3>4
    <2>2. app' \subseteq 1..MaxSecrets
      BY <1>0, <1>3 DEF SignIn, SignOut, ClosePage, Scan, TotpTypeOK
    <2> QED
      BY <1>3, <2>1, <2>2 DEF SignIn, SignOut, ClosePage, Scan, TotpTypeOK
  <1>4. ASSUME NEW p \in Pages, OpenPage(p)
        PROVE  TotpTypeOK'
    <2>1. page' \in [Pages -> Page]
      BY <1>0, <1>4, PageUpdate DEF OpenPage
    <2>2. totpCall' \in [TotpCalls -> TotpCall]
      <3>1. \A k \in FreeCalls : Sent({k}, "setup", p, 0) \in [TotpCalls -> TotpCall]
        BY <1>0, SentType
      <3> QED
        BY <1>0, <1>4, <3>1 DEF OpenPage
    <2> QED
      BY <1>4, <2>1, <2>2 DEF OpenPage, TotpTypeOK
  <1>5. ASSUME NEW p \in Pages, NEW op \in {"verify", "disable"}, Submit(p, op)
        PROVE  TotpTypeOK'
    <2>1. page' \in [Pages -> Page]
      BY <1>0, <1>5, PageUpdate DEF Submit
    <2>2. totpCall' \in [TotpCalls -> TotpCall]
      <3>1. PICK k \in FreeCalls, entry \in app : totpCall' = Sent({k}, op, p, entry)
        BY <1>5 DEF Submit
      <3>2. {k} \in SUBSET TotpCalls /\ entry \in 0..MaxSecrets
        BY TotpBounds DEF FreeCalls, TotpTypeOK
      <3> QED
        BY <3>1, <3>2, SentType
    <2> QED
      BY <1>5, <2>1, <2>2 DEF Submit, TotpTypeOK
  <1>6. ASSUME NEW k \in TotpCalls, setup2FA(k)
        PROVE  TotpTypeOK'
    <2>1. secrets + 1 \in 0..MaxSecrets
      BY <1>6, TotpBounds DEF setup2FA, TotpTypeOK
    <2>2. totpCall' \in [TotpCalls -> TotpCall]
      BY <1>0, <1>6, <2>1, TotpCallUpdate DEF setup2FA
    <2> QED
      BY <1>6, <2>1, <2>2 DEF setup2FA, TotpTypeOK
  <1>7. ASSUME NEW k \in TotpCalls, Check(k) \/ verify2FA(k) \/ disable2FA(k)
        PROVE  TotpTypeOK'
    <2>1. totpCall' \in [TotpCalls -> TotpCall]
      <3>1. Valid(totpCall[k].secret) \in BOOLEAN
        BY DEF Valid
      <3>2. /\ [totpCall[k] EXCEPT !.pc = "answered"] \in TotpCall
            /\ \A ok \in BOOLEAN, pc \in {"checked", "answered"} :
                 [totpCall[k] EXCEPT !.pc = pc, !.ok = ok] \in TotpCall
        BY <1>0, TotpCallUpdate, TotpBounds
      <3> QED
        BY <1>0, <1>7, <3>1, <3>2 DEF Check, verify2FA, disable2FA
    <2> QED
      BY <1>0, <1>7, <2>1 DEF Check, verify2FA, disable2FA, TotpTypeOK
  <1>8. ASSUME NEW k \in TotpCalls,
               SetupAnswered(k) \/ VerifyAnswered(k) \/ DisableAnswered(k)
        PROVE  TotpTypeOK'
    <2> DEFINE p == totpCall[k].from
               ok == totpCall[k].ok
    <2>1. page' \in [Pages -> Page]
      <3>1. ASSUME p \in Pages
            PROVE  /\ [page[p] EXCEPT !.shown = totpCall[k].secret] \in Page
                   /\ \A on \in BOOLEAN :
                        /\ [page[p] EXCEPT !.loading = FALSE, !.on = on] \in Page
                        /\ \A n \in 0..MaxSecrets :
                             [page[p] EXCEPT !.loading = FALSE, !.on = on, !.shown = n]
                               \in Page
        BY <1>0, <3>1, TotpCallFields, PageUpdate
      <3>2. CASE p \notin Pages
        BY <1>0, <1>8, <3>2 DEF SetupAnswered, VerifyAnswered, DisableAnswered
      <3>3. CASE p \in Pages /\ SetupAnswered(k)
        BY <1>0, <3>1, <3>3 DEF SetupAnswered
      <3>4. CASE p \in Pages /\ DisableAnswered(k)
        BY <1>0, <3>1, <3>4 DEF DisableAnswered
      <3>5. CASE p \in Pages /\ VerifyAnswered(k)
        <4>1. (IF ok THEN 0 ELSE page[p].shown) \in 0..MaxSecrets
          BY <1>0, <3>5
        <4> QED
          BY <1>0, <3>1, <3>5, <4>1 DEF VerifyAnswered
      <3> QED
        BY <1>8, <3>2, <3>3, <3>4, <3>5
    <2>2. totpCall' \in [TotpCalls -> TotpCall]
      <3>1. p \in Pages \union {NoPage}
        BY TotpCallFields
      <3>2. \A l : Sent({k, l}, "setup", p, 0) \in [TotpCalls -> TotpCall]
        BY <1>0, <3>1, SentType
      <3>3. \/ totpCall' = [totpCall EXCEPT ![k] = NoCall]
            \/ \E l : totpCall' = Sent({k, l}, "setup", p, 0)
        BY <1>8 DEF SetupAnswered, VerifyAnswered, DisableAnswered
      <3> QED
        BY <1>0, <3>2, <3>3, NoCallType
    <2> QED
      BY <1>8, <2>1, <2>2 DEF SetupAnswered, VerifyAnswered, DisableAnswered, TotpTypeOK
  <1> QED
    BY <1>1, <1>2, <1>3, <1>4, <1>5, <1>6, <1>7, <1>8 DEF TotpNext

(* A write while another call is between its read and its write is noted;  *)
(* the app never loses a secret.                                           *)
LEMMA CodesStep ==
  ASSUME TotpTypeOK, TotpTypeOK', CodesAreTheApps, [TotpNext]_totpVars
  PROVE  CodesAreTheApps'
  <1> SUFFICES ASSUME NEW k \in TotpCalls
               PROVE  /\ totpCall'[k].op \in {"verify", "disable"}
                           => totpCall'[k].secret \in app'
                      /\ Is(k, "verify", "checked")'
                           => crossed' \/ totpSecret' = totpCall'[k].secret
    BY DEF CodesAreTheApps
  <1>0. /\ app \subseteq app' /\ (crossed => crossed')
        /\ totpCall \in [TotpCalls -> TotpCall]
        /\ totpCall[k].op \in {"verify", "disable"} => totpCall[k].secret \in app
        /\ Is(k, "verify", "checked") => crossed \/ totpSecret = totpCall[k].secret
    BY DEF TotpTypeOK, CodesAreTheApps, TotpNext, totpVars, Recovered, SignIn, SignOut,
           OpenPage, ClosePage, Scan, Submit, setup2FA, Check, verify2FA, disable2FA,
           SetupAnswered, VerifyAnswered, DisableAnswered
  <1>1. CASE /\ totpCall'[k] = totpCall[k] \/ totpCall'[k].op \in {"none", "setup"}
             /\ totpSecret' = totpSecret
    BY <1>0, <1>1 DEF Is
  <1>2. ASSUME NEW o \in TotpCalls, setup2FA(o) \/ disable2FA(o)
        PROVE  /\ totpCall'[k].op \in {"verify", "disable"}
                    => totpCall'[k].secret \in app'
               /\ Is(k, "verify", "checked")'
                    => crossed' \/ totpSecret' = totpCall'[k].secret
    <2>1. CASE k = o
      <3>2. CASE setup2FA(o)
        <4>1. totpCall'[k].op = "setup"
          BY <1>0, <2>1, <3>2 DEF setup2FA, Is
        <4> QED
          BY <4>1 DEF Is
      <3>3. CASE disable2FA(o)
        <4>1. /\ totpCall'[k].op = "disable" /\ totpCall[k].op = "disable"
              /\ totpCall'[k].secret = totpCall[k].secret /\ app' = app
          BY <1>0, <2>1, <3>3 DEF disable2FA, Is
        <4> QED
          BY <1>0, <4>1 DEF Is
      <3> QED
        BY <1>2, <3>2, <3>3
    <2>2. CASE k # o
      <3>1. totpCall'[k] = totpCall[k] /\ app' = app
        BY <1>0, <1>2, <2>2 DEF setup2FA, disable2FA
      <3>2. Is(k, "verify", "checked") => crossed'
        BY <1>2, <2>2 DEF setup2FA, disable2FA, BetweenReadAndWrite, Is
      <3> QED
        BY <1>0, <3>1, <3>2 DEF Is
    <2> QED
      BY <2>1, <2>2
  <1>3. ASSUME Recovered
        PROVE  /\ totpCall'[k].op \in {"verify", "disable"}
                    => totpCall'[k].secret \in app'
               /\ Is(k, "verify", "checked")'
                    => crossed' \/ totpSecret' = totpCall'[k].secret
    BY <1>0, <1>3 DEF Recovered, Is
  <1>4. ASSUME NEW o \in TotpCalls, Check(o) \/ verify2FA(o)
        PROVE  /\ totpCall'[k].op \in {"verify", "disable"}
                    => totpCall'[k].secret \in app'
               /\ Is(k, "verify", "checked")'
                    => crossed' \/ totpSecret' = totpCall'[k].secret
    <2>1. totpSecret' = totpSecret /\ app' = app
      BY <1>4 DEF Check, verify2FA
    <2>2. CASE k = o /\ Check(o)
      <3>1. /\ totpCall'[k].op = totpCall[k].op
            /\ totpCall'[k].secret = totpCall[k].secret
            /\ totpCall'[k].pc = "checked" => Valid(totpCall[k].secret)
        BY <1>0, <2>2 DEF Check
      <3> QED
        BY <1>0, <2>1, <3>1 DEF Is, Valid
    <2>4. CASE k = o /\ verify2FA(o)
      <3>1. /\ totpCall'[k].op = totpCall[k].op
            /\ totpCall'[k].secret = totpCall[k].secret
            /\ totpCall'[k].pc = "answered"
        BY <1>0, <2>4 DEF verify2FA
      <3> QED
        BY <1>0, <2>1, <3>1 DEF Is
    <2>3. CASE k # o
      BY <1>0, <1>1, <1>4, <2>1, <2>3 DEF Check, verify2FA
    <2> QED
      BY <1>4, <2>2, <2>3, <2>4
  <1>5. ASSUME NEW p \in Pages, NEW op \in {"verify", "disable"}, Submit(p, op)
        PROVE  /\ totpCall'[k].op \in {"verify", "disable"}
                    => totpCall'[k].secret \in app'
               /\ Is(k, "verify", "checked")'
                    => crossed' \/ totpSecret' = totpCall'[k].secret
    <2>1. PICK o \in FreeCalls, entry \in app : totpCall' = Sent({o}, op, p, entry)
      BY <1>5 DEF Submit
    <2>2. o \in TotpCalls /\ entry \in 0..MaxSecrets
      BY DEF FreeCalls, TotpTypeOK
    <2>3. CASE k = o
      <3>1. totpCall'[k].secret = entry /\ totpCall'[k].pc = "sent"
        BY <2>1, <2>3, SentCalls
      <3> QED
        BY <1>0, <3>1 DEF Is
    <2>4. CASE k # o
      <3>1. totpCall'[k] = totpCall[k]
        BY <2>1, <2>4, SentCalls
      <3> QED
        BY <1>1, <1>5, <3>1 DEF Submit
    <2> QED
      BY <2>3, <2>4
  <1>6. ASSUME NEW p \in Pages, OpenPage(p)
        PROVE  /\ totpCall'[k].op \in {"verify", "disable"}
                    => totpCall'[k].secret \in app'
               /\ Is(k, "verify", "checked")'
                    => crossed' \/ totpSecret' = totpCall'[k].secret
    <2>1. totpCall' = totpCall \/ \E o : totpCall' = Sent({o}, "setup", p, 0)
      BY <1>6 DEF OpenPage
    <2>2. ASSUME NEW o, totpCall' = Sent({o}, "setup", p, 0)
          PROVE  totpCall'[k] = totpCall[k] \/ totpCall'[k].op = "setup"
      BY <2>2 DEF Sent, NoCall
    <2> QED
      BY <1>1, <1>6, <2>1, <2>2 DEF OpenPage
  <1>7. ASSUME NEW o \in TotpCalls,
               SetupAnswered(o) \/ VerifyAnswered(o) \/ DisableAnswered(o)
        PROVE  /\ totpCall'[k].op \in {"verify", "disable"}
                    => totpCall'[k].secret \in app'
               /\ Is(k, "verify", "checked")'
                    => crossed' \/ totpSecret' = totpCall'[k].secret
    <2>1. totpSecret' = totpSecret
      BY <1>7 DEF SetupAnswered, VerifyAnswered, DisableAnswered
    <2>2. \/ totpCall' = [totpCall EXCEPT ![o] = NoCall]
          \/ \E l, p : totpCall' = Sent({o, l}, "setup", p, 0)
      BY <1>7 DEF SetupAnswered, VerifyAnswered, DisableAnswered
    <2>3. totpCall'[k] = totpCall[k] \/ totpCall'[k].op \in {"none", "setup"}
      <3>1. CASE totpCall' = [totpCall EXCEPT ![o] = NoCall]
        BY <1>0, <3>1 DEF NoCall
      <3>2. CASE \E l, p : totpCall' = Sent({o, l}, "setup", p, 0)
        BY <3>2, SentCalls
      <3> QED
        BY <2>2, <3>1, <3>2
    <2> QED
      BY <1>1, <2>1, <2>3
  <1>8. CASE UNCHANGED totpVars
    BY <1>1, <1>8 DEF totpVars
  <1>9. ASSUME NEW p \in Pages, SignIn(p) \/ SignOut(p) \/ ClosePage(p) \/ Scan(p)
        PROVE  totpCall' = totpCall /\ totpSecret' = totpSecret
    BY <1>9 DEF SignIn, SignOut, ClosePage, Scan
  <1> QED
    BY <1>1, <1>2, <1>3, <1>4, <1>5, <1>6, <1>7, <1>8, <1>9 DEF TotpNext

LEMMA AppStep ==
  ASSUME TotpTypeOK, CodesAreTheApps, AppOpensAccount, [TotpNext]_totpVars
  PROVE  AppOpensAccount'
  <1>0. /\ app \subseteq app' /\ (crossed => crossed') /\ (replaced => replaced')
        /\ totpCall \in [TotpCalls -> TotpCall]
    BY DEF TotpTypeOK, TotpNext, totpVars, Recovered, SignIn, SignOut,
           OpenPage, ClosePage, Scan, Submit, setup2FA, Check, verify2FA, disable2FA,
           SetupAnswered, VerifyAnswered, DisableAnswered
  <1>1. CASE (totpEnabled' => totpEnabled) /\ totpSecret' = totpSecret
    BY <1>0, <1>1 DEF AppOpensAccount
  <1>2. ASSUME NEW k \in TotpCalls, setup2FA(k)
        PROVE  AppOpensAccount'
    BY <1>2 DEF setup2FA, AppOpensAccount
  <1>3. ASSUME NEW k \in TotpCalls, verify2FA(k)
        PROVE  AppOpensAccount'
    <2>1. totpSecret' = totpSecret /\ (crossed \/ totpSecret \in app)
      BY <1>3 DEF verify2FA, Is, CodesAreTheApps
    <2> QED
      BY <1>0, <2>1 DEF AppOpensAccount
  <1>4. CASE Recovered \/ \E k \in TotpCalls : disable2FA(k)
    <2>1. totpEnabled' = FALSE
      BY <1>4 DEF Recovered, FlagAfterRecovery, disable2FA
    <2> QED
      BY <2>1 DEF AppOpensAccount
  <1>5. CASE \/ UNCHANGED totpVars
             \/ \E p \in Pages :
                  \/ SignIn(p) \/ SignOut(p) \/ OpenPage(p) \/ ClosePage(p) \/ Scan(p)
                  \/ Submit(p, "verify") \/ Submit(p, "disable")
             \/ \E k \in TotpCalls : Check(k) \/ SetupAnswered(k) \/ VerifyAnswered(k)
                                     \/ DisableAnswered(k)
    <2>1. totpEnabled' = totpEnabled /\ totpSecret' = totpSecret
      BY <1>5
         DEF totpVars, SignIn, SignOut, OpenPage, ClosePage, Scan, Submit, Check,
             SetupAnswered, VerifyAnswered, DisableAnswered
    <2> QED
      BY <1>1, <2>1
  <1> QED
    BY <1>2, <1>3, <1>4, <1>5 DEF TotpNext

(* Whoever turned the second factor on keeps a secret in the app that the  *)
(* server accepts: verify2FA, disable2FA and the recoveries, in any order, *)
(* except for a secret set up over an enabled one and for crossed writes.  *)
THEOREM AppIsEnough == TotpSpec => []TotpInv /\ []AppOpensAccount
  <1>1. TotpInit => TotpInv
    BY TotpInitType
       DEF TotpInit, TotpInv, CodesAreTheApps, AppOpensAccount, NoCall, Is
  <1>2. TotpInv /\ [TotpNext]_totpVars => TotpInv'
    BY TotpTypeStep, CodesStep, AppStep DEF TotpInv
  <1>3. TotpInv => AppOpensAccount
    BY DEF TotpInv
  <1> QED
    BY <1>1, <1>2, <1>3, PTL DEF TotpSpec

--------------------------------------------------------------------------------
(***************************************************************************)
(* Passkeys.                                                               *)
(***************************************************************************)

(***************************************************************************)
(* Types.                                                                  *)
(***************************************************************************)

LEMMA ZeroChallenge == 0 \in Challenge /\ 0 \in 0..MaxCounter /\ 1 \in Challenge
  BY PasskeyBounds DEF Challenge

LEMMA EmptyRecords == NoCredential \in Credential /\ NoCeremony \in Ceremony
  BY ZeroChallenge DEF NoCredential, Credential, NoCeremony, Ceremony

LEMMA PasskeyFields ==
  ASSUME PasskeysTypeOK
  PROVE  /\ \A p \in Passkeys :
              /\ key[p] \in Key /\ key[p].made \in BOOLEAN /\ key[p].counts \in BOOLEAN
              /\ key[p].counter \in 0..MaxCounter /\ key[p].counter \in Nat
              /\ credential[p] \in Credential
              /\ credential[p].counter \in Nat /\ credential[p].wrap \in Challenge
         /\ \A c \in Ceremonies :
              /\ ceremony[c] \in Ceremony
              /\ ceremony[c].passkey \in Passkeys \union {NoPasskey}
              /\ ceremony[c].counter \in 0..MaxCounter /\ ceremony[c].counter \in Nat
              /\ ceremony[c].wrap \in Challenge /\ ceremony[c].challenge \in Challenge
  BY PasskeyBounds DEF PasskeysTypeOK, Key, Credential, Ceremony

LEMMA CeremonyUpdate ==
  ASSUME NEW q \in Ceremony, NEW p \in Passkeys, NEW w \in Challenge,
         NEW n \in 0..MaxCounter, NEW pc \in {"options", "signed", "sent", "accepted"},
         NEW op \in {"none", "register", "login", "recover"}
  PROVE  /\ [q EXCEPT !.pc = pc] \in Ceremony
         /\ [q EXCEPT !.pc = pc, !.wrap = w] \in Ceremony
         /\ [q EXCEPT !.pc = pc, !.passkey = p, !.counter = n, !.wrap = w] \in Ceremony
         /\ [q EXCEPT !.pc = pc, !.passkey = p, !.counter = n] \in Ceremony
         /\ [q EXCEPT !.op = op, !.challenge = w] \in Ceremony
  BY DEF Ceremony

LEMMA KeyUpdate ==
  ASSUME NEW q \in Key, NEW n \in 0..MaxCounter
  PROVE  /\ [q EXCEPT !.made = TRUE, !.counter = n] \in Key
         /\ [q EXCEPT !.counter = n] \in Key
  BY DEF Key

(* One more use of a passkey that allows it.                               *)
LEMMA UsedType ==
  ASSUME PasskeysTypeOK, NEW p \in Passkeys
  PROVE  /\ Used(p, 1) \in Nat
         /\ key[p].counts => Used(p, 1) = key[p].counter + 1
         /\ ~key[p].counts => Used(p, 1) = 0
         /\ CanUse(p, 1) => key[p].made /\ Used(p, 1) \in 0..MaxCounter
  BY PasskeyFields, PasskeyBounds DEF Used, CanUse

(* What a registration signs.                                              *)
LEMMA RegistrationEffect ==
  ASSUME PasskeysTypeOK, CountersAhead,
         NEW c \in Ceremonies, NEW p \in Passkeys, SignRegistration(c, p)
  PROVE  /\ ceremony' \in [Ceremonies -> Ceremony]
         /\ ceremony'[c].op = "register" /\ ceremony'[c].passkey = p
         /\ ceremony'[c].challenge = ceremony[c].challenge
         /\ ceremony'[c].wrap \in {0, ceremony[c].challenge}
         /\ \A e \in Ceremonies \ {c} : ceremony'[e] = ceremony[e]
         /\ key' \in [Passkeys -> Key]
         /\ key'[p].made /\ key'[p].counts = key[p].counts
         /\ ceremony'[c].counter <= key'[p].counter
         /\ ~key[p].counts => key'[p].counter = 0
         /\ \A q \in Passkeys \ {p} : key'[q] = key[q]
  <1>0. /\ key \in [Passkeys -> Key] /\ ceremony \in [Ceremonies -> Ceremony]
        /\ ceremony[c] \in Ceremony /\ ceremony[c].op = "register"
    BY DEF PasskeysTypeOK, SignRegistration, CeremonyAt
  <1> DEFINE Signs(n, m, w) ==
        /\ m <= MaxCounter
        /\ key' = [key EXCEPT ![p] = [key[p] EXCEPT !.made = TRUE, !.counter = m]]
        /\ ceremony' = [ceremony EXCEPT ![c] = [ceremony[c] EXCEPT
             !.pc = "signed", !.passkey = p, !.counter = n, !.wrap = w]]
  <1>1. \E first, more \in 0..1, w \in {0, ceremony[c].challenge} :
          Signs(Used(p, first), Used(p, first + more), w)
    BY DEF SignRegistration
  <1>2. key[p].counter = 0
    BY DEF SignRegistration, CountersAhead, Ahead
  <1>3. ASSUME NEW first \in 0..1, NEW more \in 0..1,
               Used(p, first + more) <= MaxCounter
        PROVE  /\ Used(p, first) \in 0..MaxCounter
               /\ Used(p, first + more) \in 0..MaxCounter
               /\ Used(p, first) <= Used(p, first + more)
               /\ ~key[p].counts => Used(p, first + more) = 0
    <2>1. CASE key[p].counts
      BY <1>2, <1>3, <2>1, PasskeyBounds DEF Used
    <2>2. CASE ~key[p].counts
      BY <1>3, <2>2, PasskeyBounds DEF Used
    <2> QED
      BY <2>1, <2>2
  <1>4. \E n, m \in 0..MaxCounter, w \in {0, ceremony[c].challenge} :
          n <= m /\ (~key[p].counts => m = 0) /\ Signs(n, m, w)
    <2>1. ASSUME NEW first \in 0..1, NEW more \in 0..1,
                 NEW w \in {0, ceremony[c].challenge},
                 Signs(Used(p, first), Used(p, first + more), w)
          PROVE  \E n, m \in 0..MaxCounter, v \in {0, ceremony[c].challenge} :
                   n <= m /\ (~key[p].counts => m = 0) /\ Signs(n, m, v)
      <3>1. Used(p, first + more) <= MaxCounter
        BY <2>1
      <3> HIDE DEF Signs
      <3> QED
        BY <1>3, <2>1, <3>1
    <2> HIDE DEF Signs
    <2> QED
      BY <1>1, <2>1
  <1>5. ASSUME NEW n \in 0..MaxCounter, NEW m \in 0..MaxCounter,
               NEW w \in {0, ceremony[c].challenge},
               n <= m, ~key[p].counts => m = 0, Signs(n, m, w)
        PROVE  /\ ceremony' \in [Ceremonies -> Ceremony]
               /\ ceremony'[c].op = "register" /\ ceremony'[c].passkey = p
               /\ ceremony'[c].challenge = ceremony[c].challenge
               /\ ceremony'[c].wrap \in {0, ceremony[c].challenge}
               /\ \A e \in Ceremonies \ {c} : ceremony'[e] = ceremony[e]
               /\ key' \in [Passkeys -> Key]
               /\ key'[p].made /\ key'[p].counts = key[p].counts
               /\ ceremony'[c].counter <= key'[p].counter
               /\ ~key[p].counts => key'[p].counter = 0
               /\ \A q \in Passkeys \ {p} : key'[q] = key[q]
    <2>1. w \in Challenge
      BY PasskeyFields, ZeroChallenge
    <2>2. [ceremony[c] EXCEPT !.pc = "signed", !.passkey = p, !.counter = n, !.wrap = w]
            \in Ceremony
      BY <1>0, <2>1, CeremonyUpdate
    <2>3. ceremony'[c] = [ceremony[c] EXCEPT !.pc = "signed", !.passkey = p,
                                             !.counter = n, !.wrap = w]
      BY <1>0, <1>5
    <2>4. /\ ceremony'[c].op = "register" /\ ceremony'[c].passkey = p
          /\ ceremony'[c].challenge = ceremony[c].challenge
          /\ ceremony'[c].wrap = w /\ ceremony'[c].counter = n
      BY <1>0, <2>3 DEF Ceremony
    <2>5. [key[p] EXCEPT !.made = TRUE, !.counter = m] \in Key
      BY <1>0, KeyUpdate
    <2>6. key'[p].made /\ key'[p].counts = key[p].counts /\ key'[p].counter = m
      BY <1>0, <1>5, <2>5 DEF Key
    <2>7. /\ ceremony' \in [Ceremonies -> Ceremony]
          /\ \A e \in Ceremonies \ {c} : ceremony'[e] = ceremony[e]
      BY <1>0, <1>5, <2>2
    <2>8. /\ key' \in [Passkeys -> Key]
          /\ \A q \in Passkeys \ {p} : key'[q] = key[q]
      BY <1>0, <1>5, <2>5
    <2> HIDE DEF Signs
    <2> QED
      BY <1>5, <2>4, <2>6, <2>7, <2>8
  <1> HIDE DEF Signs
  <1> QED
    BY <1>4, <1>5

LEMMA PasskeysInitHolds == PasskeysInit => PasskeysInv
  <1> SUFFICES ASSUME PasskeysInit
               PROVE  PasskeysInv
    OBVIOUS
  <1>1. /\ credential \in [Passkeys -> Credential]
        /\ ceremony \in [Ceremonies -> Ceremony]
    BY EmptyRecords DEF PasskeysInit
  <1>2. key \in [Passkeys -> Key] /\ \A p \in Passkeys : key[p].counter = 0
    <2>1. PICK f \in [Passkeys -> [made : {FALSE}, counts : BOOLEAN, prf : BOOLEAN,
                                   counter : {0}]] : key = f
      BY DEF PasskeysInit
    <2>2. \A p \in Passkeys : key[p] \in Key /\ key[p].counter = 0
      BY <2>1, ZeroChallenge DEF Key
    <2> QED
      BY <2>1, <2>2
  <1>3. PasskeysTypeOK
    BY <1>1, <1>2, ZeroChallenge DEF PasskeysInit, PasskeysTypeOK
  <1>4. \A p \in Passkeys : Signed(p) = {}
    BY DEF PasskeysInit, Signed, NoCeremony
  <1>5. CountersAhead
    <2>0. credential = [p \in Passkeys |-> NoCredential]
      BY DEF PasskeysInit
    <2>1. \A p \in Passkeys : credential[p].counter = 0
      BY <2>0 DEF NoCredential
    <2> SUFFICES ASSUME NEW p \in Passkeys
                 PROVE  Ahead(p)
      BY DEF CountersAhead
    <2>2. credential[p].counter <= key[p].counter /\ key[p].counter = 0
      BY <1>2, <2>1
    <2> QED
      BY <1>4, <2>2 DEF Ahead
  <1>6. CeremoniesWellFormed /\ WrapFitsSalt /\ OnlyRacesLookCloned
        /\ RegistrationsFirst
    BY DEF PasskeysInit, NoCeremony, NoCredential, CeremoniesWellFormed, WrapFitsSalt,
           OnlyRacesLookCloned, RegistrationsFirst, Registering, CeremonyAt
  <1> QED
    BY <1>3, <1>5, <1>6 DEF PasskeysInv

LEMMA PasskeysTypeStep ==
  ASSUME PasskeysTypeOK, CeremoniesWellFormed, CountersAhead,
         [PasskeysNext]_passkeyVars
  PROVE  PasskeysTypeOK'
  <1>0. /\ key \in [Passkeys -> Key] /\ credential \in [Passkeys -> Credential]
        /\ ceremony \in [Ceremonies -> Ceremony]
        /\ stash \in Challenge /\ challenges \subseteq 1..MaxChallenges
        /\ generated \in Challenge /\ generated \in Nat
        /\ suspected \subseteq Passkeys /\ together \subseteq Passkeys
    BY PasskeyBounds DEF PasskeysTypeOK, Challenge
  <1>1. CASE UNCHANGED passkeyVars \/ ChallengeExpires
    BY <1>0, <1>1, ZeroChallenge DEF passkeyVars, ChallengeExpires, PasskeysTypeOK
  <1>2. ASSUME NEW p \in Passkeys, DeleteCredential(p)
        PROVE  PasskeysTypeOK'
    BY <1>0, <1>2, EmptyRecords DEF DeleteCredential, PasskeysTypeOK
  <1>3. ASSUME NEW c \in Ceremonies,
               RegisterOptions(c) \/ \E op \in {"login", "recover"} : AssertOptions(c, op)
        PROVE  PasskeysTypeOK'
    <2>1. generated + 1 \in Challenge /\ generated + 1 \in 1..MaxChallenges
      BY <1>0, <1>3, PasskeyBounds DEF RegisterOptions, AssertOptions, Challenge
    <2>2. \A op \in {"register", "login", "recover"} :
            [NoCeremony EXCEPT !.op = op, !.challenge = generated + 1] \in Ceremony
      <3> SUFFICES ASSUME NEW op \in {"register", "login", "recover"}
                   PROVE  [NoCeremony EXCEPT !.op = op, !.challenge = generated + 1]
                            \in Ceremony
        OBVIOUS
      <3> QED
        BY <2>1, EmptyRecords DEF Ceremony, NoCeremony
    <2>3. ceremony' \in [Ceremonies -> Ceremony]
      BY <1>0, <1>3, <2>2 DEF RegisterOptions, AssertOptions
    <2> QED
      BY <1>0, <1>3, <2>1, <2>3 DEF RegisterOptions, AssertOptions, PasskeysTypeOK
  <1>4. ASSUME NEW c \in Ceremonies, NEW p \in Passkeys, SignRegistration(c, p)
        PROVE  PasskeysTypeOK'
    <2>1. key' \in [Passkeys -> Key] /\ ceremony' \in [Ceremonies -> Ceremony]
      BY <1>4, RegistrationEffect
    <2> QED
      BY <1>0, <1>4, <2>1 DEF SignRegistration, PasskeysTypeOK
  <1>5. ASSUME NEW c \in Ceremonies, RegisterVerify(c)
        PROVE  PasskeysTypeOK'
    <2>1. [stored |-> TRUE, counter |-> ceremony[c].counter, salt |-> stash,
           wrap |-> ceremony[c].wrap] \in Credential
      BY <1>0, PasskeyFields, ZeroChallenge DEF Credential
    <2> QED
      BY <1>0, <1>5, <2>1, EmptyRecords, ZeroChallenge DEF RegisterVerify, Over, PasskeysTypeOK
  <1>6. ASSUME NEW c \in Ceremonies, NEW p \in Passkeys, SignAssertion(c, p)
        PROVE  PasskeysTypeOK'
    <2>1. Used(p, 1) \in 0..MaxCounter
      BY <1>6, UsedType DEF SignAssertion
    <2>2. key' \in [Passkeys -> Key]
      BY <1>0, <1>6, <2>1, KeyUpdate DEF SignAssertion
    <2>3. ceremony' \in [Ceremonies -> Ceremony]
      BY <1>0, <1>6, <2>1, CeremonyUpdate DEF SignAssertion
    <2> QED
      BY <1>0, <1>6, <2>2, <2>3 DEF SignAssertion, PasskeysTypeOK
  <1>7. ASSUME NEW c \in Ceremonies, assertCredential(c)
        PROVE  PasskeysTypeOK'
    <2>1. ceremony[c].passkey \in Passkeys
      BY <1>7 DEF assertCredential, Asserting, CeremoniesWellFormed
    <2>2. ceremony' \in [Ceremonies -> Ceremony]
      <3>1. [ceremony[c] EXCEPT !.pc = "sent", !.wrap = credential[ceremony[c].passkey].wrap]
              \in Ceremony
        BY <1>0, <2>1, PasskeyFields, CeremonyUpdate, ZeroChallenge
      <3> QED
        BY <1>0, <1>7, <3>1, EmptyRecords DEF assertCredential, Over
    <2> QED
      BY <1>0, <1>7, <2>1, <2>2 DEF assertCredential, PasskeysTypeOK
  <1>8. ASSUME NEW c \in Ceremonies, StoreCounter(c)
        PROVE  PasskeysTypeOK'
    <2>1. credential' \in [Passkeys -> Credential]
      <3> DEFINE p == ceremony[c].passkey
      <3>1. CASE credential' = credential
        BY <1>0, <3>1
      <3>2. CASE p \in Passkeys
                 /\ credential' = [credential EXCEPT ![p] =
                      [credential[p] EXCEPT !.counter = ceremony[c].counter]]
        <4>1. [credential[p] EXCEPT !.counter = ceremony[c].counter] \in Credential
          BY <3>2, PasskeyFields DEF Credential
        <4> QED
          BY <1>0, <3>2, <4>1
      <3> QED
        BY <1>0, <1>8, <3>1, <3>2 DEF StoreCounter
    <2>2. ceremony' \in [Ceremonies -> Ceremony]
      <3>1. [ceremony[c] EXCEPT !.pc = "accepted"] \in Ceremony
        BY <1>0 DEF Ceremony
      <3> QED
        BY <1>0, <1>8, <3>1, EmptyRecords DEF StoreCounter, Over
    <2> QED
      BY <1>0, <1>8, <2>1, <2>2 DEF StoreCounter, PasskeysTypeOK
  <1>9. ASSUME NEW c \in Ceremonies, Unlock(c)
        PROVE  PasskeysTypeOK'
    <2>1. key' \in [Passkeys -> Key]
      <3>1. CASE key' = key
        BY <1>0, <3>1
      <3>2. CASE key' # key
        <4> DEFINE p == ceremony[c].passkey
        <4>1. key' = [key EXCEPT ![p].counter = Used(p, 1)] /\ CanUse(p, 1)
          BY <1>9, <3>2 DEF Unlock
        <4>2. CASE p \in Passkeys
          BY <1>0, <4>1, <4>2, UsedType, KeyUpdate
        <4>3. CASE p \notin Passkeys
          BY <1>0, <4>1, <4>3
        <4> QED
          BY <4>2, <4>3
      <3> QED
        BY <3>1, <3>2
    <2> QED
      BY <1>0, <1>9, <2>1, EmptyRecords DEF Unlock, Over, PasskeysTypeOK
  <1>10. ASSUME NEW c \in Ceremonies, GiveUp(c)
         PROVE  PasskeysTypeOK'
    BY <1>0, <1>10, EmptyRecords DEF GiveUp, Over, PasskeysTypeOK
  <1> QED
    BY <1>1, <1>2, <1>3, <1>4, <1>5, <1>6, <1>7, <1>8, <1>9, <1>10 DEF PasskeysNext

LEMMA WellFormedStep ==
  ASSUME PasskeysTypeOK, CeremoniesWellFormed, CountersAhead, [PasskeysNext]_passkeyVars
  PROVE  CeremoniesWellFormed'
  <1> SUFFICES ASSUME NEW c \in Ceremonies
               PROVE  /\ ceremony'[c].op = "register"
                           => ceremony'[c].wrap \in {0, ceremony'[c].challenge}
                      /\ ceremony'[c].pc \in {"signed", "sent"}
                           => ceremony'[c].passkey \in Passkeys
    BY DEF CeremoniesWellFormed
  <1>0. /\ ceremony[c].op = "register" => ceremony[c].wrap \in {0, ceremony[c].challenge}
        /\ ceremony[c].pc \in {"signed", "sent"} => ceremony[c].passkey \in Passkeys
        /\ ceremony[c] \in Ceremony /\ ceremony \in [Ceremonies -> Ceremony]
    BY DEF PasskeysTypeOK, CeremoniesWellFormed
  <1>1. CASE ceremony'[c] = ceremony[c] \/ ceremony'[c] = NoCeremony
    BY <1>0, <1>1 DEF NoCeremony
  <1>2. ASSUME NEW d \in Ceremonies,
               RegisterOptions(d) \/ \E op \in {"login", "recover"} : AssertOptions(d, op)
        PROVE  /\ ceremony'[c].op = "register"
                    => ceremony'[c].wrap \in {0, ceremony'[c].challenge}
               /\ ceremony'[c].pc \in {"signed", "sent"}
                    => ceremony'[c].passkey \in Passkeys
    <2>1. CASE c # d
      BY <1>0, <1>1, <1>2, <2>1 DEF RegisterOptions, AssertOptions
    <2>2. CASE c = d /\ RegisterOptions(d)
      BY <1>0, <2>2 DEF RegisterOptions, NoCeremony
    <2>3. ASSUME c = d, NEW op \in {"login", "recover"}, AssertOptions(d, op)
          PROVE  ceremony'[c].op = op /\ ceremony'[c].pc = "options"
      BY <1>0, <2>3 DEF AssertOptions, NoCeremony
    <2> QED
      BY <1>2, <2>1, <2>2, <2>3
  <1>3. ASSUME NEW d \in Ceremonies, NEW p \in Passkeys,
               SignRegistration(d, p) \/ SignAssertion(d, p)
        PROVE  /\ ceremony'[c].op = "register"
                    => ceremony'[c].wrap \in {0, ceremony'[c].challenge}
               /\ ceremony'[c].pc \in {"signed", "sent"}
                    => ceremony'[c].passkey \in Passkeys
    <2>1. CASE c = d /\ SignRegistration(d, p)
      BY <2>1, RegistrationEffect
    <2>2. CASE c = d /\ SignAssertion(d, p)
      BY <1>0, <2>2 DEF SignAssertion, Asserting, Ceremony
    <2>3. CASE c # d
      BY <1>0, <1>1, <1>3, <2>3 DEF SignRegistration, SignAssertion
    <2> QED
      BY <1>3, <2>1, <2>2, <2>3
  <1>4. ASSUME NEW d \in Ceremonies,
               RegisterVerify(d) \/ StoreCounter(d) \/ Unlock(d) \/ GiveUp(d)
        PROVE  /\ ceremony'[c].op = "register"
                    => ceremony'[c].wrap \in {0, ceremony'[c].challenge}
               /\ ceremony'[c].pc \in {"signed", "sent"}
                    => ceremony'[c].passkey \in Passkeys
    <2>1. \/ ceremony'[c] = ceremony[c] \/ ceremony'[c] = NoCeremony
          \/ /\ c = d /\ StoreCounter(c)
             /\ ceremony'[c] = [ceremony[c] EXCEPT !.pc = "accepted"]
      BY <1>0, <1>4 DEF RegisterVerify, StoreCounter, Unlock, GiveUp, Over
    <2> QED
      BY <1>0, <1>1, <2>1 DEF StoreCounter, Asserting, Ceremony
  <1>6. ASSUME NEW d \in Ceremonies, assertCredential(d)
        PROVE  /\ ceremony'[c].op = "register"
                    => ceremony'[c].wrap \in {0, ceremony'[c].challenge}
               /\ ceremony'[c].pc \in {"signed", "sent"}
                    => ceremony'[c].passkey \in Passkeys
    <2>1. \/ ceremony'[c] = ceremony[c] \/ ceremony'[c] = NoCeremony
          \/ /\ c = d
             /\ ceremony'[c] = [ceremony[c] EXCEPT !.pc = "sent",
                                  !.wrap = credential[ceremony[c].passkey].wrap]
      BY <1>0, <1>6 DEF assertCredential, Over
    <2> QED
      BY <1>0, <1>1, <1>6, <2>1 DEF assertCredential, Asserting, Ceremony
  <1>5. CASE UNCHANGED ceremony
    BY <1>1, <1>5
  <1> QED
    BY <1>2, <1>3, <1>4, <1>5, <1>6
       DEF PasskeysNext, passkeyVars, ChallengeExpires, DeleteCredential

(* The salt the server stores is that of the challenge it compared.        *)
LEMMA WrapStep ==
  ASSUME PasskeysTypeOK, CeremoniesWellFormed, WrapFitsSalt, [PasskeysNext]_passkeyVars
  PROVE  WrapFitsSalt'
  <1>0. credential \in [Passkeys -> Credential]
    BY DEF PasskeysTypeOK
  <1>1. ASSUME NEW c \in Ceremonies, RegisterVerify(c)
        PROVE  WrapFitsSalt'
    <2>1. ChallengeFits(c) => ceremony[c].wrap \in {0, stash}
      BY <1>1 DEF ChallengeFits, CeremoniesWellFormed, RegisterVerify, CeremonyAt
    <2> QED
      BY <1>0, <1>1, <2>1 DEF RegisterVerify, WrapFitsSalt
  <1>2. ASSUME NEW c \in Ceremonies, StoreCounter(c)
        PROVE  WrapFitsSalt'
    BY <1>0, <1>2 DEF StoreCounter, WrapFitsSalt, Credential
  <1>3. ASSUME NEW p \in Passkeys, DeleteCredential(p)
        PROVE  WrapFitsSalt'
    BY <1>0, <1>3 DEF DeleteCredential, WrapFitsSalt, NoCredential
  <1>4. CASE UNCHANGED credential
    BY <1>4 DEF WrapFitsSalt
  <1> QED
    BY <1>1, <1>2, <1>3, <1>4
       DEF PasskeysNext, passkeyVars, ChallengeExpires, RegisterOptions,
           SignRegistration, AssertOptions, SignAssertion, assertCredential, Unlock,
           GiveUp

(***************************************************************************)
(* Counters.                                                               *)
(***************************************************************************)

(* What may happen to a passkey without disturbing Ahead: its counters     *)
(* stay where they are or the authenticator's moves on, and no assertion   *)
(* joins those under way.                                                  *)
LEMMA AheadStays ==
  ASSUME PasskeysTypeOK, PasskeysTypeOK', NEW p \in Passkeys, Ahead(p),
         key'[p].made = key[p].made, key'[p].counts = key[p].counts,
         key[p].counter <= key'[p].counter,
         ~key[p].counts \/ ~key[p].made => key'[p].counter = 0,
         credential'[p].counter \in {0, credential[p].counter},
         \A c \in Signed(p)' :
           /\ c \in Signed(p) /\ ceremony'[c].counter = ceremony[c].counter
           /\ ceremony'[c].pc = "signed" => ceremony[c].pc = "signed",
         together' = together
  PROVE  Ahead(p)'
  <1>0. /\ key[p].counter \in Nat /\ credential[p].counter \in Nat
        /\ \A c \in Ceremonies : ceremony[c].counter \in Nat
    BY PasskeyFields
  <1>00. /\ key'[p].counter \in Nat /\ credential'[p].counter \in Nat
         /\ \A c \in Ceremonies : ceremony'[c].counter \in Nat
    BY PasskeyBounds DEF PasskeysTypeOK, Key, Credential, Ceremony
  <1>1. /\ credential'[p].counter <= key'[p].counter
        /\ credential'[p].counter <= credential[p].counter
    BY <1>0, <1>00 DEF Ahead
  <1>2. \A c \in Signed(p)' :
          /\ key'[p].made
          /\ ceremony'[c].counter <= key'[p].counter
          /\ key'[p].counts => ceremony'[c].counter >= 1
    <2> SUFFICES ASSUME NEW c \in Signed(p)'
                 PROVE  /\ key'[p].made
                        /\ ceremony'[c].counter <= key'[p].counter
                        /\ key'[p].counts => ceremony'[c].counter >= 1
      OBVIOUS
    <2>1. c \in Signed(p) /\ c \in Ceremonies /\ ceremony'[c].counter = ceremony[c].counter
      BY DEF Signed
    <2>2. key[p].made /\ ceremony[c].counter <= key[p].counter
      BY <2>1 DEF Ahead
    <2>3. key[p].counts => ceremony[c].counter >= 1
      BY <2>1 DEF Ahead
    <2>4. ceremony'[c].counter <= key'[p].counter
      BY <1>0, <1>00, <2>1, <2>2
    <2> QED
      BY <2>1, <2>2, <2>3, <2>4
  <1>3. p \notin together => \A c1, c2 \in Signed(p)' : c1 = c2
    BY DEF Ahead
  <1>4. ASSUME p \notin together, NEW c \in Signed(p)', key'[p].counts,
               ceremony'[c].pc = "signed"
        PROVE  credential'[p].counter < ceremony'[c].counter
    <2>1. c \in Signed(p) /\ c \in Ceremonies /\ ceremony'[c].counter = ceremony[c].counter
          /\ ceremony[c].pc = "signed" /\ key[p].counts
      BY <1>4 DEF Signed
    <2>2. credential[p].counter < ceremony[c].counter
      BY <1>4, <2>1 DEF Ahead
    <2> QED
      BY <1>0, <1>00, <1>1, <2>1, <2>2
  <1> QED
    BY <1>1, <1>2, <1>3, <1>4 DEF Ahead

(* An assertion signed while none is under way is strictly ahead.          *)
LEMMA AheadSign ==
  ASSUME PasskeysTypeOK, PasskeysTypeOK', NEW p \in Passkeys, Ahead(p),
         NEW c \in Ceremonies, SignAssertion(c, p)
  PROVE  Ahead(p)'
  <1> DEFINE n == Used(p, 1)
  <1>0. /\ key[p].counter \in Nat /\ credential[p].counter \in Nat
        /\ \A d \in Ceremonies : ceremony[d].counter \in Nat
        /\ key \in [Passkeys -> Key] /\ ceremony \in [Ceremonies -> Ceremony]
    BY PasskeyFields DEF PasskeysTypeOK
  <1>1. /\ n \in Nat
        /\ key[p].counts => n = key[p].counter + 1
        /\ ~key[p].counts => n = 0
        /\ key[p].made
    BY UsedType DEF SignAssertion
  <1>2. /\ key'[p].counter = n /\ key'[p].made = key[p].made
        /\ key'[p].counts = key[p].counts
    BY <1>0 DEF SignAssertion, Key
  <1>3. credential' = credential
    BY DEF SignAssertion
  <1>4. /\ ceremony'[c].counter = n /\ ceremony[c].pc = "options"
        /\ \A d \in Ceremonies : d # c => ceremony'[d] = ceremony[d]
    BY <1>0 DEF SignAssertion, Asserting, Ceremony
  <1>5. \A d \in Signed(p)' : d \in Ceremonies /\ (d = c \/ d \in Signed(p))
    BY <1>4 DEF Signed
  <1>6. key[p].counter <= n
    <2>1. CASE key[p].counts
      BY <1>0, <1>1, <2>1
    <2>2. CASE ~key[p].counts
      BY <1>1, <2>2, <1>0 DEF Ahead
    <2> QED
      BY <2>1, <2>2
  <1>7. credential[p].counter <= n
    BY <1>0, <1>1, <1>6 DEF Ahead
  <1>8. \A d \in Signed(p)' :
          /\ ceremony'[d].counter <= n
          /\ key[p].counts => ceremony'[d].counter >= 1
    <2> SUFFICES ASSUME NEW d \in Signed(p)'
                 PROVE  /\ ceremony'[d].counter <= n
                        /\ key[p].counts => ceremony'[d].counter >= 1
      OBVIOUS
    <2>1. CASE d = c
      BY <1>0, <1>1, <1>4, <2>1
    <2>2. CASE d # c
      <3>1. d \in Signed(p) /\ d \in Ceremonies /\ ceremony'[d] = ceremony[d]
        BY <1>4, <1>5, <2>2
      <3>2. ceremony[d].counter <= key[p].counter
        BY <3>1 DEF Ahead
      <3>3. key[p].counts => ceremony[d].counter >= 1
        BY <3>1 DEF Ahead
      <3>4. ceremony[d].counter <= n
        BY <1>0, <1>1, <1>6, <3>1, <3>2
      <3> QED
        BY <3>1, <3>3, <3>4
    <2> QED
      BY <2>1, <2>2
  <1>9. ASSUME p \notin together'
        PROVE  /\ \A d \in Signed(p)' : d = c
               /\ key[p].counts => credential[p].counter < n
    <2>1. Signed(p) = {}
      BY <1>9 DEF SignAssertion
    <2>2. key[p].counts => credential[p].counter < n
      BY <1>0, <1>1 DEF Ahead
    <2> QED
      BY <1>5, <2>1, <2>2
  <1>10. ~key'[p].counts \/ ~key'[p].made => key'[p].counter = 0
    BY <1>1, <1>2
  <1> HIDE DEF n
  <1> QED
    BY <1>1, <1>2, <1>3, <1>4, <1>7, <1>8, <1>9, <1>10 DEF Ahead

(* The counter stored is that of an assertion, and no other is under way   *)
(* when assertions of the passkey never overlapped.                        *)
LEMMA AheadStore ==
  ASSUME PasskeysTypeOK, NEW c \in Ceremonies, StoreCounter(c),
         NEW p \in Passkeys, Ahead(p), p = ceremony[c].passkey, credential[p].stored
  PROVE  Ahead(p)'
  <1>0. /\ credential \in [Passkeys -> Credential]
        /\ ceremony \in [Ceremonies -> Ceremony]
    BY DEF PasskeysTypeOK
  <1>1. /\ key' = key /\ together' = together
        /\ credential'[p].counter = ceremony[c].counter
        /\ ceremony' = [ceremony EXCEPT ![c].pc = "accepted"]
    BY <1>0 DEF StoreCounter, Credential
  <1>2. c \in Signed(p)
    BY DEF StoreCounter, Asserting, Signed
  <1>3. \A d \in Ceremonies :
          /\ d # c => ceremony'[d] = ceremony[d]
          /\ d = c => ceremony'[d].pc = "accepted"
    BY <1>0, <1>1 DEF Ceremony
  <1>4. \A d \in Signed(p)' : d \in Signed(p) /\ d # c /\ ceremony'[d] = ceremony[d]
    BY <1>3 DEF Signed
  <1>5. p \notin together => Signed(p)' = {}
    BY <1>2, <1>4 DEF Ahead
  <1>6. ceremony[c].counter <= key[p].counter
    BY <1>2 DEF Ahead
  <1>7. \A d \in Signed(p)' :
          /\ key[p].made /\ ceremony'[d].counter <= key[p].counter
          /\ key[p].counts => ceremony'[d].counter >= 1
    BY <1>4 DEF Ahead
  <1>8. ~key[p].counts \/ ~key[p].made => key[p].counter = 0
    BY DEF Ahead
  <1> QED
    BY <1>1, <1>5, <1>6, <1>7, <1>8 DEF Ahead

LEMMA CountersStep ==
  ASSUME PasskeysTypeOK, PasskeysTypeOK', CountersAhead, RegistrationsFirst,
         [PasskeysNext]_passkeyVars
  PROVE  CountersAhead'
  <1> SUFFICES ASSUME NEW p \in Passkeys
               PROVE  Ahead(p)'
    BY DEF CountersAhead
  <1>0. /\ Ahead(p) /\ key \in [Passkeys -> Key]
        /\ credential \in [Passkeys -> Credential]
        /\ ceremony \in [Ceremonies -> Ceremony]
        /\ key[p].counter \in Nat /\ credential[p].counter \in Nat
    BY PasskeyFields DEF CountersAhead, PasskeysTypeOK
  <1>1. CASE UNCHANGED <<key, ceremony, together>>
             /\ credential'[p].counter \in {0, credential[p].counter}
    <2>1. Signed(p)' = Signed(p)
      BY <1>1 DEF Signed
    <2>2. ~key[p].counts \/ ~key[p].made => key[p].counter = 0
      BY <1>0 DEF Ahead
    <2>3. key[p].counter <= key'[p].counter
      BY <1>0, <1>1
    <2> QED
      BY <1>0, <1>1, <2>1, <2>2, <2>3, AheadStays
  <1>2. ASSUME NEW d \in Passkeys, DeleteCredential(d)
        PROVE  Ahead(p)'
    BY <1>0, <1>1, <1>2 DEF DeleteCredential, NoCredential
  <1>3. ASSUME NEW c \in Ceremonies, ceremony'[c] \in Ceremony,
               \A e \in Ceremonies \ {c} : ceremony'[e] = ceremony[e],
               \/ ceremony'[c].op \notin {"login", "recover"}
               \/ ceremony'[c].pc \notin {"signed", "sent"}
               \/ /\ ceremony'[c].op = ceremony[c].op
                  /\ ceremony'[c].passkey = ceremony[c].passkey
                  /\ ceremony'[c].counter = ceremony[c].counter
                  /\ ceremony[c].pc = "signed" /\ ceremony'[c].pc = "sent",
               credential'[p].counter \in {0, credential[p].counter},
               together' = together,
               key'[p].made = key[p].made, key'[p].counts = key[p].counts,
               key[p].counter <= key'[p].counter,
               ~key[p].counts \/ ~key[p].made => key'[p].counter = 0
        PROVE  Ahead(p)'
    <2>1. \A d \in Signed(p)' :
            /\ d \in Signed(p) /\ ceremony'[d].counter = ceremony[d].counter
            /\ ceremony'[d].pc = "signed" => ceremony[d].pc = "signed"
      BY <1>3 DEF Signed
    <2> QED
      BY <1>0, <1>3, <2>1, AheadStays
  <1>4. /\ key[p].counter <= key[p].counter
        /\ ~key[p].counts \/ ~key[p].made => key[p].counter = 0
        /\ ceremony' \in [Ceremonies -> Ceremony]
    BY <1>0 DEF Ahead, PasskeysTypeOK
  <1>5. ASSUME NEW c \in Ceremonies,
               RegisterOptions(c) \/ \E op \in {"login", "recover"} : AssertOptions(c, op)
        PROVE  Ahead(p)'
    <2>1. /\ \A e \in Ceremonies \ {c} : ceremony'[e] = ceremony[e]
          /\ ceremony'[c].pc = "options"
          /\ UNCHANGED <<key, credential, together>>
      <3>1. CASE RegisterOptions(c)
        BY <1>0, <3>1 DEF RegisterOptions, NoCeremony
      <3>2. ASSUME NEW op \in {"login", "recover"}, AssertOptions(c, op)
            PROVE  /\ \A e \in Ceremonies \ {c} : ceremony'[e] = ceremony[e]
                   /\ ceremony'[c].pc = "options"
                   /\ UNCHANGED <<key, credential, together>>
        BY <1>0, <3>2 DEF AssertOptions, NoCeremony
      <3> QED
        BY <1>5, <3>1, <3>2
    <2> QED
      BY <1>3, <1>4, <2>1
  <1>6. ASSUME NEW c \in Ceremonies, RegisterVerify(c) \/ GiveUp(c)
        PROVE  Ahead(p)'
    <2>1. /\ \A e \in Ceremonies \ {c} : ceremony'[e] = ceremony[e]
          /\ ceremony'[c].op = "none"
          /\ UNCHANGED <<key, together>>
      BY <1>0, <1>6 DEF RegisterVerify, GiveUp, Over, NoCeremony
    <2>2. CASE credential'[p].counter = credential[p].counter
      BY <1>3, <1>4, <2>1, <2>2
    <2>3. CASE credential'[p].counter # credential[p].counter
      <3>1. c \in Registering(p) /\ credential'[p].counter = ceremony[c].counter
        BY <1>0, <1>6, <2>3 DEF RegisterVerify, GiveUp, CeremonyAt, Registering
      <3>2. /\ ceremony[c].counter <= key[p].counter
            /\ \A d \in Signed(p) : key[p].counts => ceremony[c].counter < ceremony[d].counter
        BY <3>1 DEF RegistrationsFirst
      <3>3. \A d \in Signed(p)' : d \in Signed(p) /\ ceremony'[d] = ceremony[d]
        BY <2>1 DEF Signed
      <3> QED
        BY <1>0, <2>1, <3>1, <3>2, <3>3 DEF Ahead
    <2> QED
      BY <2>2, <2>3
  <1>7. ASSUME NEW c \in Ceremonies, NEW q \in Passkeys, SignRegistration(c, q)
        PROVE  Ahead(p)'
    <2>1. /\ \A e \in Ceremonies \ {c} : ceremony'[e] = ceremony[e]
          /\ ceremony'[c].op = "register" /\ ceremony'[c] \in Ceremony
      BY <1>7, RegistrationEffect
    <2>2. UNCHANGED <<credential, together>>
      BY <1>7 DEF SignRegistration
    <2>3. CASE p # q
      <3>1. key'[p] = key[p]
        BY <1>7, <2>3, RegistrationEffect
      <3> QED
        BY <1>0, <1>3, <1>4, <2>1, <2>2, <3>1
    <2>4. CASE p = q
      <3>1. ~key[p].made /\ key[p].counter = 0 /\ credential[p].counter = 0
        BY <1>0, <1>7, <2>4 DEF SignRegistration, Ahead
      <3>2. Signed(p) = {}
        BY <1>0, <3>1 DEF Ahead
      <3>3. Signed(p)' = {}
        BY <2>1, <3>2 DEF Signed
      <3>4. key'[p].counts = key[p].counts /\ key'[p].made
        BY <1>7, <2>4, RegistrationEffect
      <3>5. key'[p].counter \in Nat /\ (~key[p].counts => key'[p].counter = 0)
        <4>1. ~key[p].counts => key'[p].counter = 0
          BY <1>7, <2>4, RegistrationEffect
        <4>2. key'[p].counter \in Nat
          BY PasskeyBounds DEF PasskeysTypeOK, Key
        <4> QED
          BY <4>1, <4>2
      <3>6. credential'[p].counter <= key'[p].counter
        BY <2>2, <3>1, <3>5
      <3> QED
        BY <3>3, <3>4, <3>5, <3>6 DEF Ahead
    <2> QED
      BY <2>3, <2>4
  <1>8. ASSUME NEW c \in Ceremonies, NEW q \in Passkeys, SignAssertion(c, q)
        PROVE  Ahead(p)'
    <2>1. CASE p = q
      BY <1>0, <1>8, <2>1, AheadSign
    <2>2. CASE p # q
      <3>1. /\ key'[p] = key[p] /\ credential' = credential
            /\ \A e \in Ceremonies \ {c} : ceremony'[e] = ceremony[e]
            /\ ceremony'[c].passkey = q
        BY <1>0, <1>8, <2>2 DEF SignAssertion, Ceremony
      <3>2. p \in together' <=> p \in together
        BY <1>8, <2>2 DEF SignAssertion
      <3>3. \A d \in Signed(p)' : d \in Signed(p) /\ ceremony'[d] = ceremony[d]
        BY <2>2, <3>1 DEF Signed
      <3> QED
        BY <1>0, <3>1, <3>2, <3>3 DEF Ahead
    <2> QED
      BY <2>1, <2>2
  <1>9. ASSUME NEW c \in Ceremonies, assertCredential(c)
        PROVE  Ahead(p)'
    <2>1. UNCHANGED <<key, credential, together>> /\ Asserting(c, "signed")
      BY <1>9 DEF assertCredential
    <2>2. \/ ceremony' = Over(c)
          \/ ceremony' = [ceremony EXCEPT ![c] =
                [@ EXCEPT !.pc = "sent", !.wrap = credential[ceremony[c].passkey].wrap]]
      BY <1>9 DEF assertCredential
    <2>3. \A e \in Ceremonies \ {c} : ceremony'[e] = ceremony[e]
      BY <1>0, <2>2 DEF Over
    <2>4. \/ ceremony'[c].op = "none"
          \/ /\ ceremony'[c].op = ceremony[c].op
             /\ ceremony'[c].passkey = ceremony[c].passkey
             /\ ceremony'[c].counter = ceremony[c].counter
             /\ ceremony'[c].pc = "sent"
      <3>1. CASE ceremony' = Over(c)
        BY <1>0, <3>1 DEF Over, NoCeremony
      <3>2. CASE ceremony' = [ceremony EXCEPT ![c] =
                   [@ EXCEPT !.pc = "sent", !.wrap = credential[ceremony[c].passkey].wrap]]
        <4>1. ceremony'[c] = [ceremony[c] EXCEPT !.pc = "sent",
                                !.wrap = credential[ceremony[c].passkey].wrap]
          BY <1>0, <3>2
        <4>2. ceremony[c] \in Ceremony
          BY <1>0
        <4> QED
          BY <4>1, <4>2 DEF Ceremony
      <3> QED
        BY <2>2, <3>1, <3>2
    <2> QED
      BY <1>3, <1>4, <2>1, <2>3, <2>4 DEF Asserting
  <1>10. ASSUME NEW c \in Ceremonies, StoreCounter(c)
         PROVE  Ahead(p)'
    <2>1. CASE p = ceremony[c].passkey /\ credential[p].stored
      BY <1>0, <1>10, <2>1, AheadStore
    <2>2. CASE ~(p = ceremony[c].passkey /\ credential[p].stored)
      <3>1. /\ \A e \in Ceremonies \ {c} : ceremony'[e] = ceremony[e]
            /\ ceremony'[c].op = "none" \/ ceremony'[c].pc = "accepted"
            /\ UNCHANGED <<key, together>>
        BY <1>0, <1>10 DEF StoreCounter, Over, NoCeremony, Ceremony
      <3>2. credential'[p] = credential[p]
        BY <1>0, <1>10, <2>2 DEF StoreCounter
      <3> QED
        BY <1>3, <1>4, <3>1, <3>2
    <2> QED
      BY <2>1, <2>2
  <1>11. ASSUME NEW c \in Ceremonies, Unlock(c)
         PROVE  Ahead(p)'
    <2>1. /\ \A e \in Ceremonies \ {c} : ceremony'[e] = ceremony[e]
          /\ ceremony'[c].op = "none"
          /\ UNCHANGED <<credential, together>>
      BY <1>0, <1>11 DEF Unlock, Over, NoCeremony
    <2>2. CASE key'[p] = key[p]
      BY <1>3, <1>4, <2>1, <2>2
    <2>3. CASE key'[p] # key[p]
      <3>1. /\ key' = [key EXCEPT ![p].counter = Used(p, 1)]
            /\ CanUse(p, 1)
        BY <1>0, <1>11, <2>3 DEF Unlock
      <3>2. /\ key'[p].counter = Used(p, 1) /\ key'[p].made = key[p].made
            /\ key'[p].counts = key[p].counts
        BY <1>0, <3>1 DEF Key
      <3>3. /\ Used(p, 1) \in Nat /\ key[p].made
            /\ key[p].counts => Used(p, 1) = key[p].counter + 1
            /\ ~key[p].counts => Used(p, 1) = 0
        BY <3>1, UsedType
      <3>4. key[p].counter <= Used(p, 1)
        <4>1. CASE key[p].counts
          BY <1>0, <3>3, <4>1
        <4>2. CASE ~key[p].counts
          BY <1>4, <3>3, <4>2
        <4> QED
          BY <4>1, <4>2
      <3> QED
        BY <1>3, <1>4, <2>1, <3>2, <3>3, <3>4
    <2> QED
      BY <2>2, <2>3
  <1>12. CASE UNCHANGED passkeyVars \/ ChallengeExpires
    BY <1>1, <1>12 DEF passkeyVars, ChallengeExpires
  <1> QED
    BY <1>2, <1>5, <1>6, <1>7, <1>8, <1>9, <1>10, <1>11, <1>12 DEF PasskeysNext

(* A registration under way was there before or has just been signed, by a *)
(* key that did not exist; its key only moves on.                          *)
LEMMA RegistrationsStep ==
  ASSUME PasskeysTypeOK, PasskeysTypeOK', CountersAhead, RegistrationsFirst,
         [PasskeysNext]_passkeyVars
  PROVE  RegistrationsFirst'
  <1> SUFFICES ASSUME NEW p \in Passkeys, NEW r \in Registering(p)'
               PROVE  /\ key'[p].made /\ ceremony'[r].counter <= key'[p].counter
                      /\ \A c \in Signed(p)' :
                           key'[p].counts => ceremony'[r].counter < ceremony'[c].counter
    BY DEF RegistrationsFirst
  <1>0. /\ Ahead(p) /\ r \in Ceremonies
        /\ key \in [Passkeys -> Key] /\ ceremony \in [Ceremonies -> Ceremony]
        /\ key' \in [Passkeys -> Key] /\ ceremony' \in [Ceremonies -> Ceremony]
        /\ key[p].counter \in Nat /\ key'[p].counter \in Nat
        /\ \A c \in Ceremonies : ceremony[c].counter \in Nat
    BY PasskeyFields, PasskeyBounds
       DEF CountersAhead, PasskeysTypeOK, Registering, Key, Ceremony
  <1>1. ASSUME r \in Registering(p), ceremony'[r] = ceremony[r],
               key'[p].made = key[p].made, key'[p].counts = key[p].counts,
               key[p].counter <= key'[p].counter,
               \A c \in Signed(p)' :
                 \/ c \in Signed(p) /\ ceremony'[c].counter = ceremony[c].counter
                 \/ key[p].counts => ceremony'[c].counter = key[p].counter + 1
        PROVE  /\ key'[p].made /\ ceremony'[r].counter <= key'[p].counter
               /\ \A c \in Signed(p)' :
                    key'[p].counts => ceremony'[r].counter < ceremony'[c].counter
    <2>1. /\ key[p].made /\ ceremony[r].counter <= key[p].counter
          /\ \A c \in Signed(p) :
               key[p].counts => ceremony[r].counter < ceremony[c].counter
      BY <1>1 DEF RegistrationsFirst
    <2>2. ceremony'[r].counter <= key'[p].counter
      BY <1>0, <1>1, <2>1
    <2>3. ASSUME NEW c \in Signed(p)', key'[p].counts
          PROVE  ceremony'[r].counter < ceremony'[c].counter
      <3>1. CASE c \in Signed(p) /\ ceremony'[c].counter = ceremony[c].counter
        BY <1>1, <2>1, <2>3, <3>1
      <3>2. CASE ceremony'[c].counter = key[p].counter + 1
        BY <1>0, <1>1, <2>1, <3>2
      <3> QED
        BY <1>1, <2>3, <3>1, <3>2
    <2> QED
      BY <1>1, <2>1, <2>2, <2>3
  <1>2. ASSUME NEW c \in Ceremonies, key' = key,
               \A e \in Ceremonies \ {c} : ceremony'[e] = ceremony[e],
               ceremony'[c].op = "none" \/ ceremony'[c].pc \in {"options", "accepted"}
                 \/ /\ ceremony'[c].op = ceremony[c].op
                    /\ ceremony'[c].op \in {"login", "recover"}
                    /\ ceremony'[c].passkey = ceremony[c].passkey
                    /\ ceremony'[c].counter = ceremony[c].counter
                    /\ ceremony[c].pc = "signed" /\ ceremony'[c].pc = "sent"
        PROVE  /\ key'[p].made /\ ceremony'[r].counter <= key'[p].counter
               /\ \A d \in Signed(p)' :
                    key'[p].counts => ceremony'[r].counter < ceremony'[d].counter
    <2>1. r # c /\ r \in Registering(p) /\ ceremony'[r] = ceremony[r]
      BY <1>0, <1>2 DEF Registering, CeremonyAt
    <2>2. \A d \in Signed(p)' : d \in Signed(p) /\ ceremony'[d].counter = ceremony[d].counter
      BY <1>2 DEF Signed
    <2> QED
      BY <1>0, <1>1, <1>2, <2>1, <2>2
  <1>3. ASSUME NEW c \in Ceremonies,
               RegisterOptions(c) \/ \E op \in {"login", "recover"} : AssertOptions(c, op)
        PROVE  /\ key'[p].made /\ ceremony'[r].counter <= key'[p].counter
               /\ \A d \in Signed(p)' :
                    key'[p].counts => ceremony'[r].counter < ceremony'[d].counter
    <2>1. CASE RegisterOptions(c)
      <3>1. /\ \A e \in Ceremonies \ {c} : ceremony'[e] = ceremony[e]
            /\ ceremony'[c].pc = "options" /\ key' = key
        BY <1>0, <2>1 DEF RegisterOptions, NoCeremony
      <3> QED
        BY <1>2, <3>1
    <2>2. ASSUME NEW op \in {"login", "recover"}, AssertOptions(c, op)
          PROVE  /\ \A e \in Ceremonies \ {c} : ceremony'[e] = ceremony[e]
                 /\ ceremony'[c].pc = "options" /\ key' = key
      BY <1>0, <2>2 DEF AssertOptions, NoCeremony
    <2> QED
      BY <1>2, <1>3, <2>1, <2>2
  <1>4. ASSUME NEW c \in Ceremonies, RegisterVerify(c) \/ GiveUp(c) \/ StoreCounter(c)
        PROVE  /\ key'[p].made /\ ceremony'[r].counter <= key'[p].counter
               /\ \A d \in Signed(p)' :
                    key'[p].counts => ceremony'[r].counter < ceremony'[d].counter
    <2>1. /\ \A e \in Ceremonies \ {c} : ceremony'[e] = ceremony[e]
          /\ ceremony'[c].op = "none" \/ ceremony'[c].pc = "accepted"
          /\ key' = key
      BY <1>0, <1>4 DEF RegisterVerify, GiveUp, StoreCounter, Over, NoCeremony, Ceremony
    <2> QED
      BY <1>2, <2>1
  <1>5. ASSUME NEW c \in Ceremonies, NEW q \in Passkeys, SignRegistration(c, q)
        PROVE  /\ key'[p].made /\ ceremony'[r].counter <= key'[p].counter
               /\ \A d \in Signed(p)' :
                    key'[p].counts => ceremony'[r].counter < ceremony'[d].counter
    <2>1. /\ \A e \in Ceremonies \ {c} : ceremony'[e] = ceremony[e]
          /\ ceremony'[c].op = "register" /\ ceremony'[c].passkey = q
          /\ key'[q].made /\ ceremony'[c].counter <= key'[q].counter
          /\ p # q => key'[p] = key[p]
      BY <1>5, RegistrationEffect
    <2>0. ~key[q].made
      BY <1>5 DEF SignRegistration
    <2>2. \A d \in Signed(p)' : d \in Signed(p) /\ ceremony'[d] = ceremony[d]
      BY <2>1 DEF Signed
    <2>3. CASE p = q
      <3>1. Signed(p) = {} /\ Registering(p) = {}
        BY <2>0, <2>3 DEF CountersAhead, Ahead, RegistrationsFirst
      <3>2. r = c
        BY <1>0, <2>1, <3>1 DEF Registering, CeremonyAt
      <3> QED
        BY <2>1, <2>2, <2>3, <3>1, <3>2
    <2>4. CASE p # q
      <3>1. r # c /\ r \in Registering(p) /\ ceremony'[r] = ceremony[r]
        BY <1>0, <2>1, <2>4 DEF Registering, CeremonyAt
      <3> QED
        BY <1>0, <1>1, <2>1, <2>2, <2>4, <3>1
    <2> QED
      BY <2>3, <2>4
  <1>6. ASSUME NEW c \in Ceremonies, NEW q \in Passkeys, SignAssertion(c, q)
        PROVE  /\ key'[p].made /\ ceremony'[r].counter <= key'[p].counter
               /\ \A d \in Signed(p)' :
                    key'[p].counts => ceremony'[r].counter < ceremony'[d].counter
    <2>1. /\ \A e \in Ceremonies \ {c} : ceremony'[e] = ceremony[e]
          /\ ceremony'[c].op \in {"login", "recover"} /\ ceremony'[c].passkey = q
          /\ ceremony'[c].counter = Used(q, 1)
          /\ key' = [key EXCEPT ![q].counter = Used(q, 1)] /\ key[q].made
      BY <1>0, <1>6 DEF SignAssertion, Asserting, CanUse, Ceremony
    <2>2. /\ key'[p].made = key[p].made /\ key'[p].counts = key[p].counts
          /\ p # q => key'[p] = key[p]
          /\ p = q => key'[p].counter = Used(p, 1)
      BY <1>0, <2>1 DEF Key
    <2>3. /\ key[p].counts => Used(p, 1) = key[p].counter + 1
          /\ ~key[p].counts => Used(p, 1) = 0 /\ key[p].counter = 0
      BY UsedType DEF CountersAhead, Ahead
    <2>4. key[p].counter <= key'[p].counter
      <3>1. CASE p # q
        BY <1>0, <2>2, <3>1
      <3>2. CASE p = q /\ key[p].counts
        BY <1>0, <2>2, <2>3, <3>2
      <3>3. CASE p = q /\ ~key[p].counts
        BY <2>2, <2>3, <3>3
      <3> QED
        BY <3>1, <3>2, <3>3
    <2>5. r # c /\ r \in Registering(p) /\ ceremony'[r] = ceremony[r]
      BY <1>0, <2>1 DEF Registering, CeremonyAt
    <2>6. \A d \in Signed(p)' :
            \/ d \in Signed(p) /\ ceremony'[d].counter = ceremony[d].counter
            \/ key[p].counts => ceremony'[d].counter = key[p].counter + 1
      BY <2>1, <2>3 DEF Signed
    <2> QED
      BY <1>1, <2>2, <2>4, <2>5, <2>6
  <1>7. ASSUME NEW c \in Ceremonies, assertCredential(c)
        PROVE  /\ key'[p].made /\ ceremony'[r].counter <= key'[p].counter
               /\ \A d \in Signed(p)' :
                    key'[p].counts => ceremony'[r].counter < ceremony'[d].counter
    <2>1. /\ \A e \in Ceremonies \ {c} : ceremony'[e] = ceremony[e]
          /\ key' = key /\ ceremony[c].op \in {"login", "recover"}
          /\ ceremony[c].pc = "signed"
      BY <1>0, <1>7 DEF assertCredential, Asserting, Over
    <2>2. CASE ceremony'[c] = NoCeremony
      BY <1>2, <2>1, <2>2 DEF NoCeremony
    <2>3. CASE ceremony'[c] = [ceremony[c] EXCEPT !.pc = "sent",
                                 !.wrap = credential[ceremony[c].passkey].wrap]
      <3>1. /\ ceremony'[c].op = ceremony[c].op
            /\ ceremony'[c].passkey = ceremony[c].passkey
            /\ ceremony'[c].counter = ceremony[c].counter /\ ceremony'[c].pc = "sent"
        BY <1>0, <2>3 DEF Ceremony
      <3> QED
        BY <1>2, <2>1, <3>1
    <2> QED
      BY <1>0, <1>7, <2>2, <2>3 DEF assertCredential, Over
  <1>8. ASSUME NEW c \in Ceremonies, Unlock(c)
        PROVE  /\ key'[p].made /\ ceremony'[r].counter <= key'[p].counter
               /\ \A d \in Signed(p)' :
                    key'[p].counts => ceremony'[r].counter < ceremony'[d].counter
    <2>1. /\ \A e \in Ceremonies \ {c} : ceremony'[e] = ceremony[e]
          /\ ceremony'[c].op = "none"
      BY <1>0, <1>8 DEF Unlock, Over, NoCeremony
    <2>2. /\ key'[p].made = key[p].made /\ key'[p].counts = key[p].counts
          /\ key'[p].counter \in {key[p].counter, Used(p, 1)}
      BY <1>0, <1>8 DEF Unlock, Key
    <2>3. key[p].counter <= key'[p].counter
      <3>1. CASE key[p].counts
        BY <1>0, <2>2, <3>1, UsedType
      <3>2. CASE ~key[p].counts
        BY <1>0, <2>2, <3>2 DEF Ahead
      <3> QED
        BY <3>1, <3>2
    <2>4. r # c /\ r \in Registering(p) /\ ceremony'[r] = ceremony[r]
      BY <1>0, <2>1 DEF Registering, CeremonyAt
    <2>5. \A d \in Signed(p)' : d \in Signed(p) /\ ceremony'[d].counter = ceremony[d].counter
      BY <2>1 DEF Signed
    <2> QED
      BY <1>1, <2>2, <2>3, <2>4, <2>5
  <1>9. CASE UNCHANGED <<key, ceremony>>
    <2>1. r \in Registering(p) /\ Signed(p)' = Signed(p)
      BY <1>9 DEF Registering, CeremonyAt, Signed
    <2> QED
      BY <1>0, <1>1, <1>9, <2>1
  <1> QED
    BY <1>3, <1>4, <1>5, <1>6, <1>7, <1>8, <1>9
       DEF PasskeysNext, passkeyVars, ChallengeExpires, DeleteCredential

(* A counter that is behind belongs to one of two assertions at once.      *)
LEMMA RacesStep ==
  ASSUME PasskeysTypeOK, CeremoniesWellFormed, CountersAhead, OnlyRacesLookCloned,
         [PasskeysNext]_passkeyVars
  PROVE  OnlyRacesLookCloned'
  <1>1. ASSUME NEW c \in Ceremonies, assertCredential(c)
        PROVE  OnlyRacesLookCloned'
    <2> DEFINE p == ceremony[c].passkey
    <2>1. p \in Passkeys /\ c \in Signed(p)
      BY <1>1 DEF assertCredential, Asserting, CeremoniesWellFormed, Signed
    <2>2. Ahead(p) /\ key[p].counter \in Nat /\ credential[p].counter \in Nat
          /\ ceremony[c].counter \in Nat
      BY <2>1, PasskeyFields DEF CountersAhead
    <2>3. ASSUME p \notin together
          PROVE  ~Regressed(c)
      <3>1. CASE key[p].counts
        <4>1. credential[p].counter < ceremony[c].counter
          BY <1>1, <2>1, <2>2, <2>3, <3>1 DEF Ahead, assertCredential, Asserting
        <4> QED
          BY <2>2, <4>1 DEF Regressed
      <3>2. CASE ~key[p].counts
        <4>1. credential[p].counter <= 0
          BY <2>2, <3>2 DEF Ahead
        <4> QED
          BY <2>2, <4>1 DEF Regressed
      <3> QED
        BY <3>1, <3>2
    <2>4. suspected' \subseteq suspected \union {p} /\ together' = together
          /\ (p \in suspected' => p \in suspected \/ Regressed(c))
      BY <1>1 DEF assertCredential
    <2> QED
      BY <2>3, <2>4 DEF OnlyRacesLookCloned
  <1>2. CASE suspected' = suspected /\ together \subseteq together'
    BY <1>2 DEF OnlyRacesLookCloned
  <1>3. ASSUME NEW c \in Ceremonies, NEW p \in Passkeys, SignAssertion(c, p)
        PROVE  OnlyRacesLookCloned'
    BY <1>2, <1>3 DEF SignAssertion
  <1> QED
    BY <1>1, <1>2, <1>3
       DEF PasskeysNext, passkeyVars, ChallengeExpires, DeleteCredential,
           RegisterOptions, SignRegistration, RegisterVerify, AssertOptions,
           StoreCounter, Unlock, GiveUp

(***************************************************************************)
(* Theorems.                                                               *)
(***************************************************************************)

(* Ceremonies name their challenge and passkey, and an authenticator's     *)
(* counter is never behind the server's.                                   *)
THEOREM PasskeysInductive == PasskeysSpec => []PasskeysInv
  <1>1. PasskeysInv /\ [PasskeysNext]_passkeyVars => PasskeysInv'
    <2> SUFFICES ASSUME PasskeysInv, [PasskeysNext]_passkeyVars
                 PROVE  PasskeysInv'
      OBVIOUS
    <2>1. PasskeysTypeOK'
      BY PasskeysTypeStep DEF PasskeysInv
    <2>2. CeremoniesWellFormed' /\ WrapFitsSalt'
      BY WellFormedStep, WrapStep DEF PasskeysInv
    <2>3. CountersAhead' /\ RegistrationsFirst' /\ OnlyRacesLookCloned'
      BY <2>1, CountersStep, RegistrationsStep, RacesStep DEF PasskeysInv
    <2> QED
      BY <2>1, <2>2, <2>3 DEF PasskeysInv
  <1> QED
    BY <1>1, PasskeysInitHolds, PTL DEF PasskeysSpec

(* Whatever tabs register passkeys at once, a master key the server stores *)
(* opens with the salt it stores beside it.                                *)
THEOREM WrapsFit == PasskeysSpec => []WrapFitsSalt
  BY PasskeysInductive, PTL DEF PasskeysInv

(* A passkey that never made two assertions at once is never refused as a  *)
(* clone, whatever PRF evaluations and lost answers the server missed.     *)
THEOREM NoFalseClone == PasskeysSpec => []OnlyRacesLookCloned
  BY PasskeysInductive, PTL DEF PasskeysInv

--------------------------------------------------------------------------------
(***************************************************************************)
(* ClientSession: the tabs of a browser.                                   *)
(***************************************************************************)

(* The records of ClientTypeOK, by name.                                   *)
TabType ==
  [store : Store, identity : Accounts \union {NoAccount},
   restoring : Accounts \union {NoAccount}, pending : 0..MaxSessions]

RequestType ==
  [pc : {"idle", "refreshing", "refreshed", "refused"}, tab : Tabs \union {NoTab},
   token : RefreshToken]

LEMMA ClientConstants ==
  /\ NoCookie \in RefreshToken /\ NoStore \in Store /\ NoRequest \in RequestType
  /\ NewTab \in TabType
  /\ NoCookie.session = 0 /\ NoCookie.n = 0 /\ NoStore.user = NoAccount
  /\ NoRequest.pc = "idle" /\ NoRequest.tab = NoTab
  /\ NoTab \notin Tabs /\ NoAccount \notin Accounts
  /\ \A s \in SessionIds : s # 0 /\ s \in 0..MaxSessions
  /\ \A s \in 0..MaxSessions : s # 0 => s \in SessionIds
  /\ MaxSessions \in Nat /\ MaxRotations \in Nat
<1>1. NoCookie \in RefreshToken /\ NoStore \in Store
  BY ClientBounds DEF NoCookie, RefreshToken, NoStore, Store
<1>2. NoRequest \in RequestType /\ NewTab \in TabType
  BY <1>1, ClientBounds DEF NoRequest, RequestType, NewTab, TabType
<1> QED
  BY <1>1, <1>2, ClientBounds DEF NoCookie, NoStore, NoRequest, SessionIds

(* A tab that signs in, loads the page or signs out.                       *)
LEMMA TabStates ==
  ASSUME NEW t \in Tabs, tab \in [Tabs -> TabType], saved \in Store
  PROVE  /\ \A a \in Accounts, s \in SessionIds :
              /\ SignedIn(a, s) \in TabType
              /\ SignedIn(a, s).store = [user |-> a, token |-> s]
              /\ SignedIn(a, s).identity = a /\ SignedIn(a, s).restoring = a
              /\ SignedIn(a, s).pending = 0
         /\ LoggedOut(t) \in TabType
         /\ LoggedOut(t).store = NoStore /\ LoggedOut(t).identity = tab[t].identity
         /\ LoggedOut(t).restoring = tab[t].restoring
         /\ LoggedOut(t).pending = tab[t].pending
<1>1. NewTab \in TabType /\ NoStore \in Store /\ \A s \in SessionIds : s \in 0..MaxSessions
  BY ClientConstants
<1>2. ASSUME NEW a \in Accounts, NEW s \in SessionIds
      PROVE  /\ SignedIn(a, s) \in TabType
             /\ SignedIn(a, s).store = [user |-> a, token |-> s]
             /\ SignedIn(a, s).identity = a /\ SignedIn(a, s).restoring = a
             /\ SignedIn(a, s).pending = 0
  <2>1. [user |-> a, token |-> s] \in Store
    BY <1>1 DEF Store
  <2> QED
    BY <1>1, <2>1 DEF SignedIn, TabType, NewTab
<1>3. /\ LoggedOut(t) \in TabType
      /\ LoggedOut(t).store = NoStore /\ LoggedOut(t).identity = tab[t].identity
      /\ LoggedOut(t).restoring = tab[t].restoring /\ LoggedOut(t).pending = tab[t].pending
  BY <1>1 DEF LoggedOut, TabType
<1> QED
  BY <1>2, <1>3

LEMMA ClientInvParts ==
  ASSUME ClientInv
  PROVE  /\ owner \in [SessionIds -> Accounts \union {NoAccount}]
         /\ current \in [SessionIds -> 0..MaxRotations] /\ revoked \subseteq SessionIds
         /\ cookie \in RefreshToken /\ saved \in Store /\ tab \in [Tabs -> TabType]
         /\ kept \subseteq Accounts /\ request \in [Requests -> RequestType]
         /\ reused \in BOOLEAN /\ overlapped \in BOOLEAN /\ crossing \in BOOLEAN
         /\ TokensAreOwned /\ TokensAreCurrent /\ AccountsApart
BY DEF ClientInv, ClientTypeOK, TabType, RequestType

(* A login, a registration and its entrance into the app.                  *)
LEMMA SubmitLoginStep ==
  ASSUME ClientInv, NEW t \in Tabs, NEW a \in Accounts, NEW s \in SessionIds,
         SubmitLogin(t, a, s)
  PROVE  ClientInv'
<1>1. /\ owner \in [SessionIds -> Accounts \union {NoAccount}]
      /\ current \in [SessionIds -> 0..MaxRotations] /\ revoked \subseteq SessionIds
      /\ tab \in [Tabs -> TabType] /\ request \in [Requests -> RequestType]
      /\ TokensAreOwned /\ TokensAreCurrent /\ AccountsApart
      /\ kept \subseteq Accounts /\ saved \in Store
      /\ reused \in BOOLEAN /\ overlapped \in BOOLEAN /\ crossing \in BOOLEAN
  BY ClientInvParts
<1>2. /\ owner[s] = NoAccount /\ owner'[s] = a /\ a # NoAccount
      /\ \A o \in SessionIds : o # s => owner'[o] = owner[o]
      /\ owner' \in [SessionIds -> Accounts \union {NoAccount}]
      /\ cookie' = [session |-> s, n |-> 0] /\ cookie' \in RefreshToken /\ cookie' # NoCookie
      /\ saved' = [user |-> a, token |-> s] /\ saved' \in Store
      /\ UserIn(t) = NoAccount /\ tab[t].pending = 0
      /\ UNCHANGED <<current, revoked, kept, request, reused, overlapped>>
      /\ crossing' <=> (crossing \/ OthersAtWork(t, a))
  BY <1>1, ClientConstants
     DEF SubmitLogin, FreshSession, LoginCookie, RefreshToken, Store, NoCookie
<1>3. /\ tab' \in [Tabs -> TabType]
      /\ tab'[t].store = [user |-> a, token |-> s] /\ tab'[t].identity = a
      /\ tab'[t].restoring = a /\ tab'[t].pending = 0
      /\ \A o \in Tabs : o # t => tab'[o] = tab[o]
  <2>1. tab' = [tab EXCEPT ![t] = SignedIn(a, s)]
    BY DEF SubmitLogin
  <2> QED
    BY <1>1, <2>1, TabStates
<1>4. ClientTypeOK'
  <2>1. crossing' \in BOOLEAN
    BY DEF SubmitLogin
  <2> QED
    BY <1>1, <1>2, <1>3, <2>1 DEF ClientTypeOK, TabType, RequestType
<1>5. TokensAreOwned'
  BY <1>1, <1>2, <1>3, ClientConstants
     DEF TokensAreOwned, HasOwner, UserIn, Busy, Refreshing
<1>6. TokensAreCurrent'
  <2>1. current[s] = 0
    BY <1>1, <1>2 DEF TokensAreOwned
  <2> QED
    BY <1>1, <1>2, <2>1 DEF TokensAreCurrent, Busy, Refreshing
<1>7. AccountsApart'
  <2> SUFFICES ASSUME ~crossing' PROVE AccountsApart'
    BY DEF AccountsApart
  <2>1. /\ \A o \in Tabs : o # t => UserIn(o) \in {a, NoAccount} /\ tab[o].pending = 0
        /\ \A o \in Tabs : tab[o].restoring \in {a, NoAccount}
        /\ \A r \in Requests : ~Busy(r)
    BY <1>2 DEF OthersAtWork
  <2>2. \A o \in Tabs : UserIn(o) # NoAccount =>
          /\ HasOwner(tab[o].store.token) /\ owner[tab[o].store.token] = UserIn(o)
          /\ tab[o].identity \in {UserIn(o), NoAccount}
    BY <1>1, <1>2 DEF AccountsApart
  <2>3. \A o \in Tabs : /\ UserIn(o)' \in {a, NoAccount} /\ tab'[o].pending = 0
                        /\ tab'[o].restoring \in {a, NoAccount}
    BY <1>2, <1>3, <2>1 DEF UserIn
  <2>4. ASSUME NEW o \in Tabs, UserIn(o)' # NoAccount
        PROVE  /\ HasOwner(tab[o].store.token)' /\ (owner[tab[o].store.token] = UserIn(o))'
               /\ tab'[o].identity \in {UserIn(o)', NoAccount}
    BY <1>2, <1>3, <2>2, <2>4 DEF UserIn, HasOwner
  <2>5. cookie'.session = s /\ HasOwner(s)' /\ saved'.token = s /\ saved'.user = a
    BY <1>2 DEF HasOwner
  <2>6. \A r \in Requests : ~Refreshing(r)'
    BY <1>2, <2>1 DEF Busy, Refreshing
  <2> QED
    BY <1>2, <2>3, <2>4, <2>5, <2>6 DEF AccountsApart
<1>8. RefreshesAloneAreSafe'
  BY <1>2 DEF ClientInv, RefreshesAloneAreSafe
<1> QED
  BY <1>4, <1>5, <1>6, <1>7, <1>8 DEF ClientInv

LEMMA RegisterStep ==
  ASSUME ClientInv, NEW t \in Tabs, NEW a \in Accounts, NEW s \in SessionIds,
         Register(t, a, s)
  PROVE  ClientInv'
<1>1. /\ owner \in [SessionIds -> Accounts \union {NoAccount}]
      /\ current \in [SessionIds -> 0..MaxRotations] /\ revoked \subseteq SessionIds
      /\ tab \in [Tabs -> TabType] /\ request \in [Requests -> RequestType]
      /\ TokensAreOwned /\ TokensAreCurrent /\ AccountsApart
      /\ kept \subseteq Accounts /\ saved \in Store
      /\ reused \in BOOLEAN /\ overlapped \in BOOLEAN /\ crossing \in BOOLEAN
  BY ClientInvParts
<1>2. /\ owner[s] = NoAccount /\ owner'[s] = a /\ a # NoAccount
      /\ \A o \in SessionIds : o # s => owner'[o] = owner[o]
      /\ owner' \in [SessionIds -> Accounts \union {NoAccount}]
      /\ cookie' = [session |-> s, n |-> 0] /\ cookie' \in RefreshToken /\ cookie' # NoCookie
      /\ UserIn(t) = NoAccount /\ tab[t].pending = 0 /\ \A o \in SessionIds : owner[o] # a
      /\ UNCHANGED <<current, revoked, saved, kept, request, reused, overlapped>>
      /\ crossing' <=> (crossing \/ OthersAtWork(t, a))
  BY <1>1, ClientConstants
     DEF Register, FreshSession, LoginCookie, RefreshToken, NoCookie
<1>3. /\ tab' \in [Tabs -> TabType] /\ tab'[t].pending = s
      /\ \A o \in Tabs : /\ tab'[o].store = tab[o].store /\ tab'[o].identity = tab[o].identity
                         /\ tab'[o].restoring = tab[o].restoring
                         /\ o # t => tab'[o].pending = tab[o].pending
  <2>1. tab' = [tab EXCEPT ![t].pending = s] /\ s \in 0..MaxSessions
    BY ClientConstants DEF Register
  <2> QED
    BY <1>1, <2>1 DEF TabType
<1>4. ClientTypeOK'
  <2>1. crossing' \in BOOLEAN
    BY DEF Register
  <2> QED
    BY <1>1, <1>2, <1>3, <2>1 DEF ClientTypeOK, TabType, RequestType
<1>5. TokensAreOwned'
  BY <1>1, <1>2, <1>3, ClientConstants
     DEF TokensAreOwned, HasOwner, UserIn, Busy, Refreshing
<1>6. TokensAreCurrent'
  <2>1. current[s] = 0
    BY <1>1, <1>2 DEF TokensAreOwned
  <2> QED
    BY <1>1, <1>2, <2>1 DEF TokensAreCurrent, Busy, Refreshing
<1>7. AccountsApart'
  <2> SUFFICES ASSUME ~crossing' PROVE AccountsApart'
    BY DEF AccountsApart
  <2>1. /\ \A o \in Tabs : o # t => UserIn(o) \in {a, NoAccount} /\ tab[o].pending = 0
        /\ \A r \in Requests : ~Busy(r)
    BY <1>2 DEF OthersAtWork
  <2>2. \A o \in Tabs : UserIn(o) # NoAccount =>
          HasOwner(tab[o].store.token) /\ owner[tab[o].store.token] = UserIn(o)
    BY <1>1, <1>2 DEF AccountsApart
  <2>3. \A o \in Tabs : UserIn(o)' = NoAccount
    <3>1. \A o \in Tabs : UserIn(o) = NoAccount
      BY <1>2, <2>1, <2>2 DEF HasOwner
    <3> QED
      BY <1>3, <3>1 DEF UserIn
  <2>4. saved.user # NoAccount =>
          HasOwner(saved.token)' /\ (owner[saved.token] = saved.user)'
    <3>1. saved.user # NoAccount => HasOwner(saved.token) /\ owner[saved.token] = saved.user
      BY <1>1, <1>2 DEF AccountsApart
    <3> QED
      BY <1>2, <3>1 DEF HasOwner
  <2>5. \A r \in Requests : ~Refreshing(r)'
    BY <1>2, <2>1 DEF Busy, Refreshing
  <2>6. \A o \in Tabs : tab'[o].pending # 0 => o = t
    BY <1>3, <2>1
  <2>7. cookie'.session = s
    BY <1>2
  <2> QED
    BY <1>2, <1>3, <2>3, <2>4, <2>5, <2>6, <2>7 DEF AccountsApart
<1>8. RefreshesAloneAreSafe'
  BY <1>2 DEF ClientInv, RefreshesAloneAreSafe
<1> QED
  BY <1>4, <1>5, <1>6, <1>7, <1>8 DEF ClientInv

LEMMA EnterAppStep ==
  ASSUME ClientInv, NEW t \in Tabs, EnterApp(t)
  PROVE  ClientInv'
<1> DEFINE s == tab[t].pending
           a == owner[tab[t].pending]
<1>1. /\ owner \in [SessionIds -> Accounts \union {NoAccount}]
      /\ current \in [SessionIds -> 0..MaxRotations] /\ revoked \subseteq SessionIds
      /\ tab \in [Tabs -> TabType] /\ request \in [Requests -> RequestType]
      /\ TokensAreOwned /\ TokensAreCurrent /\ AccountsApart
      /\ kept \subseteq Accounts /\ saved \in Store /\ cookie \in RefreshToken
      /\ reused \in BOOLEAN /\ overlapped \in BOOLEAN /\ crossing \in BOOLEAN
  BY ClientInvParts
<1>2. /\ s \in SessionIds /\ s # 0 /\ a \in Accounts /\ a # NoAccount /\ UserIn(t) = NoAccount
      /\ saved' = [user |-> a, token |-> s] /\ saved' \in Store
      /\ UNCHANGED <<owner, current, revoked, cookie, kept, request, reused, overlapped>>
      /\ crossing' <=> (crossing \/ OthersAtWork(t, a))
  <2>1. s # 0 /\ HasOwner(s) /\ UserIn(t) = NoAccount
    BY <1>1 DEF EnterApp, TokensAreOwned
  <2> QED
    BY <1>1, <2>1, ClientConstants DEF EnterApp, HasOwner, Store
<1>3. /\ tab' \in [Tabs -> TabType]
      /\ tab'[t].store = [user |-> a, token |-> s] /\ tab'[t].identity = a
      /\ tab'[t].restoring = a /\ tab'[t].pending = 0
      /\ \A o \in Tabs : o # t => tab'[o] = tab[o]
  <2>1. tab' = [tab EXCEPT ![t] = SignedIn(a, s)]
    BY DEF EnterApp
  <2> QED
    BY <1>1, <1>2, <2>1, TabStates
<1> HIDE DEF s, a
<1>4. ClientTypeOK'
  <2>1. crossing' \in BOOLEAN
    BY DEF EnterApp
  <2> QED
    BY <1>1, <1>2, <1>3, <2>1 DEF ClientTypeOK, TabType, RequestType
<1>5. TokensAreOwned'
  BY <1>1, <1>2, <1>3, ClientConstants
     DEF TokensAreOwned, HasOwner, UserIn, Busy, Refreshing
<1>6. TokensAreCurrent'
  BY <1>1, <1>2 DEF TokensAreCurrent, Busy, Refreshing
<1>7. AccountsApart'
  <2> SUFFICES ASSUME ~crossing' PROVE AccountsApart'
    BY DEF AccountsApart
  <2>1. /\ \A o \in Tabs : o # t => UserIn(o) \in {a, NoAccount} /\ tab[o].pending = 0
        /\ \A o \in Tabs : tab[o].restoring \in {a, NoAccount}
        /\ \A r \in Requests : ~Busy(r)
    BY <1>2 DEF OthersAtWork
  <2>2. \A o \in Tabs : UserIn(o) # NoAccount =>
          /\ HasOwner(tab[o].store.token) /\ owner[tab[o].store.token] = UserIn(o)
          /\ tab[o].identity \in {UserIn(o), NoAccount}
    BY <1>1, <1>2 DEF AccountsApart
  <2>3. cookie # NoCookie /\ owner[cookie.session] = a
    BY <1>1, <1>2 DEF AccountsApart, s, a
  <2>4. owner[s] = a
    BY DEF s, a
  <2>5. \A o \in Tabs : /\ UserIn(o)' \in {a, NoAccount} /\ tab'[o].pending = 0
                        /\ tab'[o].restoring \in {a, NoAccount}
    BY <1>2, <1>3, <2>1 DEF UserIn
  <2>6. ASSUME NEW o \in Tabs, UserIn(o)' # NoAccount
        PROVE  /\ HasOwner(tab[o].store.token)' /\ (owner[tab[o].store.token] = UserIn(o))'
               /\ tab'[o].identity \in {UserIn(o)', NoAccount}
    BY <1>2, <1>3, <2>2, <2>4, <2>6 DEF UserIn, HasOwner
  <2>7. (saved.user # NoAccount =>
           HasOwner(saved.token) /\ owner[saved.token] = saved.user)'
    BY <1>2, <2>4 DEF HasOwner
  <2>8. \A r \in Requests : ~Refreshing(r)'
    BY <1>2, <2>1 DEF Busy, Refreshing
  <2> QED
    BY <1>2, <2>3, <2>4, <2>5, <2>6, <2>7, <2>8 DEF AccountsApart
<1>8. RefreshesAloneAreSafe'
  BY <1>2 DEF ClientInv, RefreshesAloneAreSafe
<1> QED
  BY <1>4, <1>5, <1>6, <1>7, <1>8 DEF ClientInv

(* What the keystore gives back, a sign-out and a load of the page.        *)
LEMMA RestoredStep ==
  ASSUME ClientInv, NEW t \in Tabs, Restored(t)
  PROVE  ClientInv'
<1>1. /\ owner \in [SessionIds -> Accounts \union {NoAccount}]
      /\ current \in [SessionIds -> 0..MaxRotations] /\ revoked \subseteq SessionIds
      /\ tab \in [Tabs -> TabType] /\ request \in [Requests -> RequestType]
      /\ TokensAreOwned /\ TokensAreCurrent /\ AccountsApart
      /\ kept \subseteq Accounts /\ saved \in Store /\ cookie \in RefreshToken
      /\ reused \in BOOLEAN /\ overlapped \in BOOLEAN /\ crossing \in BOOLEAN
  BY ClientInvParts
<1>2. PICK i \in Kept(tab[t].restoring) \union {tab[t].identity} :
        tab' = [tab EXCEPT ![t].restoring = NoAccount, ![t].identity = i]
  BY DEF Restored
<1>3. UNCHANGED <<owner, current, revoked, cookie, saved, kept, request, reused,
                  overlapped, crossing>>
  BY DEF Restored
<1>4. i \in {tab[t].restoring, tab[t].identity} /\ i \in Accounts \union {NoAccount}
  BY <1>1, <1>2 DEF Kept, TabType
<1>5. /\ tab' \in [Tabs -> TabType] /\ tab'[t].identity = i
      /\ \A o \in Tabs : /\ tab'[o].store = tab[o].store /\ tab'[o].pending = tab[o].pending
                         /\ tab'[o].restoring \in {tab[o].restoring, NoAccount}
                         /\ o # t => tab'[o].identity = tab[o].identity
  BY <1>1, <1>2, <1>4 DEF TabType
<1>6. ClientTypeOK'
  BY <1>1, <1>3, <1>5 DEF ClientTypeOK, TabType, RequestType
<1>7. TokensAreOwned' /\ TokensAreCurrent'
  BY <1>1, <1>3, <1>5
     DEF TokensAreOwned, TokensAreCurrent, HasOwner, UserIn, Busy, Refreshing
<1>8. AccountsApart'
  <2>1. \A o \in Tabs : UserIn(o)' = UserIn(o)
    BY <1>5 DEF UserIn
  <2>2. ~crossing /\ UserIn(t) # NoAccount => i \in {UserIn(t), NoAccount}
    BY <1>1, <1>4 DEF AccountsApart
  <2> QED
    BY <1>1, <1>3, <1>5, <2>1, <2>2 DEF AccountsApart, HasOwner, Refreshing
<1>9. RefreshesAloneAreSafe'
  BY <1>3 DEF ClientInv, RefreshesAloneAreSafe
<1> QED
  BY <1>6, <1>7, <1>8, <1>9 DEF ClientInv

LEMMA LogoutStep ==
  ASSUME ClientInv, NEW t \in Tabs, Logout(t)
  PROVE  ClientInv'
<1>1. /\ owner \in [SessionIds -> Accounts \union {NoAccount}]
      /\ current \in [SessionIds -> 0..MaxRotations] /\ revoked \subseteq SessionIds
      /\ tab \in [Tabs -> TabType] /\ request \in [Requests -> RequestType]
      /\ TokensAreOwned /\ TokensAreCurrent /\ AccountsApart
      /\ kept \subseteq Accounts /\ saved \in Store /\ cookie \in RefreshToken
      /\ reused \in BOOLEAN /\ overlapped \in BOOLEAN /\ crossing \in BOOLEAN
  BY ClientInvParts
<1>2. /\ tab' \in [Tabs -> TabType] /\ UserIn(t)' = NoAccount
      /\ \A o \in Tabs : /\ tab'[o].pending = tab[o].pending
                         /\ tab'[o].restoring = tab[o].restoring
                         /\ tab'[o].identity = tab[o].identity
                         /\ o # t => tab'[o].store = tab[o].store
      /\ saved' = NoStore /\ saved' \in Store /\ saved'.user = NoAccount
      /\ UNCHANGED <<owner, current, revoked, cookie, kept, request, reused,
                     overlapped, crossing>>
  BY <1>1, TabStates, ClientConstants DEF Logout, UserIn
<1>3. ClientTypeOK'
  BY <1>1, <1>2 DEF ClientTypeOK, TabType, RequestType
<1>4. TokensAreOwned' /\ TokensAreCurrent' /\ AccountsApart'
  <2>1. \A o \in Tabs : UserIn(o)' # NoAccount => o # t /\ UserIn(o)' = UserIn(o)
    BY <1>2 DEF UserIn
  <2>2. TokensAreOwned'
    BY <1>1, <1>2, <2>1 DEF TokensAreOwned, HasOwner, Busy, Refreshing
  <2>3. TokensAreCurrent'
    BY <1>1, <1>2 DEF TokensAreCurrent, Busy, Refreshing
  <2>4. AccountsApart'
    BY <1>1, <1>2, <2>1 DEF AccountsApart, HasOwner, Refreshing
  <2> QED
    BY <2>2, <2>3, <2>4
<1>5. RefreshesAloneAreSafe'
  BY <1>2 DEF ClientInv, RefreshesAloneAreSafe
<1> QED
  BY <1>3, <1>4, <1>5 DEF ClientInv

LEMMA LoadStep ==
  ASSUME ClientInv, NEW t \in Tabs, Load(t)
  PROVE  ClientInv'
<1>1. /\ owner \in [SessionIds -> Accounts \union {NoAccount}]
      /\ current \in [SessionIds -> 0..MaxRotations] /\ revoked \subseteq SessionIds
      /\ tab \in [Tabs -> TabType] /\ request \in [Requests -> RequestType]
      /\ TokensAreOwned /\ TokensAreCurrent /\ AccountsApart
      /\ kept \subseteq Accounts /\ saved \in Store /\ cookie \in RefreshToken
      /\ reused \in BOOLEAN /\ overlapped \in BOOLEAN /\ crossing \in BOOLEAN
  BY ClientInvParts
<1>2. /\ tab' \in [Tabs -> TabType] /\ tab'[t].store = saved
      /\ tab'[t].restoring = saved.user /\ tab'[t].identity = NoAccount
      /\ tab'[t].pending = 0 /\ \A o \in Tabs : o # t => tab'[o] = tab[o]
  <2> DEFINE new == [NewTab EXCEPT !.store = saved, !.restoring = saved.user]
  <2>1. /\ new \in TabType /\ new.store = saved /\ new.restoring = saved.user
        /\ new.identity = NoAccount /\ new.pending = 0
    BY <1>1, ClientConstants DEF NewTab, TabType, Store
  <2>2. tab' = [tab EXCEPT ![t] = new]
    BY DEF Load
  <2> QED
    BY <1>1, <2>1, <2>2
<1>3. /\ request' \in [Requests -> RequestType]
      /\ \A r \in Requests : request[r].tab = t => request'[r] = NoRequest
      /\ \A r \in Requests : request[r].tab # t => request'[r] = request[r]
      /\ UNCHANGED <<owner, current, revoked, cookie, saved, kept, reused, crossing>>
      /\ overlapped' <=> (overlapped \/ \E r \in Requests : request[r].tab = t
                                            /\ request[r].pc = "refreshed")
  BY <1>1, ClientConstants DEF Load
<1>4. ClientTypeOK'
  <2>1. overlapped' \in BOOLEAN
    BY DEF Load
  <2> QED
    BY <1>1, <1>2, <1>3, <2>1 DEF ClientTypeOK, TabType, RequestType
<1>5. TokensAreOwned'
  <2>1. saved'.user # NoAccount => UserIn(t)' = saved'.user
    BY <1>2, <1>3 DEF UserIn
  <2>2. \A r \in Requests : Busy(r)' => request'[r] = request[r] /\ Busy(r)
    BY <1>3, ClientConstants DEF Busy
  <2>3. \A r \in Requests : Refreshing(r) => Busy(r)
    BY DEF Busy, Refreshing
  <2>4. \A r \in Requests : Refreshing(r)' => Refreshing(r) /\ request'[r] = request[r]
    BY <1>3, ClientConstants DEF Refreshing
  <2> QED
    BY <1>1, <1>2, <1>3, <2>1, <2>2, <2>4 DEF TokensAreOwned, HasOwner, UserIn
<1>6. TokensAreCurrent'
  <2> SUFFICES ASSUME ~overlapped' PROVE TokensAreCurrent'
    BY DEF TokensAreCurrent
  <2>1. \A r \in Requests : request[r].pc = "refreshed" => request'[r] = request[r]
    BY <1>3
  <2>2. \A r \in Requests : Busy(r)' => request'[r] = request[r]
    BY <1>3, ClientConstants DEF Busy
  <2>3. \A r \in Requests : Refreshing(r)' => request'[r] = request[r]
    BY <1>3, ClientConstants DEF Refreshing
  <2> QED
    BY <1>1, <1>3, <2>1, <2>2, <2>3 DEF TokensAreCurrent, Busy, Refreshing
<1>7. AccountsApart'
  <2> SUFFICES ASSUME ~crossing' PROVE AccountsApart'
    BY DEF AccountsApart
  <2>1. \A q \in Tabs : UserIn(q) # NoAccount =>
          /\ HasOwner(tab[q].store.token) /\ owner[tab[q].store.token] = UserIn(q)
          /\ tab[q].identity \in {UserIn(q), NoAccount}
          /\ cookie # NoCookie /\ owner[cookie.session] = UserIn(q)
          /\ \A o \in Tabs : /\ UserIn(o) \in {UserIn(q), NoAccount}
                             /\ tab[o].restoring \in {UserIn(q), NoAccount}
    BY <1>1, <1>3 DEF AccountsApart
  <2>2. saved.user # NoAccount => /\ HasOwner(saved.token) /\ owner[saved.token] = saved.user
                                  /\ \E q \in Tabs : UserIn(q) = saved.user
    BY <1>1, <1>3 DEF AccountsApart, TokensAreOwned
  <2>3. UserIn(t)' = saved.user /\ \A o \in Tabs : o # t => UserIn(o)' = UserIn(o)
    BY <1>2 DEF UserIn
  <2>4. \A q \in Tabs, o \in Tabs : UserIn(q)' # NoAccount =>
          /\ UserIn(o)' \in {UserIn(q)', NoAccount}
          /\ tab'[o].restoring \in {UserIn(q)', NoAccount}
    BY <1>2, <2>1, <2>2, <2>3
  <2>5. \A q \in Tabs : UserIn(q)' # NoAccount =>
          /\ HasOwner(tab[q].store.token)' /\ (owner[tab[q].store.token] = UserIn(q))'
          /\ tab'[q].identity \in {UserIn(q)', NoAccount}
    BY <1>2, <1>3, <2>1, <2>2, <2>3 DEF HasOwner
  <2>6. \A q \in Tabs : UserIn(q)' # NoAccount =>
          cookie # NoCookie /\ owner[cookie.session] = UserIn(q)'
    BY <2>1, <2>2, <2>3
  <2>7. \A o \in Tabs : tab'[o].pending # 0 =>
          cookie # NoCookie /\ owner[cookie.session] = owner[tab'[o].pending]
    BY <1>1, <1>2, <1>3 DEF AccountsApart
  <2>8. \A r \in Requests : Refreshing(r)' =>
          cookie # NoCookie /\ owner[request'[r].token.session] = owner[cookie.session]
    <3>1. \A r \in Requests : Refreshing(r)' => Refreshing(r) /\ request'[r] = request[r]
      BY <1>3, ClientConstants DEF Refreshing
    <3> QED
      BY <1>1, <1>3, <3>1 DEF AccountsApart
  <2>9. (saved.user # NoAccount => HasOwner(saved.token) /\ owner[saved.token] = saved.user)'
    BY <1>3, <2>2 DEF HasOwner
  <2> QED
    BY <1>3, <2>4, <2>5, <2>6, <2>7, <2>8, <2>9 DEF AccountsApart
<1>8. RefreshesAloneAreSafe'
  BY <1>3 DEF ClientInv, RefreshesAloneAreSafe
<1> QED
  BY <1>4, <1>5, <1>6, <1>7, <1>8 DEF ClientInv

(* A call that is answered 401, and its refresh.                           *)
LEMMA UnauthorizedStep ==
  ASSUME ClientInv, NEW r \in Requests, NEW t \in Tabs, Unauthorized(r, t)
  PROVE  ClientInv'
<1>1. /\ owner \in [SessionIds -> Accounts \union {NoAccount}]
      /\ current \in [SessionIds -> 0..MaxRotations] /\ revoked \subseteq SessionIds
      /\ tab \in [Tabs -> TabType] /\ request \in [Requests -> RequestType]
      /\ TokensAreOwned /\ TokensAreCurrent /\ AccountsApart
      /\ kept \subseteq Accounts /\ saved \in Store /\ cookie \in RefreshToken
      /\ reused \in BOOLEAN /\ overlapped \in BOOLEAN /\ crossing \in BOOLEAN
  BY ClientInvParts
<1>2. /\ ~Busy(r) /\ request' \in [Requests -> RequestType]
      /\ request'[r].tab = t /\ request'[r].token = cookie
      /\ cookie = NoCookie => request'[r].pc = "refused"
      /\ cookie # NoCookie => request'[r].pc = "refreshing"
      /\ \A q \in Requests : q # r => request'[q] = request[q]
  <2> DEFINE new == [pc |-> IF cookie = NoCookie THEN "refused" ELSE "refreshing",
                     tab |-> t, token |-> cookie]
  <2>1. new \in RequestType /\ new.tab = t /\ new.token = cookie
        /\ (cookie = NoCookie => new.pc = "refused")
        /\ (cookie # NoCookie => new.pc = "refreshing")
    BY <1>1 DEF RequestType
  <2>2. request' = [request EXCEPT ![r] = new] /\ ~Busy(r)
    BY DEF Unauthorized
  <2> HIDE DEF new
  <2> QED
    BY <1>1, <2>1, <2>2
<1>3. /\ UNCHANGED <<owner, current, revoked, cookie, saved, tab, kept, reused, crossing>>
      /\ overlapped' \in BOOLEAN
      /\ ~overlapped' => ~overlapped /\ \A q \in Requests : ~Busy(q)
  BY DEF Unauthorized
<1>4. ClientTypeOK'
  BY <1>1, <1>2, <1>3 DEF ClientTypeOK, TabType, RequestType
<1>5. TokensAreOwned'
  BY <1>1, <1>2, <1>3 DEF TokensAreOwned, HasOwner, UserIn, Busy, Refreshing
<1>6. TokensAreCurrent'
  <2> SUFFICES ASSUME ~overlapped' PROVE TokensAreCurrent'
    BY DEF TokensAreCurrent
  <2>1. \A q \in Requests : q # r => ~Busy(q)' /\ ~Refreshing(q)'
    BY <1>2, <1>3 DEF Busy, Refreshing
  <2>2. cookie = NoCookie \/ cookie.n = current[cookie.session]
    BY <1>1, <1>3 DEF TokensAreCurrent, Busy
  <2>3. Refreshing(r)' => request'[r].token.n = current[request'[r].token.session]
    BY <1>2, <2>2 DEF Refreshing
  <2> QED
    BY <1>3, <2>1, <2>2, <2>3 DEF TokensAreCurrent
<1>7. AccountsApart'
  <2>1. \A q \in Requests : Refreshing(q)' =>
          \/ Refreshing(q) /\ request'[q] = request[q]
          \/ cookie # NoCookie /\ request'[q].token = cookie
    BY <1>2 DEF Refreshing
  <2> QED
    BY <1>1, <1>3, <2>1 DEF AccountsApart, HasOwner, UserIn
<1>8. RefreshesAloneAreSafe'
  BY <1>3 DEF ClientInv, RefreshesAloneAreSafe, Unauthorized
<1> QED
  BY <1>4, <1>5, <1>6, <1>7, <1>8 DEF ClientInv

LEMMA RotateStep ==
  ASSUME ClientInv, NEW r \in Requests, Rotate(r)
  PROVE  ClientInv'
<1> DEFINE s == request[r].token.session
           n == request[r].token.n
<1>1. /\ owner \in [SessionIds -> Accounts \union {NoAccount}]
      /\ current \in [SessionIds -> 0..MaxRotations] /\ revoked \subseteq SessionIds
      /\ tab \in [Tabs -> TabType] /\ request \in [Requests -> RequestType]
      /\ TokensAreOwned /\ TokensAreCurrent /\ AccountsApart
      /\ kept \subseteq Accounts /\ saved \in Store /\ cookie \in RefreshToken
      /\ reused \in BOOLEAN /\ overlapped \in BOOLEAN /\ crossing \in BOOLEAN
  BY ClientInvParts
<1>2. /\ request[r].pc = "refreshing" /\ Busy(r) /\ Refreshing(r)
      /\ s \in SessionIds /\ owner[s] # NoAccount /\ n \in 0..MaxRotations
      /\ UNCHANGED <<owner, cookie, saved, tab, kept, overlapped, crossing>>
  <2>1. request[r].pc = "refreshing" /\ Busy(r) /\ Refreshing(r)
    BY DEF Rotate, Busy, Refreshing
  <2>2. HasOwner(s)
    BY <1>1, <2>1 DEF TokensAreOwned
  <2>3. n \in 0..MaxRotations
    BY <1>1 DEF RequestType, RefreshToken
  <2> QED
    BY <2>1, <2>2, <2>3 DEF Rotate, HasOwner
<1>3. ~overlapped => /\ \A q \in Requests : Busy(q) => q = r
                     /\ n = current[s]
                     /\ cookie = NoCookie \/ cookie.n = current[cookie.session]
  <2> SUFFICES ASSUME ~overlapped
               PROVE  /\ \A q \in Requests : Busy(q) => q = r
                      /\ n = current[s]
                      /\ cookie = NoCookie \/ cookie.n = current[cookie.session]
    OBVIOUS
  <2>1. /\ \A q \in Requests : Busy(q) => q = r
        /\ n = current[s]
    BY <1>1, <1>2 DEF TokensAreCurrent
  <2>2. \A q \in Requests : request[q].pc = "refreshed" => Busy(q) /\ q # r
    BY <1>2 DEF Busy
  <2> QED
    BY <1>1, <2>1, <2>2 DEF TokensAreCurrent
<1>4. \/ /\ request' = [request EXCEPT ![r].pc = "refused"]
         /\ revoked' \subseteq revoked \union {s} /\ UNCHANGED current
         /\ reused' \in BOOLEAN /\ (reused' => reused \/ n # current[s])
      \/ /\ n = current[s] /\ n < MaxRotations
         /\ current' = [current EXCEPT ![s] = n + 1]
         /\ request' = [request EXCEPT ![r].pc = "refreshed", ![r].token.n = n + 1]
         /\ UNCHANGED <<revoked, reused>>
  <2>1. CASE s \in revoked
    BY <1>1, <2>1 DEF Rotate
  <2>2. CASE s \notin revoked /\ n # current[s]
    BY <1>1, <2>2 DEF Rotate
  <2>3. CASE s \notin revoked /\ n = current[s]
    BY <1>1, <2>3 DEF Rotate
  <2> QED
    BY <2>1, <2>2, <2>3
<1>5. CASE /\ request' = [request EXCEPT ![r].pc = "refused"]
           /\ revoked' \subseteq revoked \union {s} /\ UNCHANGED current
           /\ reused' \in BOOLEAN /\ (reused' => reused \/ n # current[s])
  <2>1. /\ request' \in [Requests -> RequestType] /\ request'[r].pc = "refused"
        /\ request'[r].tab = request[r].tab
        /\ \A q \in Requests : q # r => request'[q] = request[q]
    BY <1>1, <1>5 DEF RequestType
  <2>2. ClientTypeOK'
    BY <1>1, <1>2, <1>5, <2>1 DEF ClientTypeOK, TabType, RequestType
  <2>3. TokensAreOwned'
    BY <1>1, <1>2, <1>5, <2>1 DEF TokensAreOwned, HasOwner, UserIn, Busy, Refreshing
  <2>4. TokensAreCurrent'
    BY <1>2, <1>3, <1>5, <2>1 DEF TokensAreCurrent, Busy, Refreshing
  <2>5. AccountsApart'
    BY <1>1, <1>2, <2>1 DEF AccountsApart, HasOwner, UserIn, Refreshing
  <2>6. RefreshesAloneAreSafe'
    BY <1>2, <1>3, <1>5 DEF ClientInv, RefreshesAloneAreSafe
  <2> QED
    BY <2>2, <2>3, <2>4, <2>5, <2>6 DEF ClientInv
<1>6. CASE /\ n = current[s] /\ n < MaxRotations
           /\ current' = [current EXCEPT ![s] = n + 1]
           /\ request' = [request EXCEPT ![r].pc = "refreshed", ![r].token.n = n + 1]
           /\ UNCHANGED <<revoked, reused>>
  <2>1. n + 1 \in 0..MaxRotations
    BY <1>2, <1>6, ClientConstants
  <2>2. /\ request' \in [Requests -> RequestType] /\ request'[r].pc = "refreshed"
        /\ request'[r].tab = request[r].tab
        /\ request'[r].token.session = s /\ request'[r].token.n = n + 1
        /\ \A q \in Requests : q # r => request'[q] = request[q]
    <3>1. [request[r].token EXCEPT !.n = n + 1] \in RefreshToken
      BY <1>1, <2>1 DEF RequestType, RefreshToken
    <3> QED
      BY <1>1, <1>6, <3>1 DEF RequestType, RefreshToken
  <2>3. /\ current' \in [SessionIds -> 0..MaxRotations] /\ current'[s] = n + 1
        /\ \A o \in SessionIds : o # s => current'[o] = current[o]
    BY <1>1, <1>2, <1>6, <2>1
  <2> HIDE DEF s, n
  <2>4. ClientTypeOK'
    BY <1>1, <1>2, <1>6, <2>2, <2>3 DEF ClientTypeOK, TabType, RequestType
  <2>5. TokensAreOwned'
    BY <1>1, <1>2, <2>2, <2>3 DEF TokensAreOwned, HasOwner, UserIn, Busy, Refreshing, s
  <2>6. TokensAreCurrent'
    <3> SUFFICES ASSUME ~overlapped PROVE TokensAreCurrent'
      BY <1>2 DEF TokensAreCurrent
    <3>1. \A q \in Requests : Busy(q)' \/ Refreshing(q)' => q = r
      BY <1>3, <2>2 DEF Busy, Refreshing
    <3>2. request'[r].token.n = current'[request'[r].token.session]
      BY <2>2, <2>3
    <3>3. \/ cookie' = NoCookie \/ cookie'.n = current'[cookie'.session]
          \/ request'[r].pc = "refreshed" /\ request'[r].token.session = cookie'.session
      <4>1. cookie = NoCookie \/ cookie.session \in SessionIds
        BY <1>1 DEF TokensAreOwned, HasOwner
      <4> QED
        BY <1>2, <1>3, <2>2, <2>3, <4>1
    <3> QED
      BY <3>1, <3>2, <3>3 DEF TokensAreCurrent
  <2>7. AccountsApart'
    <3>1. \A q \in Requests : Refreshing(q)' =>
            Refreshing(q) /\ request'[q].token.session = request[q].token.session
      BY <1>2, <2>2 DEF Refreshing, s
    <3> QED
      BY <1>1, <1>2, <3>1 DEF AccountsApart, HasOwner, UserIn
  <2>8. RefreshesAloneAreSafe'
    BY <1>2, <1>6 DEF ClientInv, RefreshesAloneAreSafe
  <2> QED
    BY <2>4, <2>5, <2>6, <2>7, <2>8 DEF ClientInv
<1> QED
  BY <1>4, <1>5, <1>6

LEMMA RefreshedStep ==
  ASSUME ClientInv, NEW r \in Requests, Refreshed(r)
  PROVE  ClientInv'
<1>1. /\ owner \in [SessionIds -> Accounts \union {NoAccount}]
      /\ current \in [SessionIds -> 0..MaxRotations] /\ revoked \subseteq SessionIds
      /\ tab \in [Tabs -> TabType] /\ request \in [Requests -> RequestType]
      /\ TokensAreOwned /\ TokensAreCurrent /\ AccountsApart
      /\ kept \subseteq Accounts /\ saved \in Store /\ cookie \in RefreshToken
      /\ reused \in BOOLEAN /\ overlapped \in BOOLEAN /\ crossing \in BOOLEAN
  BY ClientInvParts
<1>2. PICK t \in Tabs, answer \in RefreshToken :
      /\ t = request[r].tab /\ answer = request[r].token
      /\ request[r].pc = "refreshed" /\ Busy(r) /\ Refreshing(r)
      /\ answer.session \in SessionIds /\ owner[answer.session] # NoAccount
      /\ cookie' = answer /\ answer # NoCookie
  <2>1. request[r].pc = "refreshed" /\ Busy(r) /\ Refreshing(r)
    BY DEF Refreshed, Busy, Refreshing
  <2>2. HasOwner(request[r].token.session) /\ request[r].tab \in Tabs
    BY <1>1, <2>1 DEF TokensAreOwned
  <2>3. request[r].token \in RefreshToken
    BY <1>1 DEF RequestType
  <2> QED
    BY <2>1, <2>2, <2>3, ClientConstants DEF Refreshed, NewCookie, HasOwner
<1>3. /\ request' \in [Requests -> RequestType] /\ request'[r] = NoRequest
      /\ request'[r].pc = "idle"
      /\ \A q \in Requests : q # r => request'[q] = request[q]
      /\ UNCHANGED <<owner, current, revoked, kept, reused, overlapped, crossing>>
  BY <1>1, ClientConstants DEF Refreshed
<1>4. /\ tab' \in [Tabs -> TabType] /\ saved' \in Store
      /\ \A o \in Tabs : /\ UserIn(o)' = UserIn(o) /\ tab'[o].identity = tab[o].identity
                         /\ tab'[o].restoring = tab[o].restoring
                         /\ tab'[o].pending = tab[o].pending
                         /\ \/ tab'[o].store = tab[o].store
                            \/ UserIn(o) # NoAccount /\ tab'[o].store.token = answer.session
      /\ \/ saved' = saved
         \/ saved'.user = UserIn(t) /\ saved'.token = answer.session
  <2>1. CASE UserIn(t) = NoAccount
    BY <1>1, <1>2, <2>1 DEF Refreshed, UserIn
  <2>2. CASE UserIn(t) # NoAccount
    <3> DEFINE store == [user |-> UserIn(t), token |-> answer.session]
    <3>1. store \in Store /\ store.user = UserIn(t) /\ store.token = answer.session
      BY <1>1, <1>2, ClientConstants DEF Store, UserIn, TabType
    <3>2. tab' = [tab EXCEPT ![t].store = store] /\ saved' = store
      BY <1>2, <2>2 DEF Refreshed
    <3> HIDE DEF store
    <3>3. \A o \in Tabs : tab'[o].store.user = tab[o].store.user
      BY <1>1, <3>1, <3>2 DEF UserIn
    <3>4. tab' \in [Tabs -> TabType]
      <4>1. [tab[t] EXCEPT !.store = store] \in TabType
        BY <1>1, <3>1 DEF TabType
      <4> QED
        BY <1>1, <3>2, <4>1
    <3> QED
      BY <1>1, <2>2, <3>1, <3>2, <3>3, <3>4 DEF TabType, UserIn
  <2> QED
    BY <2>1, <2>2
<1>5. ClientTypeOK'
  BY <1>1, <1>2, <1>3, <1>4 DEF ClientTypeOK, TabType, RequestType
<1>6. TokensAreOwned'
  BY <1>1, <1>2, <1>3, <1>4 DEF TokensAreOwned, HasOwner, Busy, Refreshing
<1>7. TokensAreCurrent'
  <2> SUFFICES ASSUME ~overlapped PROVE TokensAreCurrent'
    BY <1>3 DEF TokensAreCurrent
  <2>1. \A q \in Requests : ~Busy(q)' /\ ~Refreshing(q)'
    BY <1>1, <1>2, <1>3 DEF TokensAreCurrent, Busy, Refreshing
  <2>2. answer.n = current[answer.session]
    BY <1>1, <1>2 DEF TokensAreCurrent
  <2> QED
    BY <1>2, <1>3, <2>1, <2>2 DEF TokensAreCurrent
<1>8. AccountsApart'
  <2> SUFFICES ASSUME ~crossing PROVE AccountsApart'
    BY <1>3 DEF AccountsApart
  <2>1. cookie # NoCookie /\ owner[answer.session] = owner[cookie.session]
    BY <1>1, <1>2 DEF AccountsApart
  <2>2. \A q \in Requests : Refreshing(q)' => Refreshing(q) /\ request'[q] = request[q]
    BY <1>3 DEF Refreshing
  <2>3. \A q \in Requests : Refreshing(q)' =>
          owner[request'[q].token.session] = owner[cookie'.session]
    BY <1>1, <1>2, <2>1, <2>2 DEF AccountsApart
  <2>4. \A o \in Tabs : tab'[o].pending # 0 => owner[cookie'.session] = owner[tab'[o].pending]
    BY <1>1, <1>2, <1>4, <2>1 DEF AccountsApart
  <2>5. \A o \in Tabs : UserIn(o) # NoAccount =>
          owner[answer.session] = UserIn(o) /\ HasOwner(answer.session)
    BY <1>1, <1>2, <2>1 DEF AccountsApart, HasOwner
  <2>6. (saved.user # NoAccount => HasOwner(saved.token) /\ owner[saved.token] = saved.user)'
    BY <1>1, <1>2, <1>3, <1>4, <2>5 DEF AccountsApart, HasOwner
  <2>7. \A o \in Tabs : UserIn(o)' # NoAccount =>
          /\ HasOwner(tab[o].store.token)' /\ (owner[tab[o].store.token] = UserIn(o))'
          /\ tab'[o].identity \in {UserIn(o)', NoAccount}
    BY <1>1, <1>2, <1>3, <1>4, <2>5 DEF AccountsApart, HasOwner
  <2>8. \A q \in Tabs : UserIn(q)' # NoAccount =>
          /\ owner'[cookie'.session] = UserIn(q)'
          /\ \A o \in Tabs : /\ UserIn(o)' \in {UserIn(q)', NoAccount}
                             /\ tab'[o].restoring \in {UserIn(q)', NoAccount}
    BY <1>1, <1>2, <1>3, <1>4, <2>5 DEF AccountsApart
  <2> QED
    BY <1>2, <1>3, <2>3, <2>4, <2>6, <2>7, <2>8 DEF AccountsApart
<1>9. RefreshesAloneAreSafe'
  BY <1>3 DEF ClientInv, RefreshesAloneAreSafe
<1> QED
  BY <1>5, <1>6, <1>7, <1>8, <1>9 DEF ClientInv

LEMMA RefreshFailsStep ==
  ASSUME ClientInv, NEW r \in Requests, RefreshFails(r)
  PROVE  ClientInv'
<1>1. /\ owner \in [SessionIds -> Accounts \union {NoAccount}]
      /\ current \in [SessionIds -> 0..MaxRotations] /\ revoked \subseteq SessionIds
      /\ tab \in [Tabs -> TabType] /\ request \in [Requests -> RequestType]
      /\ TokensAreOwned /\ TokensAreCurrent /\ AccountsApart
      /\ kept \subseteq Accounts /\ saved \in Store /\ cookie \in RefreshToken
      /\ reused \in BOOLEAN /\ overlapped \in BOOLEAN /\ crossing \in BOOLEAN
  BY ClientInvParts
<1>2. PICK t \in Tabs : t = request[r].tab
  BY <1>1 DEF RefreshFails, TokensAreOwned
<1>3. /\ tab' \in [Tabs -> TabType] /\ UserIn(t)' = NoAccount
      /\ \A o \in Tabs : /\ tab'[o].pending = tab[o].pending
                         /\ tab'[o].restoring = tab[o].restoring
                         /\ tab'[o].identity = tab[o].identity
                         /\ o # t => tab'[o].store = tab[o].store
      /\ saved' = NoStore /\ saved' \in Store /\ saved'.user = NoAccount
      /\ UNCHANGED <<owner, current, revoked, cookie, kept, reused, crossing>>
  <2>1. tab' = [tab EXCEPT ![t] = LoggedOut(t)] /\ saved' = NoStore
        /\ UNCHANGED <<owner, current, revoked, cookie, kept, reused, crossing>>
    BY <1>2 DEF RefreshFails
  <2> QED
    BY <1>1, <1>2, <2>1, TabStates, ClientConstants DEF UserIn
<1>4. /\ request' \in [Requests -> RequestType] /\ request'[r] = NoRequest
      /\ request'[r].pc = "idle"
      /\ \A q \in Requests : q # r => request'[q] = request[q]
      /\ overlapped' \in BOOLEAN /\ (overlapped => overlapped')
      /\ (~overlapped' => request[r].pc # "refreshed")
  BY <1>1, ClientConstants DEF RefreshFails
<1>5. ClientTypeOK'
  BY <1>1, <1>3, <1>4 DEF ClientTypeOK, TabType, RequestType
<1>6. \A o \in Tabs : UserIn(o)' # NoAccount => UserIn(o)' = UserIn(o)
  BY <1>3 DEF UserIn
<1>7. TokensAreOwned'
  BY <1>1, <1>3, <1>4, <1>6 DEF TokensAreOwned, HasOwner, Busy, Refreshing
<1>8. TokensAreCurrent'
  BY <1>1, <1>3, <1>4 DEF TokensAreCurrent, Busy, Refreshing
<1>9. AccountsApart'
  <2>1. \A q \in Requests : Refreshing(q)' => Refreshing(q) /\ request'[q] = request[q]
    BY <1>4 DEF Refreshing
  <2> QED
    BY <1>1, <1>3, <1>6, <2>1 DEF AccountsApart, HasOwner
<1>10. RefreshesAloneAreSafe'
  BY <1>3, <1>4 DEF ClientInv, RefreshesAloneAreSafe
<1> QED
  BY <1>5, <1>7, <1>8, <1>9, <1>10 DEF ClientInv

LEMMA ClientStep ==
  ASSUME ClientInv, [ClientNext]_browserVars
  PROVE  ClientInv'
<1>1. ASSUME \/ UNCHANGED browserVars
             \/ \E t \in Tabs : KeepKeys(t)
             \/ \E s \in SessionIds : SessionRevoked(s)
      PROVE  ClientInv'
  <2>1. /\ kept' \subseteq Accounts /\ revoked' \subseteq SessionIds
        /\ UNCHANGED <<owner, current, cookie, saved, tab, request, reused, overlapped,
                       crossing>>
    <3>1. /\ kept \subseteq Accounts /\ revoked \subseteq SessionIds /\ tab \in [Tabs -> TabType]
      BY ClientInvParts
    <3>2. CASE \E t \in Tabs : KeepKeys(t)
      <4>1. PICK t \in Tabs : KeepKeys(t)
        BY <3>2
      <4>2. UserIn(t) \in Accounts
        BY <3>1, <4>1 DEF KeepKeys, UserIn, TabType, Store
      <4> QED
        BY <3>1, <4>1, <4>2 DEF KeepKeys
    <3>3. CASE \E s \in SessionIds : SessionRevoked(s)
      BY <3>1, <3>3 DEF SessionRevoked
    <3> QED
      BY <1>1, <3>1, <3>2, <3>3 DEF browserVars
  <2> QED
    BY <2>1 DEF ClientInv, ClientTypeOK, TokensAreOwned, TokensAreCurrent, AccountsApart,
                RefreshesAloneAreSafe, HasOwner, UserIn, Busy, Refreshing
<1> QED
  BY <1>1, SubmitLoginStep, RegisterStep, EnterAppStep, RestoredStep, LogoutStep, LoadStep,
     UnauthorizedStep, RotateStep, RefreshedStep, RefreshFailsStep DEF ClientNext

LEMMA ClientInductive == ClientSpec => []ClientInv
<1>1. ClientInit => ClientInv
  <2> SUFFICES ASSUME ClientInit PROVE ClientInv
    OBVIOUS
  <2>1. ClientTypeOK
    <3>1. /\ owner \in [SessionIds -> Accounts \union {NoAccount}]
          /\ current \in [SessionIds -> 0..MaxRotations]
          /\ tab \in [Tabs -> TabType] /\ request \in [Requests -> RequestType]
      BY ClientConstants DEF ClientInit
    <3> QED
      BY <3>1, ClientConstants DEF ClientInit, ClientTypeOK, TabType, RequestType
  <2>2. TokensAreOwned /\ TokensAreCurrent /\ AccountsApart /\ RefreshesAloneAreSafe
    BY ClientConstants
       DEF ClientInit, TokensAreOwned, TokensAreCurrent, AccountsApart,
           RefreshesAloneAreSafe, HasOwner, UserIn, Busy, Refreshing, NewTab
  <2> QED
    BY <2>1, <2>2 DEF ClientInv
<1> QED
  BY <1>1, ClientStep, PTL DEF ClientSpec

(* For any number of tabs, accounts, sessions and calls: a browser whose   *)
(* refreshes run one after the other never presents a rotated token.       *)
THEOREM OneRefreshAtATime == ClientSpec => []RefreshesAloneAreSafe
  BY ClientInductive, PTL DEF ClientInv

(* A tab shows one account, with a token and keys of that account, until   *)
(* accounts cross in the browser.                                          *)
THEOREM TabsShowOneAccount == ClientSpec => []OneAccount
<1>1. ClientInv => OneAccount
  BY DEF ClientInv, AccountsApart, OneAccount
<1> QED
  BY <1>1, ClientInductive, PTL

(***************************************************************************)
(* The combined specification of the run.                                  *)
(***************************************************************************)

(* A behaviour of the combined specification is one of each module, so     *)
(* what was proved of the modules holds of it too.                         *)
THEOREM AccountPartsBehave ==
  AllSpec => SessionsSpec /\ Spec /\ ClientSpec /\ TotpSpec /\ PasskeysSpec
<1>1. AllInit => SessionsInit /\ Init /\ ClientInit /\ TotpInit /\ PasskeysInit
  BY DEF AllInit
<1>2. [AllNext]_<<part, sessionVars, vars, browserVars, totpVars, passkeyVars>>
        => /\ [SessionsNext]_sessionVars /\ [Next]_vars /\ [ClientNext]_browserVars
           /\ [TotpNext]_totpVars /\ [PasskeysNext]_passkeyVars
  BY DEF AllNext
<1> QED
  BY <1>1, <1>2, PTL DEF AllSpec, SessionsSpec, Spec, ClientSpec, TotpSpec, PasskeysSpec

(* What moves has the types its module declares, for any accounts,         *)
(* sessions, tabs, codes, calls, passkeys and ceremonies.                  *)
THEOREM AccountsTyped == AllSpec => []AccountsTypesOK
<1>1. AllSpec => [](part \in AccountParts)
  <2>1. AllInit => part \in AccountParts
    BY DEF AllInit
  <2>2. /\ part \in AccountParts
        /\ [AllNext]_<<part, sessionVars, vars, browserVars, totpVars, passkeyVars>>
        => (part \in AccountParts)'
    BY DEF AllNext
  <2> QED
    BY <2>1, <2>2, PTL DEF AllSpec
<1>2. /\ part \in AccountParts
      /\ SessionsTypeOK /\ TypeOK /\ ClientInv /\ TotpInv /\ PasskeysInv
      => AccountsTypesOK
  BY DEF AccountParts, AccountsTypesOK, ClientInv, TotpInv, PasskeysInv
<1> QED
  BY <1>1, <1>2, AccountPartsBehave, SessionsTyped, TypeCorrect, ClientInductive,
     AppIsEnough, PasskeysInductive, PTL
=================================================================================

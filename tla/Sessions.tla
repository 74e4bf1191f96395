-------------------------------- MODULE Sessions --------------------------------
(***************************************************************************)
(* The login sessions of one account: creation, refresh-token rotation     *)
(* with reuse detection, revocation, and the sockets bound to sessions.    *)
(*                                                                         *)
(* Every call is a chain of awaits on the database; calls of other devices *)
(* run between two of them.  Sources: server/src/services/                 *)
(* session.service.ts, the session part of auth.service.ts and             *)
(* reset.service.ts, controllers/auth.controller.ts, and                   *)
(* socket/middleware/auth.ts.                                              *)
(*                                                                         *)
(* Tokens of a session are numbered in the order the server generates      *)
(* them (a random jti makes each one different).  Passwords are numbered   *)
(* in the order they are set.                                              *)
(*                                                                         *)
(* Definitions marked "Bug:" are not part of the specification: each is    *)
(* the next definition with a plausible mistake, for checking that the     *)
(* properties would notice it.                                             *)
(***************************************************************************)
EXTENDS Naturals

CONSTANTS
  Sessions,      \* session identifiers, each created once
  Handlers,      \* slots for calls in flight
  NoSession,     \* a call that concerns no session
  MaxToken,      \* bound on the tokens of a session
  PasswordBound  \* bound on password changes

ASSUME NoSessionAssumption == NoSession \notin Sessions
ASSUME SessionsBound == MaxToken \in Nat \ {0} /\ PasswordBound \in Nat \ {0}

VARIABLES
  password,  \* the password passwordHash is the hash of
  row,       \* Session rows
  issued,    \* number of refresh tokens generated for a session
  sockets,   \* sessions with a live socket
  handler,   \* the calls in flight
  rotated,   \* tokens that were exchanged for a new one (for the properties)
  outlawed   \* sessions a finished sweep had to revoke (for the properties)

sessionVars == <<password, row, issued, sockets, handler, rotated, outlawed>>

TokenNumbers    == 1..MaxToken
PasswordNumbers == 1..PasswordBound

(* token: the one whose hash is stored.  with: the last password its       *)
(* holder proved to know.                                                  *)
Row == [state : {"none", "live", "expired", "revoked"},
        token : 0..MaxToken,
        with  : 0..PasswordBound]

(* session: the caller's own, or the one the call is about.  existing:     *)
(* the sessions the table had when the password was stored.  victims: the  *)
(* sessions revokeAllForUser found.                                        *)
Handler == [op : {"idle", "login", "refresh", "reuse", "logout", "change",
               "recover", "connect"},
         pc : {"start", "write", "list", "sweep", "create"},
         session  : Sessions \union {NoSession},
         token    : 0..MaxToken,
         with     : 0..PasswordBound,
         existing : SUBSET Sessions,
         victims  : SUBSET Sessions]

(* The calls that are about a session.                                     *)
SessionOps == {"refresh", "reuse", "logout", "change", "connect"}

NoHandler == [op |-> "idle", pc |-> "start", session |-> NoSession, token |-> 0,
         with |-> 0, existing |-> {}, victims |-> {}]

SessionsTypeOK ==
  /\ password \in PasswordNumbers
  /\ row \in [Sessions -> Row]
  /\ issued \in [Sessions -> 0..MaxToken]
  /\ sockets \in SUBSET Sessions
  /\ handler \in [Handlers -> Handler]
  /\ \A k \in Handlers : handler[k].op \in SessionOps => handler[k].session \in Sessions
  /\ rotated \in [Sessions -> SUBSET (0..MaxToken)]
  /\ outlawed \in SUBSET Sessions

Existing == {s \in Sessions : row[s].state # "none"}
Live     == {s \in Sessions : row[s].state = "live"}

(* Somebody presents a refresh token that was handed out for session s.    *)
Presentable(s, t) == row[s].state # "none" /\ t \in 1..issued[s]

SessionsInit ==
  /\ password = 1
  /\ row = [s \in Sessions |-> [state |-> "none", token |-> 0, with |-> 0]]
  /\ issued = [s \in Sessions |-> 0]
  /\ sockets = {}
  /\ handler = [k \in Handlers |-> NoHandler]
  /\ rotated = [s \in Sessions |-> {}]
  /\ outlawed = {}

BeginHandler(k, op, pc, s, t, pw) ==
  /\ handler[k] = NoHandler
  /\ handler' = [handler EXCEPT ![k] =
       [op |-> op, pc |-> pc, session |-> s, token |-> t, with |-> pw,
        existing |-> {}, victims |-> {}]]

Proceed(k, pc) == handler' = [handler EXCEPT ![k].pc = pc]
FinishHandler(k)      == handler' = [handler EXCEPT ![k] = NoHandler]
HandlerAt(k, op, pc)  == handler[k].op = op /\ handler[k].pc = pc

(* update ... revokedAt, then disconnectSession.                           *)
Revoked(S)    == [s \in Sessions |->
                   IF s \in S THEN [row[s] EXCEPT !.state = "revoked"] ELSE row[s]]
Disconnect(S) == sockets' = sockets \ S

(***************************************************************************)
(* login and SessionService.create.                                        *)
(***************************************************************************)

(* The user row is read and the password compared against what was read;   *)
(* bcrypt and TOTP take their time.                                        *)
LoginCheck(k) ==
  /\ BeginHandler(k, "login", "create", NoSession, 0, password)
  /\ UNCHANGED <<password, row, issued, sockets, rotated, outlawed>>

(* Also the last step of recoverComplete and of a finished reset.          *)
Create(k, s) ==
  /\ handler[k].op \in {"login", "recover"} /\ handler[k].pc = "create"
  /\ row[s].state = "none"
  /\ row' = [row EXCEPT ![s] =
               [state |-> "live", token |-> 1, with |-> handler[k].with]]
  /\ issued' = [issued EXCEPT ![s] = 1]
  /\ FinishHandler(k)
  /\ UNCHANGED <<password, sockets, rotated, outlawed>>

(***************************************************************************)
(* SessionService.rotate.                                                  *)
(***************************************************************************)

IsCurrent(s, t) == row[s].token = t

(* The row is read; a token that is not the current one of a live session  *)
(* is reuse.                                                               *)
RefreshRead(k, s, t) ==
  /\ Presentable(s, t)
  /\ row[s].state = "live"
  /\ IF IsCurrent(s, t) THEN /\ issued[s] < MaxToken
                             /\ BeginHandler(k, "refresh", "write", s, t, 0)
                        ELSE BeginHandler(k, "reuse", "write", s, t, 0)
  /\ UNCHANGED <<password, row, issued, sockets, rotated, outlawed>>

(* Bug: without a jti, a token signed in the same second is the same one;  *)
(* the update also clears revokedAt.                                       *)
SameToken(s, t)  == [row[s] EXCEPT !.state = IF @ = "expired" THEN "live" ELSE @]
Revives(s, t) == [row[s] EXCEPT !.token = t, !.state = "live"]

(* The update names the session only: it stores the new hash whatever the  *)
(* row holds by now, and renews expiresAt.                                 *)
Rotated(s, t) ==
  [row[s] EXCEPT !.token = t, !.state = IF @ = "expired" THEN "live" ELSE @]

RefreshWrite(k) ==
  LET s == handler[k].session IN
  /\ HandlerAt(k, "refresh", "write")
  /\ issued[s] < MaxToken
  /\ issued' = [issued EXCEPT ![s] = @ + 1]
  /\ row' = [row EXCEPT ![s] = Rotated(s, issued[s] + 1)]
  /\ rotated' = [rotated EXCEPT ![s] = @ \union {handler[k].token}]
  /\ FinishHandler(k)
  /\ UNCHANGED <<password, sockets, outlawed>>

ReuseRevoke(k) ==
  /\ HandlerAt(k, "reuse", "write")
  /\ row' = Revoked({handler[k].session})
  /\ Disconnect({handler[k].session})
  /\ FinishHandler(k)
  /\ UNCHANGED <<password, issued, rotated, outlawed>>

(* Seven days without a refresh.                                           *)
ExpireSession(s) ==
  /\ row[s].state = "live"
  /\ row' = [row EXCEPT ![s].state = "expired"]
  /\ UNCHANGED <<password, issued, sockets, handler, rotated, outlawed>>

(***************************************************************************)
(* logout, DELETE /auth/sessions/:id.                                      *)
(***************************************************************************)

(* logout looks the session up by the hash of the cookie: a token that is  *)
(* no longer the stored one finds nothing.                                 *)
LogoutRead(k, s, t) ==
  /\ Presentable(s, t)
  /\ row[s].state \in {"live", "expired"} /\ IsCurrent(s, t)
  /\ BeginHandler(k, "logout", "write", s, t, 0)
  /\ UNCHANGED <<password, row, issued, sockets, rotated, outlawed>>

LogoutWrite(k) ==
  /\ HandlerAt(k, "logout", "write")
  /\ row' = Revoked({handler[k].session})
  /\ FinishHandler(k)
  /\ UNCHANGED <<password, issued, sockets, rotated, outlawed>>

Revoke(s) ==
  /\ row[s].state # "none"
  /\ row' = Revoked({s})
  /\ Disconnect({s})
  /\ UNCHANGED <<password, issued, handler, rotated, outlawed>>

(***************************************************************************)
(* changePassword, recoverComplete and the end of a reset: store the new   *)
(* credentials, then revokeAllForUser; the latter two then log in.         *)
(***************************************************************************)

(* The current password is compared with the row read.  The access token   *)
(* may outlive its session, so the session can be in any state.            *)
ChangeCheck(k, s) ==
  /\ row[s].state # "none"
  /\ BeginHandler(k, "change", "write", s, 0, password)
  /\ UNCHANGED <<password, row, issued, sockets, rotated, outlawed>>

(* A recovery or reset was authorized without any session.                 *)
RecoverCheck(k) ==
  /\ BeginHandler(k, "recover", "write", NoSession, 0, 0)
  /\ UNCHANGED <<password, row, issued, sockets, rotated, outlawed>>

SetPassword(k) ==
  /\ handler[k].op \in {"change", "recover"} /\ handler[k].pc = "write"
  /\ password < PasswordBound
  /\ password' = password + 1
  /\ row' = [s \in Sessions |-> IF s = handler[k].session
               THEN [row[s] EXCEPT !.with = password + 1] ELSE row[s]]
  /\ handler' = [handler EXCEPT ![k] =
       [@ EXCEPT !.pc = "list", !.with = password + 1,
                 !.existing = Existing \ {handler[k].session}]]
  /\ UNCHANGED <<issued, sockets, rotated, outlawed>>

(* Bug: the caller's own session is put on the list instead of left out.   *)
WithCaller(k) == {s \in Sessions : row[s].state \in {"live", "expired"}}
                   \union {handler[k].session}

(* revokeAllForUser: findMany of the active sessions, an expired one       *)
(* included, then updateMany on those found.                               *)
Sweepable(k) == {s \in Sessions : row[s].state \in {"live", "expired"}}
                  \ {handler[k].session}

SweepList(k) ==
  /\ handler[k].op \in {"change", "recover"} /\ handler[k].pc = "list"
  /\ handler' = [handler EXCEPT ![k] = [@ EXCEPT !.pc = "sweep", !.victims = Sweepable(k)]]
  /\ UNCHANGED <<password, row, issued, sockets, rotated, outlawed>>

SweepWrite(k) ==
  /\ handler[k].op \in {"change", "recover"} /\ handler[k].pc = "sweep"
  /\ row' = Revoked(handler[k].victims)
  /\ Disconnect(handler[k].victims)
  /\ outlawed' = outlawed \union handler[k].existing
  /\ IF handler[k].op = "recover" THEN Proceed(k, "create") ELSE FinishHandler(k)
  /\ UNCHANGED <<password, issued, rotated>>

(* PUT /users/password and an admin's reset-password: a new hash, and no   *)
(* session is revoked.                                                     *)
StoreOnlyHash ==
  /\ password < PasswordBound
  /\ password' = password + 1
  /\ UNCHANGED <<row, issued, sockets, handler, rotated, outlawed>>

(***************************************************************************)
(* Sockets: socketAuth awaits isActive, then the connection is accepted.   *)
(***************************************************************************)
ConnectCheck(k, s) ==
  /\ row[s].state = "live"
  /\ BeginHandler(k, "connect", "write", s, 0, 0)
  /\ UNCHANGED <<password, row, issued, sockets, rotated, outlawed>>

ConnectJoin(k) ==
  /\ HandlerAt(k, "connect", "write")
  /\ sockets' = sockets \union {handler[k].session}
  /\ FinishHandler(k)
  /\ UNCHANGED <<password, row, issued, rotated, outlawed>>

Hangup(s) ==
  /\ s \in sockets
  /\ Disconnect({s})
  /\ UNCHANGED <<password, row, issued, handler, rotated, outlawed>>

SessionsNext ==
  \/ \E k \in Handlers :
       \/ LoginCheck(k)
       \/ RecoverCheck(k)
       \/ RefreshWrite(k)
       \/ ReuseRevoke(k)
       \/ LogoutWrite(k)
       \/ SetPassword(k)
       \/ SweepList(k)
       \/ SweepWrite(k)
       \/ ConnectJoin(k)
       \/ \E s \in Sessions :
            \/ Create(k, s)
            \/ ChangeCheck(k, s)
            \/ ConnectCheck(k, s)
            \/ \E t \in TokenNumbers : RefreshRead(k, s, t) \/ LogoutRead(k, s, t)
  \/ \E s \in Sessions : ExpireSession(s) \/ Revoke(s) \/ Hangup(s)
  \/ StoreOnlyHash

SessionsSpec == SessionsInit /\ [][SessionsNext]_sessionVars

-------------------------------------------------------------------------------
(* The stored hash is never one of a token that was exchanged before: once *)
(* a rotation has committed, presenting that token again is reuse for good,*)
(* however many rotations of the session overlap.                          *)
RotatedTokensAreDead ==
  \A s \in Sessions : row[s].token \notin rotated[s]

(* Every session that existed when a new password was stored, other than   *)
(* the caller's, is revoked when that call has swept, and stays so, though *)
(* refreshes, logouts and other sweeps of the same rows are in flight.     *)
SweptSessionsStayRevoked ==
  \A s \in outlawed : row[s].state = "revoked"

(* docs/ENCRYPTION.md:142-147 says a password change is atomic and revokes *)
(* all other sessions: when changePassword has swept, every live session   *)
(* has proved the password it stored, or a later one.                      *)
ChangeRevokesOthers ==
  [][\A k \in Handlers : HandlerAt(k, "change", "sweep") /\ handler'[k] = NoHandler =>
       \A s \in Sessions : row'[s].state = "live" => row'[s].with >= handler[k].with
    ]_sessionVars

-------------------------------------------------------------------------------
(***************************************************************************)
(* The inductive invariant behind the first two.                           *)
(***************************************************************************)

(* No token and no call before a session's row exists.                     *)
CallsFollowCreation ==
  /\ \A s \in Sessions : row[s].state = "none" => issued[s] = 0
  /\ \A k \in Handlers :
       /\ handler[k].op \in SessionOps => handler[k].session \in Existing
       /\ handler[k].victims \subseteq Existing

(* Tokens in the row, in flight and exchanged were all generated before.   *)
TokensWereIssued ==
  /\ \A s \in Sessions : row[s].token <= issued[s]
  /\ \A s \in Sessions : \A t \in rotated[s] : t <= issued[s]
  /\ \A k \in Handlers : handler[k].op = "refresh" =>
       handler[k].token <= issued[handler[k].session]

(* Sessions a sweep must revoke are on its list or already revoked.        *)
SweepsAreComplete ==
  \A k \in Handlers : handler[k].op \in {"change", "recover"} =>
    /\ handler[k].pc = "list" =>
         handler[k].existing \subseteq Existing \ {handler[k].session}
    /\ handler[k].pc = "sweep" => \A s \in handler[k].existing :
         s \in handler[k].victims \/ row[s].state = "revoked"

SessionsInv ==
  /\ SessionsTypeOK
  /\ CallsFollowCreation
  /\ TokensWereIssued
  /\ RotatedTokensAreDead
  /\ SweepsAreComplete
  /\ SweptSessionsStayRevoked
===============================================================================

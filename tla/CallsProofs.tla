------------------------------- MODULE CallsProofs -------------------------------
(***************************************************************************)
(* What is proved of what reaches a user live, for every set of sockets,   *)
(* users and tracks.  Each component has an inductive invariant in its     *)
(* module; a lemma says that every step keeps it, the theorem that it      *)
(* always holds, and with it the property the runs check.  At the end, the *)
(* combined specification is shown to include that of each component.      *)
(***************************************************************************)
EXTENDS MCCalls, FiniteSetTheorems, TLAPS

(***************************************************************************)
(* Presence.                                                               *)
(***************************************************************************)

LEMMA PresenceTypeStep ==
  ASSUME PresenceTypeOK, [PresenceNext]_presenceVars
  PROVE  PresenceTypeOK'
<1> USE DEF PresenceTypeOK, Kinds, ListCall, NoList
<1>0. NoWork \in [UserSockets -> [Kinds -> {"idle", "write", "tell", "rooms"}]]
  BY DEF NoWork
<1>1. CASE ServerStops
  BY <1>0, <1>1 DEF ServerStops, statusVars
<1>10. CASE ServerStarts
  BY <1>10 DEF ServerStarts, statusVars, watchVars
<1>11. CASE ResetStatus
  BY <1>11 DEF ResetStatus, watchVars
<1>2. ASSUME NEW s \in UserSockets, NEW k \in Kinds, Start(s, k)
      PROVE  /\ work' \in [UserSockets -> [Kinds -> {"idle", "write", "tell", "rooms"}]]
             /\ crossed' \in BOOLEAN /\ stale' \in BOOLEAN
  BY <1>2 DEF Start, Working
<1>3. ASSUME NEW s \in UserSockets, SocketConnects(s) \/ Heartbeat(s)
      PROVE  PresenceTypeOK'
  BY <1>2, <1>3 DEF SocketConnects, Heartbeat, statusVars, watchVars
<1>4. ASSUME NEW s \in UserSockets, Registers(s)
      PROVE  PresenceTypeOK'
  BY <1>4 DEF Registers, statusVars, watchVars
<1>5. ASSUME NEW s \in UserSockets, SocketLeaves(s)
      PROVE  PresenceTypeOK'
  <2>1. "disconnect" \in Kinds
    OBVIOUS
  <2>2. /\ work' \in [UserSockets -> [Kinds -> {"idle", "write", "tell", "rooms"}]]
        /\ crossed' \in BOOLEAN /\ stale' \in BOOLEAN
    BY <1>2, <1>5, <2>1 DEF SocketLeaves, Working
  <2> QED
    BY <1>5, <2>2 DEF SocketLeaves, watchVars
<1>6. ASSUME NEW s \in UserSockets, NEW k \in Kinds, StatusWritten(s, k)
      PROVE  PresenceTypeOK'
  BY <1>6 DEF StatusWritten, statusVars, watchVars
<1>7. ASSUME NEW s \in UserSockets, NEW k \in Kinds, StatusTold(s, k)
      PROVE  PresenceTypeOK'
  BY <1>7 DEF StatusTold, statusVars, watchVars
<1>8. CASE WatcherConnects \/ WatcherLeaves \/ AskList \/ ReadList \/ ShowList
  <2>1. CASE WatcherConnects \/ WatcherLeaves
    BY <2>1 DEF WatcherConnects, WatcherLeaves, statusVars
  <2>2. CASE AskList
    <3>1. list' \in ListCall
      BY <2>2 DEF AskList
    <3>2. stale' \in BOOLEAN
      BY <2>2 DEF AskList, Working
    <3> QED
      BY <2>2, <3>1, <3>2 DEF AskList, statusVars
  <2>3. CASE ReadList
    BY <2>3 DEF ReadList, statusVars
  <2>4. CASE ShowList
    <3>1. list' \in ListCall
      BY <2>4 DEF ShowList
    <3>2. shownOnline' \in BOOLEAN
      BY <2>4 DEF ShowList
    <3> QED
      BY <2>4, <3>1, <3>2 DEF ShowList, statusVars
  <2> QED
    BY <1>8, <2>1, <2>2, <2>3, <2>4
<1>9. CASE UNCHANGED presenceVars
  BY <1>9 DEF presenceVars, statusVars, watchVars
<1> QED
  BY <1>1, <1>3, <1>4, <1>5, <1>6, <1>7, <1>8, <1>9, <1>10, <1>11 DEF PresenceNext

(* A handler that starts changes nothing of the others.                    *)
LEMMA Started ==
  ASSUME PresenceTypeOK, NEW s \in UserSockets, NEW k \in Kinds, Start(s, k)
  PROVE  /\ \A t \in UserSockets, l \in Kinds :
              work'[t][l] = IF t = s /\ l = k THEN "write" ELSE work[t][l]
         /\ crossed' = Working /\ stale' = (Working \/ list # NoList)
  BY DEF Start, PresenceTypeOK

LEMMA PresenceStep ==
  ASSUME PresenceInv, [PresenceNext]_presenceVars
  PROVE  PresenceInv'
<1>0. PresenceTypeOK /\ PresenceTypeOK'
  BY PresenceTypeStep DEF PresenceInv
<1> USE DEF PresenceInv, NobodyIsServed, StatusSettles, ShownSettles,
            HandlersAlone, Working
<1>1. CASE ServerStops
  BY <1>0, <1>1 DEF ServerStops, statusVars
<1>2. CASE ServerStarts
  BY <1>0, <1>2 DEF ServerStarts, statusVars, watchVars
<1>3. CASE ResetStatus
  <2>1. inRoom' = {} /\ work' = NoWork /\ list' = NoList /\ stale'
        /\ (crossed' \/ ~online')
    BY <1>3 DEF ResetStatus, watchVars
  <2> QED
    BY <1>0, <2>1 DEF NoWork
<1>4. ASSUME NEW s \in UserSockets, NEW k \in Kinds, Start(s, k),
             server = "listening", server' = server,
             k = "disconnect" <=> inRoom' = {}, UNCHANGED <<online, watchVars>>
      PROVE  PresenceInv'
  <2>1. /\ \A t \in UserSockets, l \in Kinds :
             work'[t][l] = IF t = s /\ l = k THEN "write" ELSE work[t][l]
        /\ crossed' = Working /\ stale' = (Working \/ list # NoList)
    <3>1. PresenceTypeOK /\ Start(s, k)
      BY <1>0, <1>4
    <3> QED
      BY <3>1, Started
  <2>2. ASSUME ~Working
        PROVE  \A t \in UserSockets, l \in Kinds :
                 work'[t][l] # "idle" => t = s /\ l = k /\ work'[t][l] = "write"
    BY <2>1, <2>2
  <2>3. Working' /\ NobodyIsServed'
    BY <1>4, <2>1
  <2>4. StatusSettles'
    BY <1>4, <2>1, <2>2, <2>3
  <2>5. ShownSettles'
    <3>1. UNCHANGED <<list, online, shownOnline>>
      BY <1>4 DEF watchVars
    <3>2. CASE Working \/ list # NoList
      BY <2>1, <3>2
    <3>3. CASE ~Working /\ list = NoList
      <4>1. list'.pc # "read"
        BY <3>1, <3>3 DEF NoList
      <4> QED
        BY <2>2, <2>3, <3>1, <3>3, <4>1
    <3> QED
      BY <3>2, <3>3
  <2> QED
    BY <1>0, <2>3, <2>4, <2>5
<1>5. ASSUME NEW s \in UserSockets, SocketConnects(s)
      PROVE  PresenceInv'
  BY <1>4, <1>5 DEF SocketConnects, Accepting, Kinds
<1>6. ASSUME NEW s \in UserSockets, Heartbeat(s)
      PROVE  PresenceInv'
  <2>1. inRoom' # {} /\ server = "listening"
    BY <1>0, <1>6 DEF PresenceTypeOK, Heartbeat
  <2> QED
    BY <1>4, <1>6, <2>1 DEF Heartbeat, Kinds
<1>7. ASSUME NEW s \in UserSockets, SocketLeaves(s)
      PROVE  PresenceInv'
  <2>1. server = "listening" /\ server' = server /\ UNCHANGED <<online, watchVars>>
    BY <1>7 DEF SocketLeaves
  <2>2. CASE s \in registered /\ Remaining(s) = {}
    BY <1>4, <1>7, <2>1, <2>2 DEF SocketLeaves, Remaining, Kinds
  <2>3. CASE ~(s \in registered /\ Remaining(s) = {})
    <3>1. /\ UNCHANGED <<work, stale>>
          /\ ~crossed' => ~crossed /\ inRoom # {} /\ inRoom' # {}
      BY <1>7, <2>3 DEF SocketLeaves, Remaining
    <3> QED
      BY <1>0, <2>1, <3>1 DEF watchVars
  <2> QED
    BY <2>2, <2>3
<1>8. ASSUME NEW s \in UserSockets, NEW k \in Kinds,
             StatusWritten(s, k) \/ StatusTold(s, k) \/ (k = "connection" /\ Registers(s))
      PROVE  PresenceInv'
  <2> DEFINE pc == work'[s][k]
  <2>1. \A t \in UserSockets, l \in Kinds :
          work'[t][l] = IF t = s /\ l = k THEN pc ELSE work[t][l]
    BY <1>0, <1>8 DEF PresenceTypeOK, StatusWritten, StatusTold, Registers
  <2>2. work[s][k] # "idle" /\ Working
    BY <1>8 DEF StatusWritten, StatusTold, Registers
  <2>3. server = "listening" /\ server' = server
        /\ UNCHANGED <<inRoom, crossed, watching, list>>
    BY <1>8, <2>2 DEF StatusWritten, StatusTold, Registers, NoWork, statusVars, watchVars
  <2>4. \/ pc = "tell" /\ (online' <=> k # "disconnect") /\ work[s][k] = "write"
        \/ /\ pc \in {"rooms", "idle"} /\ work[s][k] = "tell" /\ online' = online
           /\ stale' \/ (shownOnline' <=> k # "disconnect")
        \/ /\ pc = "idle" /\ work[s][k] = "rooms" /\ online' = online
           /\ shownOnline' = shownOnline
    <3>1. CASE StatusWritten(s, k)
      BY <1>0, <3>1 DEF PresenceTypeOK, StatusWritten
    <3>2. CASE StatusTold(s, k)
      BY <1>0, <3>2 DEF PresenceTypeOK, StatusTold, statusVars
    <3>3. CASE k = "connection" /\ Registers(s)
      BY <1>0, <3>3 DEF PresenceTypeOK, Registers, statusVars, watchVars
    <3> QED
      BY <1>8, <3>1, <3>2, <3>3
  <2>5. stale => stale'
    BY <1>8 DEF StatusWritten, StatusTold, Registers
  <2> HIDE DEF pc
  <2>6. ASSUME HandlersAlone, NEW t \in UserSockets, NEW l \in Kinds
        PROVE  work'[t][l] # "idle" => t = s /\ l = k /\ pc # "idle"
    BY <2>1, <2>2, <2>6
  <2>8. NobodyIsServed'
    BY <2>3
  <2>9. StatusSettles'
    BY <2>1, <2>2, <2>3, <2>4, <2>6
  <2>10. ShownSettles'
    <3>1. SUFFICES ASSUME ~stale' PROVE ShownSettles'
      BY DEF ShownSettles
    <3>2. HandlersAlone /\ list = NoList /\ ~stale
      BY <2>2, <2>3, <2>5, <3>1
    <3>3. \A t \in UserSockets, l \in Kinds :
            work'[t][l] # "idle" => t = s /\ l = k /\ pc # "idle"
      BY <2>6, <3>2
    <3>4. list' = NoList /\ list'.pc # "read" /\ HandlersAlone'
      BY <2>3, <3>2, <3>3 DEF NoList
    <3>5. work[s][k] = "tell" => (online <=> k # "disconnect")
      BY <2>3, <3>1, <3>2
    <3>6. work[s][k] = "rooms" => (shownOnline <=> online)
      BY <2>3, <3>1, <3>2
    <3>7. /\ pc = "tell" => (online' <=> k # "disconnect")
          /\ pc \in {"rooms", "idle"} => (shownOnline' <=> online')
      BY <2>4, <3>1, <3>5, <3>6
    <3>8. ~Working' => pc = "idle"
      BY <2>1
    <3> QED
      BY <2>1, <3>3, <3>4, <3>7, <3>8
  <2> QED
    BY <1>0, <2>8, <2>9, <2>10
<1>10. CASE WatcherConnects \/ WatcherLeaves
  BY <1>0, <1>10 DEF WatcherConnects, WatcherLeaves, statusVars
<1>11. CASE AskList \/ ReadList \/ ShowList
  <2>1. UNCHANGED <<server, inRoom, work, online, crossed>>
    BY <1>11 DEF AskList, ReadList, ShowList, statusVars
  <2>2. /\ StatusSettles'
        /\ HandlersAlone => HandlersAlone'
        /\ Working' <=> Working
    BY <2>1
  <2>3. CASE AskList
    <3>1. /\ server = "listening" /\ list'.pc = "asked" /\ (stale' <=> Working)
          /\ shownOnline' = shownOnline /\ list' # NoList
      BY <2>3 DEF AskList, NoList
    <3>2. ~Working => \A s \in UserSockets, k \in Kinds : work'[s][k] = "idle"
      BY <2>1
    <3>3. ~stale' => ~Working' /\ \A s \in UserSockets, k \in Kinds : work'[s][k] = "idle"
      BY <2>2, <3>1, <3>2
    <3>4. ShownSettles'
      BY <3>1, <3>3
    <3> QED
      BY <1>0, <2>1, <2>2, <3>1, <3>4
  <2>4. CASE ReadList
    <3>1. /\ list # NoList /\ list'.pc = "read" /\ (list'.online <=> online)
          /\ UNCHANGED <<stale, shownOnline>> /\ list' # NoList
      BY <2>4 DEF ReadList, NoList
    <3>2. server = "listening" /\ NobodyIsServed'
      BY <2>1, <3>1
    <3>3. ~stale => ~Working /\ HandlersAlone
      BY <3>1, <3>2
    <3>4. ShownSettles'
      BY <2>1, <2>2, <3>1, <3>3
    <3> QED
      BY <1>0, <2>2, <3>2, <3>4
  <2>5. CASE ShowList
    <3>1. /\ list # NoList /\ list.pc = "read" /\ list' = NoList /\ list'.pc # "read"
          /\ (shownOnline' <=> list.online) /\ stale' = stale
      BY <2>5 DEF ShowList, NoList
    <3>2. server = "listening" /\ NobodyIsServed'
      BY <2>1, <3>1
    <3>3. ~stale => ~Working /\ HandlersAlone /\ (list.online <=> online)
      BY <3>1, <3>2
    <3>4. ~stale => /\ shownOnline' <=> online'
                   /\ \A s \in UserSockets, k \in Kinds : work'[s][k] = "idle"
      BY <2>1, <3>1, <3>3
    <3>5. ShownSettles'
      BY <2>2, <3>1, <3>3, <3>4
    <3> QED
      BY <1>0, <2>2, <3>2, <3>5
  <2> QED
    BY <1>11, <2>3, <2>4, <2>5
<1>12. CASE UNCHANGED presenceVars
  BY <1>0, <1>12 DEF presenceVars, statusVars, watchVars
<1> QED
  BY <1>1, <1>2, <1>3, <1>5, <1>6, <1>7, <1>8, <1>10, <1>11, <1>12
     DEF PresenceNext, Kinds

(* A server at rest has a user online exactly while they have a socket,    *)
(* and the other client shows it, whatever the handlers of reconnects,     *)
(* heartbeats and restarts did, as long as they did not overlap.           *)
THEOREM PresenceFollows == PresenceSpec => []PresenceInv /\ []StatusFollowsSockets
<1>1. PresenceInit => PresenceInv
  <2> SUFFICES ASSUME PresenceInit PROVE PresenceInv
    OBVIOUS
  <2>1. PresenceTypeOK
    BY DEF PresenceInit, PresenceTypeOK, NoWork, NoList, ListCall, Kinds
  <2>2. \A s \in UserSockets, k \in Kinds : work[s][k] = "idle"
    BY DEF PresenceInit, NoWork
  <2>3. NobodyIsServed /\ StatusSettles /\ ShownSettles
    BY <2>2 DEF PresenceInit, NobodyIsServed, StatusSettles, ShownSettles,
                HandlersAlone, Working, NoList
  <2> QED
    BY <2>1, <2>3 DEF PresenceInv
<1>2. PresenceInv /\ [PresenceNext]_presenceVars => PresenceInv'
  BY PresenceStep
<1>3. PresenceInv => StatusFollowsSockets
  BY DEF PresenceInv, PresenceTypeOK, StatusSettles, ShownSettles, StatusFollowsSockets
<1> QED
  BY <1>1, <1>2, <1>3, PTL DEF PresenceSpec

(***************************************************************************)
(* Push.                                                                   *)
(***************************************************************************)

LEMMA PushTypeStep ==
  ASSUME PushTypeOK, [PushNext]_pushVars
  PROVE  PushTypeOK'
<1> USE DEF PushTypeOK
<1>0. NotEnabling \in Enable /\ NotEnabling \in Disable
  BY DEF NotEnabling, Enable, Disable
<1>1. ASSUME NEW c \in Enables, BeginEnable(c)
      PROVE  enabling' \in [Enables -> Enable] /\ unsettled' \in BOOLEAN
  <2>1. [enabling[c] EXCEPT !.pc = "prompt"] \in Enable
    BY DEF Enable
  <2> QED
    BY <1>1, <2>1 DEF BeginEnable, AtRest
<1>2. ASSUME NEW c \in Enables, NEW a \in PushUsers, SignInToChat(a, c)
      PROVE  PushTypeOK'
  BY <1>1, <1>2 DEF SignInToChat
<1>3. ASSUME NEW c \in Enables, TurnOn(c)
      PROVE  PushTypeOK'
  BY <1>1, <1>3 DEF TurnOn, browserPush
<1>4. ASSUME NEW c \in Enables, PromptAnswered(c)
      PROVE  PushTypeOK'
  <2>1. [enabling[c] EXCEPT !.pc = "ready"] \in Enable
    BY DEF Enable
  <2>2. enabling' \in [Enables -> Enable]
    BY <1>0, <1>4, <2>1 DEF PromptAnswered
  <2> QED
    BY <1>4, <2>2 DEF PromptAnswered
<1>5. ASSUME NEW c \in Enables, Subscribe(c)
      PROVE  PushTypeOK'
  <2>1. sub' \in handedOut' \union {NoEndpoint} /\ handedOut' \subseteq Endpoints
    BY <1>5 DEF Subscribe
  <2>2. sub' \in Endpoints \union {NoEndpoint}
    BY <2>1
  <2>3. signedIn # NoOwner =>
          [pc |-> "posting", from |-> signedIn, endpoint |-> sub'] \in Enable
    BY <2>2 DEF Enable
  <2>4. enabling' \in [Enables -> Enable] /\ unsettled' \in BOOLEAN
    BY <1>0, <1>5, <2>3 DEF Subscribe
  <2> QED
    BY <1>5, <2>1, <2>4 DEF Subscribe
<1>6. ASSUME NEW c \in Enables, EnableFails(c)
      PROVE  PushTypeOK'
  BY <1>0, <1>6 DEF EnableFails, browserPush
<1>7. ASSUME NEW c \in Enables, subscribeWebPush(c)
      PROVE  PushTypeOK'
  <2>1. enabling[c].from \in PushUsers \union {NoOwner}
    BY DEF Enable
  <2> QED
    BY <1>0, <1>7, <2>1 DEF subscribeWebPush, Upserted, browserPush
<1>8. CASE LeaveChat
  BY <1>8 DEF LeaveChat, pushCalls, AtRest
<1>9. CASE TurnOff
  <2>1. [pc |-> "deleting", from |-> signedIn, endpoint |-> sub] \in Disable
    BY DEF Disable
  <2> QED
    BY <1>9, <2>1 DEF TurnOff, browserPush, AtRest
<1>10. CASE unsubscribeWebPush
  <2>1. [disabling EXCEPT !.pc = "deleted"] \in Disable
    BY DEF Disable
  <2> QED
    BY <1>10, <2>1 DEF unsubscribeWebPush, browserPush
<1>11. CASE Unsubscribed
  <2>1. sub' \in handedOut \union {NoEndpoint} /\ unsettled' \in BOOLEAN
    BY <1>11 DEF Unsubscribed
  <2> QED
    BY <1>0, <1>11, <2>1 DEF Unsubscribed
<1>12. CASE SubscriptionExpires
  BY <1>12 DEF SubscriptionExpires, pushCalls
<1>13. ASSUME NEW a \in PushUsers, dispatch(a)
       PROVE  PushTypeOK'
  BY <1>13 DEF dispatch, browserPush, pushCalls
<1>14. ASSUME NEW e \in Endpoints, sendWebPush(e)
       PROVE  PushTypeOK'
  BY <1>14 DEF sendWebPush, browserPush, pushCalls
<1>15. CASE UNCHANGED pushVars
  BY <1>15 DEF pushVars, browserPush, pushCalls
<1> QED
  BY <1>2, <1>3, <1>4, <1>5, <1>6, <1>7, <1>8, <1>9, <1>10, <1>11, <1>12, <1>13,
     <1>14, <1>15 DEF PushNext

LEMMA PushStep ==
  ASSUME PushInv, [PushNext]_pushVars
  PROVE  PushInv'
<1>0. PushTypeOK /\ PushTypeOK' /\ OnlyIfGranted /\ CallsAlone /\ PushFollowsSignIn
  BY PushTypeStep DEF PushInv
<1>1. SUFFICES OnlyIfGranted' /\ CallsAlone' /\ PushFollowsSignIn'
  BY <1>0 DEF PushInv
<1> USE DEF OnlyIfGranted, CallsAlone, PushFollowsSignIn, AtRest
<1>2. /\ enabling \in [Enables -> Enable]
      /\ sub \in Endpoints \union {NoEndpoint} /\ NoEndpoint \notin Endpoints
      /\ owner \in [Endpoints -> PushUsers \union {NoOwner}]
      /\ NotEnabling.pc = "idle"
  BY <1>0, PushNames DEF PushTypeOK, NotEnabling
<1>3. ASSUME NEW c \in Enables, BeginEnable(c), UNCHANGED <<permission, sub, owner, disabling>>,
             signedIn' # NoOwner, ~unsettled => signedIn' = signedIn \/ signedIn = NoOwner
      PROVE  OnlyIfGranted' /\ CallsAlone' /\ PushFollowsSignIn'
  <2>1. /\ \A d \in Enables : d # c => enabling'[d] = enabling[d]
        /\ enabling[c] = NotEnabling /\ enabling'[c].pc = "prompt"
        /\ enabling'[c] # NotEnabling /\ unsettled' = ~AtRest
    BY <1>2, <1>3 DEF BeginEnable, Enable, NotEnabling
  <2>2. OnlyIfGranted'
    BY <1>0, <1>3, <2>1
  <2>3. CallsAlone'
    BY <1>2, <1>3, <2>1
  <2>4. PushFollowsSignIn'
    BY <2>1
  <2> QED
    BY <2>2, <2>3, <2>4
<1>4. ASSUME NEW c \in Enables, NEW a \in PushUsers, SignInToChat(a, c)
      PROVE  OnlyIfGranted' /\ CallsAlone' /\ PushFollowsSignIn'
  <2>1. CASE permission = "denied"
    <3>1. UNCHANGED <<enabling, unsettled, permission, sub, owner, disabling>>
          /\ signedIn = NoOwner /\ sub = NoEndpoint
      BY <1>0, <1>4, <2>1 DEF SignInToChat
    <3> QED
      BY <1>0, <1>2, <3>1
  <2>2. CASE permission # "denied"
    <3>1. a # NoOwner
      BY PushNames
    <3> QED
      BY <1>3, <1>4, <2>2, <3>1 DEF SignInToChat
  <2> QED
    BY <2>1, <2>2
<1>5. ASSUME NEW c \in Enables, TurnOn(c)
      PROVE  OnlyIfGranted' /\ CallsAlone' /\ PushFollowsSignIn'
  BY <1>3, <1>5 DEF TurnOn, browserPush
<1>6. ASSUME NEW c \in Enables, PromptAnswered(c)
      PROVE  OnlyIfGranted' /\ CallsAlone' /\ PushFollowsSignIn'
  <2>1. /\ \A d \in Enables : d # c => enabling'[d] = enabling[d]
        /\ enabling[c].pc = "prompt" /\ enabling[c] # NotEnabling
        /\ UNCHANGED <<signedIn, sub, owner, disabling, unsettled>>
        /\ permission = "granted" => permission' = "granted"
    BY <1>2, <1>6 DEF PromptAnswered, NotEnabling
  <2>2. CASE permission' = "granted"
    <3>1. enabling'[c].pc = "ready" /\ enabling'[c] # NotEnabling
      BY <1>2, <1>6, <2>2 DEF PromptAnswered, NotEnabling, Enable
    <3> QED
      BY <1>0, <2>1, <2>2, <3>1
  <2>3. CASE permission' # "granted"
    <3>1. enabling'[c] = NotEnabling /\ permission # "granted" /\ NotEnabling.pc = "idle"
      BY <1>2, <1>6, <2>1, <2>3 DEF PromptAnswered, NotEnabling
    <3> QED
      BY <1>0, <2>1, <2>3, <3>1
  <2> QED
    BY <2>2, <2>3
<1>7. ASSUME NEW c \in Enables, Subscribe(c)
      PROVE  OnlyIfGranted' /\ CallsAlone' /\ PushFollowsSignIn'
  <2>1. /\ \A d \in Enables : d # c => enabling'[d] = enabling[d]
        /\ enabling[c].pc = "ready" /\ enabling[c] # NotEnabling
        /\ UNCHANGED <<signedIn, permission, owner, disabling>>
        /\ unsettled' <=> unsettled \/ signedIn = NoOwner
    BY <1>2, <1>7 DEF Subscribe, NotEnabling
  <2>4. permission = "granted"
    BY <1>0, <2>1
  <2>2. CASE signedIn = NoOwner
    BY <1>0, <2>1, <2>2, <2>4
  <2>3. CASE signedIn # NoOwner
    <3>1. /\ enabling'[c] = [pc |-> "posting", from |-> signedIn, endpoint |-> sub']
          /\ enabling'[c] # NotEnabling
      BY <1>2, <1>7, <2>3 DEF Subscribe, NotEnabling
    <3>2. enabling'[c].from = signedIn /\ enabling'[c].endpoint = sub'
      BY <3>1
    <3>3. OnlyIfGranted' /\ PushFollowsSignIn'
      BY <2>1, <2>4, <3>1
    <3>4. CallsAlone'
      <4> SUFFICES ASSUME ~unsettled' PROVE CallsAlone'
        OBVIOUS
      <4>1. /\ \A d \in Enables : enabling[d] # NotEnabling => d = c
            /\ disabling = NotEnabling
        BY <1>0, <2>1
      <4> QED
        BY <1>2, <2>1, <2>3, <3>1, <3>2, <4>1
    <3> QED
      BY <3>3, <3>4
  <2> QED
    BY <2>2, <2>3
<1>8. ASSUME NEW c \in Enables, EnableFails(c)
      PROVE  OnlyIfGranted' /\ CallsAlone' /\ PushFollowsSignIn'
  <2>1. /\ \A d \in Enables : enabling'[d] \in {enabling[d], NotEnabling}
        /\ UNCHANGED <<permission, sub, disabling>> /\ unsettled' /\ NotEnabling.pc = "idle"
    BY <1>2, <1>8 DEF EnableFails, browserPush, NotEnabling
  <2> QED
    BY <1>0, <2>1
<1>9. ASSUME NEW c \in Enables, subscribeWebPush(c)
      PROVE  OnlyIfGranted' /\ CallsAlone' /\ PushFollowsSignIn'
  <2>1. /\ \A d \in Enables : d # c => enabling'[d] = enabling[d]
        /\ enabling'[c] = NotEnabling /\ NotEnabling.pc = "idle"
        /\ enabling[c].pc = "posting" /\ enabling[c] # NotEnabling
        /\ UNCHANGED <<signedIn, permission, sub, disabling, unsettled>>
        /\ enabling[c].endpoint \in Endpoints =>
             owner'[enabling[c].endpoint] = enabling[c].from
    BY <1>2, <1>9 DEF subscribeWebPush, Upserted, browserPush, NotEnabling
  <2>2. OnlyIfGranted' /\ CallsAlone'
    BY <1>0, <2>1
  <2>3. ~unsettled => /\ enabling[c].from = signedIn
                      /\ sub \in {enabling[c].endpoint, NoEndpoint}
    BY <1>0, <2>1
  <2>4. PushFollowsSignIn'
    BY <1>2, <2>1, <2>3
  <2> QED
    BY <2>2, <2>4
<1>10. CASE LeaveChat
  BY <1>0, <1>2, <1>10 DEF LeaveChat, pushCalls
<1>11. CASE TurnOff
  <2>1. /\ UNCHANGED <<signedIn, permission, sub, owner, enabling>>
        /\ disabling'.endpoint = sub /\ disabling' # NotEnabling /\ disabling = NotEnabling
        /\ sub # NoEndpoint /\ signedIn # NoOwner /\ unsettled' = ~AtRest
    BY <1>11 DEF TurnOff, browserPush, NotEnabling
  <2>2. ~unsettled' => \A c \in Enables : enabling[c] = NotEnabling
    BY <2>1
  <2>3. OnlyIfGranted' /\ PushFollowsSignIn'
    BY <1>0, <2>1
  <2>4. CallsAlone'
    BY <2>1, <2>2 DEF NotEnabling
  <2> QED
    BY <2>3, <2>4
<1>12. CASE unsubscribeWebPush
  <2>1. /\ UNCHANGED <<signedIn, permission, sub, enabling, unsettled>>
        /\ disabling'.endpoint = disabling.endpoint /\ disabling' # NotEnabling
        /\ disabling # NotEnabling
    BY <1>0, <1>12 DEF unsubscribeWebPush, browserPush, NotEnabling, PushTypeOK, Disable
  <2> QED
    BY <1>0, <2>1
<1>13. CASE Unsubscribed
  <2>1. /\ UNCHANGED <<signedIn, permission, owner, enabling>>
        /\ disabling' = NotEnabling /\ disabling # NotEnabling
        /\ \/ sub' = (IF sub = disabling.endpoint THEN NoEndpoint ELSE sub)
              /\ unsettled' = unsettled
           \/ unsettled'
    BY <1>13 DEF Unsubscribed, NotEnabling
  <2> QED
    BY <1>0, <2>1
<1>14. CASE SubscriptionExpires
  BY <1>0, <1>14 DEF SubscriptionExpires, pushCalls
<1>15. ASSUME NEW a \in PushUsers, dispatch(a)
       PROVE  OnlyIfGranted' /\ CallsAlone' /\ PushFollowsSignIn'
  BY <1>0, <1>15 DEF dispatch, browserPush, pushCalls
<1>16. ASSUME NEW e \in Endpoints, sendWebPush(e)
       PROVE  OnlyIfGranted' /\ CallsAlone' /\ PushFollowsSignIn'
  <2>1. /\ UNCHANGED <<signedIn, permission, sub, enabling, disabling, unsettled>>
        /\ sub # NoEndpoint => owner'[sub] = owner[sub]
    BY <1>2, <1>16 DEF sendWebPush, browserPush, pushCalls
  <2> QED
    BY <1>0, <2>1
<1>17. CASE UNCHANGED pushVars
  BY <1>0, <1>17 DEF pushVars, browserPush, pushCalls
<1> QED
  BY <1>4, <1>5, <1>6, <1>7, <1>8, <1>9, <1>10, <1>11, <1>12, <1>13, <1>14, <1>15,
     <1>16, <1>17 DEF PushNext

(* The subscription of a browser notifies whoever is signed in there, for  *)
(* any number of accounts, endpoints and calls, as long as calls of        *)
(* enablePush and disablePush do not fail or cross.                        *)
THEOREM PushFollows == PushSpec => []PushInv /\ []PushFollowsSignIn
<1>1. PushInit => PushInv
  <2> SUFFICES ASSUME PushInit PROVE PushInv
    OBVIOUS
  <2>1. NotEnabling \in Enable /\ NotEnabling \in Disable /\ NotEnabling.pc = "idle"
    BY DEF NotEnabling, Enable, Disable
  <2>2. PushTypeOK
    BY <2>1 DEF PushInit, PushTypeOK
  <2>3. OnlyIfGranted /\ CallsAlone /\ PushFollowsSignIn
    BY <2>1 DEF PushInit, OnlyIfGranted, CallsAlone, PushFollowsSignIn
  <2> QED
    BY <2>2, <2>3 DEF PushInv
<1>2. PushInv /\ [PushNext]_pushVars => PushInv'
  BY PushStep
<1> QED
  BY <1>1, <1>2, PTL DEF PushSpec, PushInv

(***************************************************************************)
(* The media server.                                                       *)
(***************************************************************************)

Wants == {"no", "asked", "made", "resuming", "resumed", "shown", "refused"}
States == {"none", "asked", "live", "stopping", "closed"}

LEMMA SfuInitHolds == SfuInit => SfuInv
<1> SUFFICES ASSUME SfuInit PROVE SfuInv
  OBVIOUS
<1>1. Cardinality(Sockets) \in Nat
  BY FiniteSockets, FS_CardinalityType
<1>2. SfuTypeOK
  BY <1>1 DEF SfuInit, SfuTypeOK
<1>3. RoomsAreNumbered
  <2>1. ToCreate = Sockets
    BY DEF SfuInit, ToCreate
  <2> QED
    BY <1>1, <2>1 DEF SfuInit, RoomsAreNumbered
<1>4. TracksAreSent
  BY DEF SfuInit, TracksAreSent, Tracks
<1>5. EveryTrackIsPlayed
  BY DEF SfuInit, EveryTrackIsPlayed
<1> QED
  BY <1>2, <1>3, <1>4, <1>5 DEF SfuInv

(* What a step does to one client's playing of one producer.               *)
LEMMA WantUpdate ==
  ASSUME SfuTypeOK, NEW s \in Sockets, NEW t \in Tracks, NEW w \in Wants,
         want' = [want EXCEPT ![s][t] = w]
  PROVE  /\ want' \in [Sockets -> [Tracks -> Wants]]
         /\ want'[s][t] = w
         /\ \A o \in Sockets, u \in Tracks :
              o # s \/ u # t => want'[o][u] = want[o][u]
<1>1. want \in [Sockets -> [Tracks -> Wants]]
  BY DEF SfuTypeOK, Wants
<1> QED
  BY <1>1

(* A room that is made is numbered, and one socket fewer can make another. *)
LEMMA RoomsStep ==
  ASSUME SfuTypeOK, RoomsAreNumbered, [SfuNext]_sfuVars
  PROVE  /\ RoomsAreNumbered'
         /\ rooms' \in {0} \union RoomIds /\ created' \in {0} \union RoomIds
         /\ roomOf' \in [Sockets -> {0} \union RoomIds]
<1>0. /\ rooms \in {0} \union RoomIds /\ created \in {0} \union RoomIds
      /\ roomOf \in [Sockets -> {0} \union RoomIds]
      /\ making \subseteq Sockets /\ stage \in [Sockets -> {"out", "creating", "deaf",
                                                            "playing", "in", "left"}]
      /\ rooms \in Nat /\ created \in Nat /\ Cardinality(Sockets) \in Nat
      /\ \A n \in Nat : n \in {0} \union RoomIds <=> n <= Cardinality(Sockets)
  BY FiniteSockets, FS_CardinalityType DEF SfuTypeOK, RoomIds
<1>1. ToCreate \in SUBSET Sockets /\ IsFiniteSet(ToCreate) /\ Cardinality(ToCreate) \in Nat
  <2>1. ToCreate \in SUBSET Sockets
    BY <1>0 DEF ToCreate
  <2>2. IsFiniteSet(ToCreate)
    BY <2>1, FiniteSockets, FS_Subset
  <2> QED
    BY <2>1, <2>2, FS_CardinalityType
<1>2. ASSUME ToCreate' \in SUBSET ToCreate, UNCHANGED created,
             \A s \in making' : stage'[s] \in {"creating", "left"},
             rooms' \in {0, rooms}, roomOf' \in [Sockets -> {0} \union RoomIds],
             \A s \in Sockets : roomOf'[s] \in {0, rooms, roomOf[s]}
      PROVE  /\ RoomsAreNumbered'
             /\ rooms' \in {0} \union RoomIds /\ created' \in {0} \union RoomIds
             /\ roomOf' \in [Sockets -> {0} \union RoomIds]
  <2>1. /\ Cardinality(ToCreate') <= Cardinality(ToCreate)
        /\ IsFiniteSet(ToCreate')
    BY <1>1, <1>2, FS_Subset
  <2>2. Cardinality(ToCreate') \in Nat
    BY <2>1, FS_CardinalityType
  <2>3. rooms' <= created' /\ \A s \in Sockets : roomOf'[s] <= created'
    BY <1>0, <1>2 DEF RoomsAreNumbered
  <2>4. created' + Cardinality(ToCreate') <= Cardinality(Sockets)
    BY <1>0, <1>1, <1>2, <2>1, <2>2 DEF RoomsAreNumbered
  <2> QED
    BY <1>0, <1>2, <2>3, <2>4 DEF RoomsAreNumbered
<1>3. ASSUME NEW s \in Sockets, RouterCreated(s)
      PROVE  /\ RoomsAreNumbered'
             /\ rooms' \in {0} \union RoomIds /\ created' \in {0} \union RoomIds
             /\ roomOf' \in [Sockets -> {0} \union RoomIds]
  <2>1. /\ s \in making /\ making' = making \ {s}
        /\ created' = created + 1 /\ rooms' = created + 1
        /\ roomOf' = [roomOf EXCEPT ![s] = created + 1]
        /\ \A o \in Sockets : stage'[o] = IF o = s /\ stage[o] = "creating"
                                          THEN "deaf" ELSE stage[o]
    BY <1>0, <1>3 DEF RouterCreated
  <2>2. stage[s] # "out" /\ s \in ToCreate
    BY <2>1 DEF RoomsAreNumbered, ToCreate
  <2>3. ToCreate' = ToCreate \ {s}
    BY <2>1, <2>2 DEF ToCreate
  <2>4. Cardinality(ToCreate') = Cardinality(ToCreate) - 1 /\ Cardinality(ToCreate) >= 1
    <3>1. Cardinality(ToCreate') = Cardinality(ToCreate) - 1 /\ IsFiniteSet(ToCreate')
      BY <1>1, <2>2, <2>3, FS_RemoveElement
    <3>2. Cardinality(ToCreate') \in Nat
      BY <3>1, FS_CardinalityType
    <3> QED
      BY <1>1, <3>1, <3>2
  <2>5. created + 1 <= Cardinality(Sockets)
    BY <1>0, <1>1, <2>4 DEF RoomsAreNumbered
  <2>6. created + 1 \in {0} \union RoomIds
    BY <1>0, <2>5
  <2>7. roomOf' \in [Sockets -> {0} \union RoomIds]
    BY <1>0, <2>1, <2>6
  <2>8. \A o \in Sockets : roomOf'[o] <= created'
    <3>1. \A o \in Sockets : roomOf[o] \in Nat
      BY <1>0 DEF RoomIds
    <3> QED
      BY <1>0, <2>1, <3>1 DEF RoomsAreNumbered
  <2>9. created' + Cardinality(ToCreate') <= Cardinality(Sockets)
    BY <1>0, <1>1, <2>1, <2>4 DEF RoomsAreNumbered
  <2>10. \A o \in making' : stage'[o] \in {"creating", "left"}
    BY <1>0, <2>1 DEF RoomsAreNumbered
  <2>11. rooms' <= created'
    BY <1>0, <2>1
  <2> QED
    BY <2>1, <2>6, <2>7, <2>8, <2>9, <2>10, <2>11 DEF RoomsAreNumbered
<1>4. ASSUME NEW s \in Sockets, JoinRoom(s)
      PROVE  /\ RoomsAreNumbered'
             /\ rooms' \in {0} \union RoomIds /\ created' \in {0} \union RoomIds
             /\ roomOf' \in [Sockets -> {0} \union RoomIds]
  <2>1. /\ stage[s] = "out" /\ UNCHANGED <<rooms, created>>
        /\ \A o \in Sockets : o # s => stage'[o] = stage[o]
        /\ stage'[s] # "out"
        /\ making' = making \/ (making' = making \union {s} /\ stage'[s] = "creating")
        /\ roomOf' = roomOf \/ roomOf' = [roomOf EXCEPT ![s] = rooms]
    BY <1>0, <1>4 DEF JoinRoom, Enter
  <2>2. ToCreate' \in SUBSET ToCreate
    BY <1>0, <2>1 DEF ToCreate
  <2>3. \A o \in making' : stage'[o] \in {"creating", "left"}
    BY <1>0, <2>1 DEF RoomsAreNumbered
  <2>4. roomOf' \in [Sockets -> {0} \union RoomIds]
        /\ \A o \in Sockets : roomOf'[o] \in {0, rooms, roomOf[o]}
    BY <1>0, <2>1
  <2> QED
    BY <1>2, <2>1, <2>2, <2>3, <2>4
<1>5. ASSUME NEW s \in Sockets, Listen(s) \/ ListPlayed(s) \/ Leave(s)
      PROVE  /\ RoomsAreNumbered'
             /\ rooms' \in {0} \union RoomIds /\ created' \in {0} \union RoomIds
             /\ roomOf' \in [Sockets -> {0} \union RoomIds]
  <2>1. /\ UNCHANGED <<rooms, created, roomOf, making>>
        /\ \A o \in Sockets : o # s => stage'[o] = stage[o]
        /\ stage[s] # "out" /\ stage'[s] # "out"
        /\ stage'[s] = "left" \/ stage[s] \notin {"creating", "left"}
    BY <1>0, <1>5 DEF Listen, ListPlayed, Leave
  <2>2. ToCreate' \in SUBSET ToCreate
    BY <1>0, <2>1 DEF ToCreate
  <2>3. \A o \in making' : stage'[o] \in {"creating", "left"}
    BY <1>0, <2>1 DEF RoomsAreNumbered
  <2> QED
    BY <1>0, <1>2, <2>1, <2>2, <2>3
<1>6. ASSUME NEW s \in Sockets, PeerGone(s)
      PROVE  /\ RoomsAreNumbered'
             /\ rooms' \in {0} \union RoomIds /\ created' \in {0} \union RoomIds
             /\ roomOf' \in [Sockets -> {0} \union RoomIds]
  <2>1. /\ UNCHANGED <<created, stage, making>> /\ rooms' \in {0, rooms}
        /\ roomOf' = roomOf \/ roomOf' = [roomOf EXCEPT ![s] = 0]
    BY <1>6 DEF PeerGone, RoomAfter
  <2>2. ToCreate' \in SUBSET ToCreate
    BY <2>1 DEF ToCreate
  <2>3. \A o \in making' : stage'[o] \in {"creating", "left"}
    BY <2>1 DEF RoomsAreNumbered
  <2>4. roomOf' \in [Sockets -> {0} \union RoomIds]
        /\ \A o \in Sockets : roomOf'[o] \in {0, rooms, roomOf[o]}
    BY <1>0, <2>1
  <2> QED
    BY <1>2, <2>1, <2>2, <2>3, <2>4
<1>7. CASE UNCHANGED <<rooms, created, roomOf, making, stage>>
  <2>1. ToCreate' = ToCreate
    BY <1>7 DEF ToCreate
  <2> QED
    BY <1>0, <1>7, <2>1 DEF RoomsAreNumbered
<1>8. ASSUME NEW s \in Sockets, NEW g \in Tags,
             AskProduce(s, g) \/ Produce(s, g) \/ StopProducing(s, g) \/ CloseProducer(s, g)
      PROVE  UNCHANGED <<rooms, created, roomOf, making, stage>>
  BY <1>8 DEF AskProduce, Produce, StopProducing, CloseProducer
<1>9. ASSUME NEW s \in Sockets, NEW t \in Tracks,
             \/ PlayListed(s, t) \/ OnNewProducer(s, t) \/ Consume(s, t)
             \/ MakeConsumer(s, t) \/ ResumeConsumer(s, t)
             \/ ShowTrack(s, t) \/ OnProducerClosed(s, t) \/ Refused(s, t)
      PROVE  UNCHANGED <<rooms, created, roomOf, making, stage>>
  BY <1>9 DEF PlayListed, OnNewProducer, Consume, MakeConsumer, ResumeConsumer,
              ShowTrack, OnProducerClosed, Refused
<1>10. UNCHANGED sfuVars => UNCHANGED <<rooms, created, roomOf, making, stage>>
  BY DEF sfuVars
<1> QED
  BY <1>3, <1>4, <1>5, <1>6, <1>7, <1>8, <1>9, <1>10 DEF SfuNext

LEMMA SfuTypeStep ==
  ASSUME SfuTypeOK, RoomsAreNumbered, [SfuNext]_sfuVars
  PROVE  SfuTypeOK'
<1>0. /\ rooms' \in {0} \union RoomIds /\ created' \in {0} \union RoomIds
      /\ roomOf' \in [Sockets -> {0} \union RoomIds]
  BY RoomsStep
<1>1. /\ making \subseteq Sockets
      /\ stage \in [Sockets -> {"out", "creating", "deaf", "playing", "in", "left"}]
      /\ gone \subseteq Sockets
      /\ track \in [Tracks -> States]
      /\ existing \in [Sockets -> SUBSET Tracks]
      /\ current \in [Sockets -> Tracks \union {NoTrack}]
      /\ want \in [Sockets -> [Tracks -> Wants]]
      /\ news \in [Sockets -> SUBSET Tracks]
      /\ closings \in [Sockets -> SUBSET Tracks]
      /\ deafTo \in [Sockets -> SUBSET Tracks]
  BY DEF SfuTypeOK, States, Wants
<1>2. SUFFICES
      /\ making' \subseteq Sockets
      /\ stage' \in [Sockets -> {"out", "creating", "deaf", "playing", "in", "left"}]
      /\ gone' \subseteq Sockets
      /\ track' \in [Tracks -> States]
      /\ existing' \in [Sockets -> SUBSET Tracks]
      /\ current' \in [Sockets -> Tracks \union {NoTrack}]
      /\ want' \in [Sockets -> [Tracks -> Wants]]
      /\ news' \in [Sockets -> SUBSET Tracks]
      /\ closings' \in [Sockets -> SUBSET Tracks]
      /\ deafTo' \in [Sockets -> SUBSET Tracks]
  BY <1>0 DEF SfuTypeOK, States, Wants
<1>3. ASSUME NEW s \in Sockets, JoinRoom(s)
      PROVE  /\ making' \subseteq Sockets
             /\ stage' \in [Sockets -> {"out", "creating", "deaf", "playing", "in", "left"}]
             /\ existing' \in [Sockets -> SUBSET Tracks]
             /\ UNCHANGED <<gone, track, current, want, news, closings, deafTo>>
  <2>1. Listed(s, rooms) \subseteq Tracks
    BY DEF Listed
  <2>2. UNCHANGED <<gone, track, current, want, news, closings, deafTo>>
    BY <1>3 DEF JoinRoom
  <2>3. CASE rooms # 0
    <3>1. /\ making' = making /\ stage' = [stage EXCEPT ![s] = "deaf"]
          /\ existing' = [existing EXCEPT ![s] = Listed(s, rooms)]
      BY <1>3, <2>3 DEF JoinRoom, Enter
    <3>2. existing' \in [Sockets -> SUBSET Tracks]
      BY <1>1, <2>1, <3>1
    <3> QED
      BY <1>1, <2>2, <3>1, <3>2
  <2>4. CASE rooms = 0
    BY <1>1, <1>3, <2>2, <2>4 DEF JoinRoom
  <2> QED
    BY <2>3, <2>4
<1>4. ASSUME NEW s \in Sockets, RouterCreated(s) \/ Listen(s) \/ ListPlayed(s)
      PROVE  /\ making' \subseteq Sockets
             /\ stage' \in [Sockets -> {"out", "creating", "deaf", "playing", "in", "left"}]
             /\ UNCHANGED <<gone, track, existing, current, want, news, closings, deafTo>>
  <2>1. CASE RouterCreated(s)
    <3>1. (IF stage[s] = "creating" THEN "deaf" ELSE stage[s])
            \in {"out", "creating", "deaf", "playing", "in", "left"}
      BY <1>1
    <3> QED
      BY <1>1, <2>1, <3>1 DEF RouterCreated
  <2>2. CASE Listen(s) \/ ListPlayed(s)
    BY <1>1, <2>2 DEF Listen, ListPlayed
  <2> QED
    BY <1>4, <2>1, <2>2
<1>5. ASSUME NEW s \in Sockets, Leave(s)
      PROVE  /\ stage' \in [Sockets -> {"out", "creating", "deaf", "playing", "in", "left"}]
             /\ existing' \in [Sockets -> SUBSET Tracks]
             /\ current' \in [Sockets -> Tracks \union {NoTrack}]
             /\ want' \in [Sockets -> [Tracks -> Wants]]
             /\ news' \in [Sockets -> SUBSET Tracks]
             /\ closings' \in [Sockets -> SUBSET Tracks]
             /\ deafTo' \in [Sockets -> SUBSET Tracks]
             /\ UNCHANGED <<making, gone, track>>
  <2>1. [t \in Tracks |-> "no"] \in [Tracks -> Wants]
    BY DEF Wants
  <2> QED
    BY <1>1, <1>5, <2>1 DEF Leave
<1>6. ASSUME NEW s \in Sockets, PeerGone(s)
      PROVE  /\ gone' \subseteq Sockets
             /\ track' \in [Tracks -> States]
             /\ closings' \in [Sockets -> SUBSET Tracks]
             /\ UNCHANGED <<making, stage, existing, current, want, news, deafTo>>
  <2> DEFINE own == {t \in Tracks : t[1] = s /\ track[t] \in {"live", "stopping"}}
  <2>1. Tell(closings, s, own) \in [Sockets -> SUBSET Tracks]
    BY <1>1 DEF Tell
  <2>2. [t \in Tracks |-> IF t \in own THEN "closed" ELSE track[t]] \in [Tracks -> States]
    BY <1>1 DEF States
  <2>3. CASE HasPeer(s)
    BY <1>1, <1>6, <2>1, <2>2, <2>3 DEF PeerGone
  <2>4. CASE ~HasPeer(s)
    BY <1>1, <1>6, <2>4 DEF PeerGone
  <2> QED
    BY <2>3, <2>4
<1>7. ASSUME NEW s \in Sockets, NEW g \in Tags,
             AskProduce(s, g) \/ Produce(s, g) \/ StopProducing(s, g) \/ CloseProducer(s, g)
      PROVE  /\ track' \in [Tracks -> States]
             /\ news' \in [Sockets -> SUBSET Tracks]
             /\ closings' \in [Sockets -> SUBSET Tracks]
             /\ UNCHANGED <<making, stage, gone, existing, current, want, deafTo>>
  <2>0. <<s, g>> \in Tracks
    BY DEF Tracks
  <2>1. /\ Tell(news, s, {<<s, g>>}) \in [Sockets -> SUBSET Tracks]
        /\ Tell(closings, s, {<<s, g>>}) \in [Sockets -> SUBSET Tracks]
    BY <1>1, <2>0 DEF Tell
  <2>2. \A w \in States : [track EXCEPT ![<<s, g>>] = w] \in [Tracks -> States]
    BY <1>1
  <2>3. {"asked", "live", "stopping", "closed"} \subseteq States
    BY DEF States
  <2>4. CASE AskProduce(s, g)
    BY <1>1, <2>2, <2>3, <2>4 DEF AskProduce
  <2>5. CASE Produce(s, g)
    BY <1>1, <2>1, <2>2, <2>3, <2>5 DEF Produce
  <2>6. CASE StopProducing(s, g)
    BY <1>1, <2>2, <2>3, <2>6 DEF StopProducing
  <2>7. CASE CloseProducer(s, g)
    BY <1>1, <2>1, <2>2, <2>3, <2>7 DEF CloseProducer
  <2> QED
    BY <1>7, <2>4, <2>5, <2>6, <2>7
<1>8. ASSUME NEW s \in Sockets, NEW t \in Tracks,
             PlayListed(s, t) \/ OnNewProducer(s, t)
      PROVE  /\ existing' \in [Sockets -> SUBSET Tracks]
             /\ current' \in [Sockets -> Tracks \union {NoTrack}]
             /\ want' \in [Sockets -> [Tracks -> Wants]]
             /\ news' \in [Sockets -> SUBSET Tracks]
             /\ deafTo' \in [Sockets -> SUBSET Tracks]
             /\ UNCHANGED <<making, stage, gone, track, closings>>
  <2>1. /\ want' = want \/ want' = [want EXCEPT ![s][t] = "asked"]
        /\ "asked" \in Wants
    BY <1>8 DEF PlayListed, OnNewProducer, Wants
  <2>2. want' \in [Sockets -> [Tracks -> Wants]]
    BY <1>1, <2>1, WantUpdate
  <2>3. CASE PlayListed(s, t)
    BY <1>1, <2>2, <2>3 DEF PlayListed
  <2>4. CASE OnNewProducer(s, t)
    <3>1. deafTo' \in [Sockets -> SUBSET Tracks] /\ news' \in [Sockets -> SUBSET Tracks]
      BY <1>1, <2>4 DEF OnNewProducer
    <3> QED
      BY <1>1, <2>2, <2>4, <3>1 DEF OnNewProducer
  <2> QED
    BY <1>8, <2>3, <2>4
<1>9. ASSUME NEW s \in Sockets, NEW t \in Tracks,
             \/ Consume(s, t) \/ MakeConsumer(s, t) \/ ResumeConsumer(s, t)
             \/ ShowTrack(s, t) \/ OnProducerClosed(s, t) \/ Refused(s, t)
      PROVE  /\ current' \in [Sockets -> Tracks \union {NoTrack}]
             /\ want' \in [Sockets -> [Tracks -> Wants]]
             /\ closings' \in [Sockets -> SUBSET Tracks]
             /\ UNCHANGED <<making, stage, gone, track, existing, news, deafTo>>
  <2>1. PICK w \in Wants : want' = [want EXCEPT ![s][t] = w]
    <3>1. CASE OnProducerClosed(s, t)
      <4>1. want[s][t] \in Wants /\ "no" \in Wants
        BY <1>1 DEF Wants
      <4>2. want' = [want EXCEPT ![s][t] = IF want[s][t] = "shown" THEN "no" ELSE want[s][t]]
        BY <3>1 DEF OnProducerClosed
      <4> QED
        BY <4>1, <4>2
    <3>2. CASE Consume(s, t)
      BY <3>2 DEF Consume, Wants
    <3>3. CASE ResumeConsumer(s, t)
      BY <3>3 DEF ResumeConsumer, Wants
    <3>4. CASE MakeConsumer(s, t) \/ ShowTrack(s, t) \/ Refused(s, t)
      BY <3>4 DEF MakeConsumer, ShowTrack, Refused, Wants
    <3> QED
      BY <1>9, <3>1, <3>2, <3>3, <3>4
  <2>2. want' \in [Sockets -> [Tracks -> Wants]]
    BY <1>1, <2>1, WantUpdate
  <2>3. closings' \in [Sockets -> SUBSET Tracks]
    BY <1>1, <1>9 DEF Consume, MakeConsumer, ResumeConsumer, ShowTrack,
                      OnProducerClosed, Refused
  <2>4. current' \in [Sockets -> Tracks \union {NoTrack}]
    BY <1>1, <1>9 DEF Consume, MakeConsumer, ResumeConsumer, ShowTrack, Played,
                      OnProducerClosed, Refused
  <2>5. UNCHANGED <<making, stage, gone, track, existing, news, deafTo>>
    BY <1>9 DEF Consume, MakeConsumer, ResumeConsumer, ShowTrack, OnProducerClosed, Refused
  <2> QED
    BY <2>2, <2>3, <2>4, <2>5
<1>10. CASE UNCHANGED sfuVars
  BY <1>1, <1>10 DEF sfuVars
<1> QED
  BY <1>1, <1>3, <1>4, <1>5, <1>6, <1>7, <1>8, <1>9, <1>10 DEF SfuNext

(* Nobody sends before being in, and what is reported closed stays closed. *)
LEMMA TracksStep ==
  ASSUME SfuTypeOK, TracksAreSent, [SfuNext]_sfuVars
  PROVE  TracksAreSent'
<1>0. /\ stage \in [Sockets -> {"out", "creating", "deaf", "playing", "in", "left"}]
      /\ track \in [Tracks -> States] /\ closings \in [Sockets -> SUBSET Tracks]
      /\ \A s \in Sockets, g \in Tags : <<s, g>> \in Tracks
      /\ gone \subseteq Sockets
  BY DEF SfuTypeOK, States, Tracks
<1> USE DEF TracksAreSent
<1>1. ASSUME NEW s \in Sockets, JoinRoom(s) \/ RouterCreated(s) \/ Listen(s) \/ ListPlayed(s)
      PROVE  TracksAreSent'
  <2>1. /\ UNCHANGED <<gone, track, closings>>
        /\ \A o \in Sockets : o # s => stage'[o] = stage[o]
        /\ stage[s] # "left" \/ stage'[s] = "left"
        /\ stage[s] \notin {"in", "left"} \/ stage'[s] = stage[s]
    <3>1. CASE JoinRoom(s)
      BY <1>0, <3>1 DEF JoinRoom, Enter
    <3>2. CASE RouterCreated(s)
      <4>1. \A o \in Sockets : stage'[o] = IF o = s /\ stage[o] = "creating"
                                            THEN "deaf" ELSE stage[o]
        BY <1>0, <3>2 DEF RouterCreated
      <4>2. UNCHANGED <<gone, track, closings>>
        BY <3>2 DEF RouterCreated
      <4> QED
        BY <4>1, <4>2
    <3>3. CASE Listen(s) \/ ListPlayed(s)
      BY <1>0, <3>3 DEF Listen, ListPlayed
    <3> QED
      BY <1>1, <3>1, <3>2, <3>3
  <2>2. \A o \in Sockets, g \in Tags :
          stage'[o] \in {"out", "creating", "deaf", "playing"} => track'[<<o, g>>] = "none"
    BY <1>0, <2>1
  <2> QED
    BY <1>0, <2>1, <2>2
<1>2. ASSUME NEW s \in Sockets, Leave(s)
      PROVE  TracksAreSent'
  <2>1. /\ UNCHANGED <<gone, track>>
        /\ \A o \in Sockets : stage'[o] \in {stage[o], "left"} /\ closings'[o] \in {closings[o], {}}
    BY <1>0, <1>2 DEF Leave
  <2>2. \A o \in gone' : stage'[o] = "left"
    BY <1>0, <2>1 DEF SfuTypeOK
  <2> QED
    BY <2>1, <2>2
<1>3. ASSUME NEW s \in Sockets, PeerGone(s)
      PROVE  TracksAreSent'
  <2> DEFINE own == {t \in Tracks : t[1] = s /\ track[t] \in {"live", "stopping"}}
  <2>1. /\ stage[s] = "left" /\ gone' = gone \union {s} /\ stage' = stage
        /\ \A t \in Tracks : track'[t] = track[t] \/ (t \in own /\ track'[t] = "closed")
        /\ \A o \in Sockets : closings'[o] \subseteq closings[o] \union {t \in own : track'[t] = "closed"}
    BY <1>0, <1>3 DEF PeerGone, Tell
  <2>2. \A o \in Sockets, g \in Tags : <<o, g>> \in own => o = s
    OBVIOUS
  <2>3. \A o \in Sockets, g \in Tags :
          stage[o] # "left" => track'[<<o, g>>] = track[<<o, g>>]
    BY <1>0, <2>1, <2>2
  <2>4. \A o \in Sockets : \A t \in closings'[o] : track'[t] = "closed"
    BY <1>0, <2>1
  <2> QED
    BY <1>0, <2>1, <2>3, <2>4
<1>4. ASSUME NEW s \in Sockets, NEW g \in Tags,
             AskProduce(s, g) \/ Produce(s, g) \/ StopProducing(s, g) \/ CloseProducer(s, g)
      PROVE  TracksAreSent'
  <2>1. /\ UNCHANGED <<stage, gone>>
        /\ \A t \in Tracks : t # <<s, g>> => track'[t] = track[t]
        /\ stage[s] = "in" \/ track[<<s, g>>] # "none"
        /\ track[<<s, g>>] # "closed"
    BY <1>0, <1>4 DEF AskProduce, Produce, StopProducing, CloseProducer
  <2>2. \A o \in Sockets, h \in Tags :
          stage[o] \in {"out", "creating", "deaf", "playing"} => track'[<<o, h>>] = "none"
    BY <1>0, <2>1
  <2>3. \A o \in Sockets : closings'[o] \subseteq closings[o]
          \union (IF track'[<<s, g>>] = "closed" THEN {<<s, g>>} ELSE {})
    BY <1>0, <1>4 DEF AskProduce, Produce, StopProducing, CloseProducer, Tell
  <2>4. \A o \in Sockets : \A t \in closings'[o] : track'[t] = "closed"
    BY <1>0, <2>1, <2>3
  <2> QED
    BY <2>1, <2>2, <2>4
<1>5. ASSUME NEW s \in Sockets, NEW t \in Tracks,
             \/ PlayListed(s, t) \/ OnNewProducer(s, t) \/ Consume(s, t)
             \/ MakeConsumer(s, t) \/ ResumeConsumer(s, t)
             \/ ShowTrack(s, t) \/ OnProducerClosed(s, t) \/ Refused(s, t)
      PROVE  TracksAreSent'
  <2>1. UNCHANGED <<stage, gone, track>>
        /\ \A o \in Sockets : closings'[o] \subseteq closings[o]
    BY <1>0, <1>5 DEF PlayListed, OnNewProducer, Consume, MakeConsumer, ResumeConsumer,
                      ShowTrack, OnProducerClosed, Refused
  <2> QED
    BY <2>1
<1>6. CASE UNCHANGED sfuVars
  BY <1>6 DEF sfuVars
<1> QED
  BY <1>1, <1>2, <1>3, <1>4, <1>5, <1>6 DEF SfuNext

LEMMA PlayedStep ==
  ASSUME SfuInv, [SfuNext]_sfuVars
  PROVE  EveryTrackIsPlayed'
<1> DEFINE Entitled(s, t) == /\ stage[s] \in {"deaf", "playing", "in"} /\ HasPeer(s)
                             /\ t[1] # s /\ HasPeer(t[1]) /\ track[t] = "live"
           Wanted(s, t)   == want[s][t] \notin {"no", "refused"}
           OnItsWay(s, t) == t \in existing[s] \union news[s] \union deafTo[s]
<1>0. /\ stage \in [Sockets -> {"out", "creating", "deaf", "playing", "in", "left"}]
      /\ roomOf \in [Sockets -> Nat] /\ rooms \in Nat /\ created \in Nat
      /\ track \in [Tracks -> States] /\ gone \subseteq Sockets
      /\ existing \in [Sockets -> SUBSET Tracks] /\ news \in [Sockets -> SUBSET Tracks]
      /\ deafTo \in [Sockets -> SUBSET Tracks]
      /\ want \in [Sockets -> [Tracks -> Wants]]
      /\ \A t \in Tracks : t[1] \in Sockets /\ t[2] \in Tags /\ t = <<t[1], t[2]>>
  <2>1. \A t \in Tracks : t[1] \in Sockets /\ t[2] \in Tags /\ t = <<t[1], t[2]>>
    BY DEF Tracks
  <2>2. RoomIds \subseteq Nat
    BY FiniteSockets, FS_CardinalityType DEF RoomIds
  <2> QED
    BY <2>1, <2>2 DEF SfuInv, SfuTypeOK, States, Wants
<1>1. \A s \in Sockets, t \in Tracks : Entitled(s, t) => Wanted(s, t) \/ OnItsWay(s, t)
  BY DEF SfuInv, EveryTrackIsPlayed
<1>2. SUFFICES ASSUME NEW s \in Sockets, NEW t \in Tracks, Entitled(s, t)'
               PROVE  Wanted(s, t)' \/ OnItsWay(s, t)'
  BY DEF EveryTrackIsPlayed
<1>3. /\ t[1] \in Sockets /\ t[2] \in Tags /\ t = <<t[1], t[2]>> /\ t[1] # s
  BY <1>0, <1>2
<1>4. /\ RoomsAreNumbered /\ TracksAreSent
  BY DEF SfuInv
<1>5. ASSUME Entitled(s, t), UNCHANGED <<existing, news, deafTo, want>>
      PROVE  Wanted(s, t)' \/ OnItsWay(s, t)'
  BY <1>1, <1>5
<1>6. ASSUME NEW o \in Sockets, JoinRoom(o)
      PROVE  Wanted(s, t)' \/ OnItsWay(s, t)'
  <2>1. /\ UNCHANGED <<rooms, track, news, deafTo, want>> /\ stage[o] = "out"
        /\ \A p \in Sockets : p # o => /\ stage'[p] = stage[p] /\ roomOf'[p] = roomOf[p]
                                      /\ existing'[p] = existing[p]
        /\ \/ roomOf'[o] = rooms /\ existing'[o] = Listed(o, rooms)
           \/ stage'[o] = "creating"
    <3>1. \A p \in Sockets : p # o => /\ stage'[p] = stage[p] /\ roomOf'[p] = roomOf[p]
                                      /\ existing'[p] = existing[p]
      BY <1>0, <1>6 DEF JoinRoom, Enter
    <3> QED
      BY <1>0, <1>6, <3>1 DEF JoinRoom, Enter
  <2>2. t[1] # o
    <3>1. t[1] = o => track[t] = "none"
      BY <1>3, <1>4, <2>1 DEF TracksAreSent
    <3> QED
      BY <1>2, <2>1, <3>1
  <2>3. CASE s = o
    BY <1>2, <1>3, <2>1, <2>2, <2>3 DEF Listed, HasPeer
  <2>4. CASE s # o
    BY <1>1, <1>2, <1>3, <2>1, <2>2, <2>4 DEF HasPeer
  <2> QED
    BY <2>3, <2>4
<1>7. ASSUME NEW o \in Sockets, RouterCreated(o)
      PROVE  Wanted(s, t)' \/ OnItsWay(s, t)'
  <2>1. rooms' = created + 1 /\ \A p \in Sockets : p # o => roomOf'[p] = roomOf[p]
    BY <1>0, <1>7 DEF RouterCreated
  <2>2. \A p \in Sockets : roomOf[p] # created + 1
    BY <1>0, <1>4 DEF RoomsAreNumbered
  <2> QED
    BY <1>2, <1>3, <2>1, <2>2 DEF HasPeer
<1>8. ASSUME NEW o \in Sockets, Listen(o) \/ ListPlayed(o)
      PROVE  Wanted(s, t)' \/ OnItsWay(s, t)'
  <2>1. /\ UNCHANGED <<rooms, roomOf, track, news, deafTo, want, existing>>
        /\ \A p \in Sockets : stage'[p] = stage[p]
             \/ stage[p] \in {"deaf", "playing", "in"}
    BY <1>0, <1>8 DEF Listen, ListPlayed
  <2> QED
    BY <1>2, <1>5, <2>1 DEF HasPeer
<1>9. ASSUME NEW o \in Sockets, Leave(o)
      PROVE  Wanted(s, t)' \/ OnItsWay(s, t)'
  <2>1. /\ UNCHANGED <<rooms, roomOf, track>> /\ stage'[o] = "left"
        /\ \A p \in Sockets : p # o =>
             /\ stage'[p] = stage[p] /\ existing'[p] = existing[p] /\ news'[p] = news[p]
             /\ deafTo'[p] = deafTo[p] /\ want'[p] = want[p]
    BY <1>0, <1>9 DEF Leave
  <2> QED
    BY <1>1, <1>2, <2>1 DEF HasPeer
<1>10. ASSUME NEW o \in Sockets, PeerGone(o)
       PROVE  Wanted(s, t)' \/ OnItsWay(s, t)'
  <2>1. /\ UNCHANGED <<stage, news, deafTo, want, existing>>
        /\ rooms' \in {0, rooms}
        /\ \A p \in Sockets : roomOf'[p] \in {0, roomOf[p]}
        /\ \A u \in Tracks : track'[u] \in {track[u], "closed"}
    BY <1>0, <1>10 DEF PeerGone, RoomAfter
  <2> QED
    BY <1>2, <1>3, <1>5, <2>1 DEF HasPeer
<1>11. ASSUME NEW o \in Sockets, NEW g \in Tags,
              AskProduce(o, g) \/ StopProducing(o, g) \/ CloseProducer(o, g)
       PROVE  Wanted(s, t)' \/ OnItsWay(s, t)'
  <2>1. /\ UNCHANGED <<rooms, roomOf, stage, news, deafTo, want, existing>>
        /\ track' = [track EXCEPT ![<<o, g>>] = "asked"]
           \/ track' = [track EXCEPT ![<<o, g>>] = "stopping"]
           \/ track' = [track EXCEPT ![<<o, g>>] = "closed"]
    BY <1>11 DEF AskProduce, StopProducing, CloseProducer
  <2>2. track[t] = "live"
    BY <1>0, <1>2, <2>1
  <2> QED
    BY <1>2, <1>5, <2>1, <2>2 DEF HasPeer
<1>12. ASSUME NEW o \in Sockets, NEW g \in Tags, Produce(o, g)
       PROVE  Wanted(s, t)' \/ OnItsWay(s, t)'
  <2>1. /\ UNCHANGED <<rooms, roomOf, stage, deafTo, want, existing>>
        /\ \A u \in Tracks : u # <<o, g>> => track'[u] = track[u]
        /\ \A p \in Sockets : news'[p] = IF p \in Audience(o) THEN news[p] \union {<<o, g>>}
                                                              ELSE news[p]
    BY <1>0, <1>12 DEF Produce, Tell
  <2>2. CASE t # <<o, g>>
    BY <1>1, <1>2, <2>1, <2>2 DEF HasPeer
  <2>3. CASE t = <<o, g>>
    <3>1. s # o /\ s \notin gone /\ roomOf[s] # 0
      BY <1>2, <1>3, <1>4, <2>1, <2>3 DEF HasPeer, TracksAreSent
    <3>2. s \in Audience(o)
      BY <3>1 DEF Audience
    <3> QED
      BY <2>1, <2>3, <3>2
  <2> QED
    BY <2>2, <2>3
<1>13. ASSUME NEW o \in Sockets, NEW u \in Tracks,
              PlayListed(o, u) \/ OnNewProducer(o, u)
       PROVE  Wanted(s, t)' \/ OnItsWay(s, t)'
  <2>1. UNCHANGED <<rooms, roomOf, stage, track>>
    BY <1>13 DEF PlayListed, OnNewProducer
  <2>2. Wanted(s, t) \/ OnItsWay(s, t)
    BY <1>1, <1>2, <2>1 DEF HasPeer
  <2>3. /\ want'[s] = want[s] \/ want' = [want EXCEPT ![o][u] = "asked"]
        /\ "asked" \in Wants
    BY <1>13 DEF PlayListed, OnNewProducer, Wants
  <2>4. want'[s][t] \in {want[s][t], "asked"}
    BY <1>0, <2>3
  <2>5. \/ want' = [want EXCEPT ![o][u] = "asked"]
        \/ \A p \in Sockets : (existing[p] \union news[p] \union deafTo[p])
             \subseteq (existing'[p] \union news'[p] \union deafTo'[p])
    <3>1. CASE PlayListed(o, u)
      BY <3>1 DEF PlayListed
    <3>2. CASE OnNewProducer(o, u) /\ stage[o] \notin {"playing", "in"}
      BY <1>0, <3>2 DEF OnNewProducer
    <3>3. CASE OnNewProducer(o, u) /\ stage[o] \in {"playing", "in"}
      BY <3>3 DEF OnNewProducer
    <3> QED
      BY <1>13, <3>1, <3>2, <3>3
  <2>6. \A p \in Sockets, v \in Tracks :
          p # o \/ v # u =>
            (v \in existing[p] \union news[p] \union deafTo[p] =>
             v \in existing'[p] \union news'[p] \union deafTo'[p])
    BY <1>0, <1>13 DEF PlayListed, OnNewProducer
  <2>7. want' = [want EXCEPT ![o][u] = "asked"] => want'[o][u] = "asked"
    BY <1>0
  <2> QED
    BY <2>2, <2>4, <2>5, <2>6, <2>7
<1>14. ASSUME NEW o \in Sockets, NEW u \in Tracks,
              \/ Consume(o, u) \/ MakeConsumer(o, u) \/ ResumeConsumer(o, u)
              \/ ShowTrack(o, u) \/ OnProducerClosed(o, u) \/ Refused(o, u)
       PROVE  Wanted(s, t)' \/ OnItsWay(s, t)'
  <2>1. UNCHANGED <<rooms, roomOf, stage, track, existing, news, deafTo>>
    BY <1>14 DEF Consume, MakeConsumer, ResumeConsumer, ShowTrack, OnProducerClosed, Refused
  <2>2. Entitled(s, t) /\ (Wanted(s, t) \/ OnItsWay(s, t))
    BY <1>1, <1>2, <2>1 DEF HasPeer
  <2>3. PICK w : want' = [want EXCEPT ![o][u] = w]
    BY <1>14 DEF Consume, MakeConsumer, ResumeConsumer, ShowTrack, OnProducerClosed, Refused
  <2>4. CASE o # s \/ u # t
    <3>1. want'[s][t] = want[s][t]
      BY <1>0, <2>3, <2>4
    <3> QED
      BY <2>1, <2>2, <3>1
  <2>5. CASE o = s /\ u = t
    <3>1. Consumable(s, t)
      BY <2>2 DEF Consumable, HasPeer
    <3>2. track[t] # "closed"
      BY <2>2
    <3>3. want[s][t] \in Wants /\ t \notin closings[s]
      BY <1>0, <1>4, <3>2 DEF TracksAreSent
    <3>4. CASE Refused(s, t)
      <4>1. want[s][t] = "refused" /\ want' = [want EXCEPT ![s][t] = "no"]
        BY <3>4 DEF Refused
      <4> QED
        BY <2>1, <2>2, <4>1
    <3>5. CASE Consume(s, t)
      <4>1. want'[s][t] = "made"
        BY <1>0, <3>1, <3>5 DEF Consume
      <4> QED
        BY <4>1
    <3>6. CASE ResumeConsumer(s, t)
      <4>1. want'[s][t] = "resumed"
        BY <1>0, <3>1, <3>6 DEF ResumeConsumer, Resumable
      <4> QED
        BY <4>1
    <3>7. CASE MakeConsumer(s, t) \/ ShowTrack(s, t)
      <4>1. want'[s][t] \in {"resuming", "shown"}
        BY <1>0, <3>7 DEF MakeConsumer, ShowTrack
      <4> QED
        BY <4>1
    <3>8. ~OnProducerClosed(s, t)
      BY <3>3 DEF OnProducerClosed
    <3> QED
      BY <1>14, <2>5, <3>4, <3>5, <3>6, <3>7, <3>8
  <2> QED
    BY <2>4, <2>5
<1>15. CASE UNCHANGED sfuVars
  BY <1>1, <1>2, <1>15 DEF sfuVars, HasPeer
<1> QED
  BY <1>6, <1>7, <1>8, <1>9, <1>10, <1>11, <1>12, <1>13, <1>14, <1>15 DEF SfuNext

(* Whatever is sent in a media room reaches every other client in it, for  *)
(* any finite set of sockets and any tags: listed, announced or played.    *)
THEOREM TracksArePlayed == SfuSpec => []SfuInv /\ []EveryTrackIsPlayed
<1>1. SfuInit => SfuInv
  BY SfuInitHolds
<1>2. SfuInv /\ [SfuNext]_sfuVars => SfuInv'
  BY SfuTypeStep, RoomsStep, TracksStep, PlayedStep DEF SfuInv
<1> QED
  BY <1>1, <1>2, PTL DEF SfuSpec, SfuInv

(***************************************************************************)
(* The media of a call.                                                    *)
(***************************************************************************)

Pcs == {"none", "media", "grant", "setup", "in", "closing", "gone"}

(* Closing a session never makes an attempt wait for its stream.           *)
LEMMA Closing ==
  ASSUME NEW att \in [Attempts -> Pcs]
  PROVE  /\ CloseSession(att) \in [Attempts -> Pcs]
         /\ \A k \in Attempts : /\ CloseSession(att)[k] = "media" => att[k] = "media"
                                /\ att[k] = "none" => CloseSession(att)[k] = "none"
<1>1. \A pc \in Pcs : Closed(pc) \in Pcs /\ (Closed(pc) = "media" => pc = "media")
        /\ (pc = "none" => Closed(pc) = "none")
  BY DEF Closed, Pcs
<1>2. CASE session = 0
  BY <1>2 DEF CloseSession
<1>3. CASE session # 0
  <2>1. CloseSession(att) = [att EXCEPT ![session] = Closed(att[session])]
    BY <1>3 DEF CloseSession
  <2> QED
    BY <1>1, <2>1
<1> QED
  BY <1>2, <1>3

LEMMA SessionTypeStep ==
  ASSUME SessionTypeOK, [SessionNext]_sessionVars
  PROVE  SessionTypeOK'
<1> USE SessionBounds
<1>0. attempt \in [Attempts -> Pcs] /\ 0 \in 0..MaxAttempts /\ Attempts \subseteq 0..MaxAttempts
  BY DEF SessionTypeOK, Attempts, Pcs
<1>1. ASSUME ResetStore
      PROVE  /\ status' = "idle" /\ inCall' = FALSE /\ incoming' = FALSE
             /\ remotePeers' = FALSE /\ local' = 0 /\ micEnabled' = TRUE
             /\ shared' = NoShare /\ live' \subseteq Attempts /\ audible' \subseteq live'
             /\ display' \subseteq Shares /\ early' = FALSE /\ strayShare' \subseteq Shares
  BY <1>1 DEF ResetStore, SessionTypeOK
<1>2. ASSUME NEW att \in [Attempts -> Pcs], EndSession(att)
      PROVE  SessionTypeOK'
  <2>1. attempt' \in [Attempts -> Pcs] /\ session' = 0
        /\ UNCHANGED <<shareOn, attempts, share, late>>
    BY <1>2, Closing DEF EndSession
  <2>2. ResetStore
    BY <1>2 DEF EndSession
  <2> QED
    BY <1>0, <1>1, <2>1, <2>2 DEF SessionTypeOK, Pcs
<1>3. CASE BeginAttempt
  <2>1. attempts + 1 \in Attempts /\ attempts' = attempts + 1
    BY <1>3 DEF BeginAttempt, SessionTypeOK, Attempts
  <2>2. attempt' \in [Attempts -> Pcs]
    BY <1>0, <1>3 DEF BeginAttempt, Pcs
  <2> QED
    BY <1>0, <1>3, <2>1, <2>2 DEF BeginAttempt, SessionTypeOK, Pcs
<1>4. CASE DeclineRing
  BY <1>0, <1>1, <1>4 DEF DeclineRing, SessionTypeOK
<1>5. CASE PressHangUp \/ RejectedArrives \/ EndedArrives
  BY <1>0, <1>2, <1>5 DEF PressHangUp, RejectedArrives, EndedArrives
<1>6. CASE ToggleMic
  <2>1. micEnabled' \in BOOLEAN /\ early' \in BOOLEAN
    BY <1>6 DEF ToggleMic, SessionTypeOK
  <2>2. audible' \subseteq live
    BY <1>6 DEF ToggleMic, SessionTypeOK
  <2> QED
    BY <1>6, <2>1, <2>2 DEF ToggleMic, SessionTypeOK
<1>7. CASE RingArrives \/ AcceptedArrives
  <2>1. CASE RingArrives
    BY <2>1 DEF RingArrives, media, SessionTypeOK
  <2>2. CASE AcceptedArrives
    BY <2>2 DEF AcceptedArrives, media, SessionTypeOK
  <2> QED
    BY <1>7, <2>1, <2>2
<1>8. ASSUME NEW s \in Shares, AskShare(s) \/ ShareRefused(s)
      PROVE  SessionTypeOK'
  <2>1. share' \in [Shares -> {"none", "asked", "producing"}]
    BY <1>8 DEF AskShare, ShareRefused, SessionTypeOK
  <2> QED
    BY <1>8, <2>1 DEF AskShare, ShareRefused, media, store, SessionTypeOK
<1>9. ASSUME NEW s \in Shares, ShareGranted(s)
      PROVE  SessionTypeOK'
  <2>1. display' \subseteq Shares /\ strayShare' \subseteq Shares
    BY <1>9 DEF ShareGranted, SessionTypeOK
  <2>2. share' \in [Shares -> {"none", "asked", "producing"}]
        /\ shareOn' \in [Shares -> 0..MaxAttempts]
    BY <1>9 DEF ShareGranted, SessionTypeOK
  <2> QED
    BY <1>9, <2>1, <2>2 DEF ShareGranted, media, store, SessionTypeOK
<1>10. ASSUME NEW s \in Shares, ShareProduced(s) \/ ShareFails(s)
       PROVE  SessionTypeOK'
  <2>1. /\ share' \in [Shares -> {"none", "asked", "producing"}]
        /\ strayShare' \subseteq Shares /\ shared' \in Shares \union {NoShare}
    BY <1>10 DEF ShareProduced, ShareFails, store, SessionTypeOK
  <2> QED
    BY <1>10, <2>1 DEF ShareProduced, ShareFails, media, store, SessionTypeOK
<1>12. CASE StopShare
  BY <1>12 DEF StopShare, CapturesEnd, media, SessionTypeOK
<1>13. ASSUME NEW s \in Shares, CaptureEnds(s)
       PROVE  SessionTypeOK'
  <2>1. PICK ended : CapturesEnd(ended)
    BY <1>13 DEF CaptureEnds
  <2>2. shared' \in Shares \union {NoShare}
    BY <1>13 DEF CaptureEnds, SessionTypeOK
  <2> QED
    BY <2>1, <2>2 DEF CapturesEnd, media, SessionTypeOK
<1>14. ASSUME NEW k \in Attempts, MediaGranted(k)
       PROVE  SessionTypeOK'
  <2>1. attempt' \in [Attempts -> Pcs]
    BY <1>0, <1>14 DEF MediaGranted, Pcs
  <2>2. late' \subseteq Attempts
    <3>1. local \in Attempts \union {0}
      BY DEF SessionTypeOK, Attempts
    <3> QED
      BY <1>14, <3>1 DEF MediaGranted, SessionTypeOK
  <2>3. local' \in 0..MaxAttempts /\ session' \in 0..MaxAttempts
        /\ live' \subseteq Attempts /\ audible' \subseteq live'
    BY <1>0, <1>14 DEF MediaGranted, SessionTypeOK
  <2> QED
    BY <1>14, <2>1, <2>2, <2>3 DEF MediaGranted, SessionTypeOK, Pcs
<1>15. ASSUME NEW k \in Attempts, MediaGrant(k) \/ Joined(k)
       PROVE  SessionTypeOK'
  <2>1. attempt' \in [Attempts -> Pcs]
    BY <1>0, <1>15 DEF MediaGrant, Joined, Advance, Pcs
  <2> QED
    BY <1>15, <2>1 DEF MediaGrant, Joined, Advance, store, SessionTypeOK, Pcs
<1>16. ASSUME NEW k \in Attempts, AttemptFails(k)
       PROVE  SessionTypeOK'
  <2>1. [attempt EXCEPT ![k] = "gone"] \in [Attempts -> Pcs]
    BY <1>0 DEF Pcs
  <2> QED
    BY <1>2, <1>16, <2>1 DEF AttemptFails
<1>17. ASSUME NEW k \in Attempts, OnRemoteTrack(k) \/ OnPeerClosed(k)
       PROVE  SessionTypeOK'
  <2>1. CASE OnRemoteTrack(k)
    BY <2>1 DEF OnRemoteTrack, media, SessionTypeOK
  <2>2. CASE OnPeerClosed(k)
    <3>1. /\ remotePeers' = FALSE
          /\ UNCHANGED <<shareOn, status, inCall, incoming, local, micEnabled, shared,
                         session, attempts, attempt, live, audible, share, display, late,
                         early, strayShare>>
      BY <2>2 DEF OnPeerClosed, media
    <3> QED
      BY <3>1 DEF SessionTypeOK
  <2> QED
    BY <1>17, <2>1, <2>2
<1>18. CASE UNCHANGED sessionVars
  BY <1>18 DEF sessionVars, store, media, SessionTypeOK
<1> QED
  BY <1>3, <1>4, <1>5, <1>6, <1>7, <1>8, <1>9, <1>10, <1>12, <1>13, <1>14,
     <1>15, <1>16, <1>17, <1>18 DEF SessionNext, StartOutgoing, AnswerRing

LEMMA SessionStep ==
  ASSUME SessionInv, [SessionNext]_sessionVars
  PROVE  SessionInv'
<1>0. SessionTypeOK /\ SessionTypeOK' /\ StreamsAreOfAttempts /\ MediaIsAsShown
  BY SessionTypeStep DEF SessionInv
<1>1. SUFFICES StreamsAreOfAttempts' /\ CaptureBelongsToCall' /\ MutedIsSilent'
  BY <1>0 DEF SessionInv, MediaIsAsShown
<1> USE DEF StreamsAreOfAttempts, CaptureBelongsToCall, MutedIsSilent, CanHangUp
<1>2. /\ attempt \in [Attempts -> Pcs] /\ attempts \in 0..MaxAttempts
      /\ live \subseteq Attempts /\ audible \subseteq live /\ local \in 0..MaxAttempts
      /\ \A k \in Attempts : k # 0 /\ k \in Nat
      /\ \A k \in 0..MaxAttempts : k # 0 => k \in Attempts
  BY <1>0, SessionBounds DEF SessionTypeOK, Attempts, Pcs
<1>3. CaptureBelongsToCall /\ MutedIsSilent
  BY <1>0 DEF MediaIsAsShown
(* After a reset only what came late, or is nobody's share, runs.          *)
<1>4. ASSUME ResetStore, UNCHANGED <<attempts, late>>,
             \A k \in Attempts : attempt[k] = "none" => attempt'[k] = "none"
      PROVE  StreamsAreOfAttempts' /\ CaptureBelongsToCall' /\ MutedIsSilent'
  <2>1. /\ status' = "idle" /\ inCall' = FALSE /\ local' = 0 /\ micEnabled' = TRUE
        /\ live' = live \ {local}
        /\ display' = display \ {shared}
        /\ \A s \in display : s # shared /\ (s \in strayShare \/ share[s] = "producing")
                              => s \in strayShare'
    BY <1>4 DEF ResetStore, Stopped
  <2>2. StreamsAreOfAttempts'
    BY <1>0, <1>4, <2>1
  <2>3. live' \ late' = {} /\ display' \subseteq strayShare'
    BY <1>3, <1>4, <2>1
  <2> QED
    BY <2>1, <2>2, <2>3
<1>5. ASSUME NEW att \in [Attempts -> Pcs], EndSession(att),
             \A k \in Attempts : attempt[k] = "none" => att[k] = "none"
      PROVE  StreamsAreOfAttempts' /\ CaptureBelongsToCall' /\ MutedIsSilent'
  <2>1. /\ ResetStore /\ UNCHANGED <<attempts, late>>
        /\ \A k \in Attempts : att[k] = "none" => attempt'[k] = "none"
    BY <1>5, Closing DEF EndSession
  <2> QED
    BY <1>4, <1>5, <2>1
<1>6. CASE StartOutgoing \/ AnswerRing
  <2>1. /\ BeginAttempt /\ ~CanHangUp
    BY <1>6 DEF StartOutgoing, AnswerRing
  <2>2. /\ attempts' = attempts + 1 /\ attempts' \in Attempts /\ status' = "connecting"
        /\ \A k \in Attempts : k # attempts' => attempt'[k] = attempt[k]
        /\ UNCHANGED <<local, live, late, micEnabled, early, audible, display, strayShare,
                       shared, share>>
    BY <1>0, <1>2, <2>1, SessionBounds DEF BeginAttempt, Attempts
  <2>3. live \ late = {} /\ (local # 0 => local \in late) /\ micEnabled
        /\ display \subseteq strayShare
    BY <1>0, <1>3, <2>1
  <2>4. \A k \in Attempts : k > attempts' => attempt'[k] = "none"
    BY <1>0, <1>2, <2>2
  <2>5. StreamsAreOfAttempts'
    BY <1>0, <2>2, <2>3, <2>4
  <2> QED
    BY <2>2, <2>3, <2>5
<1>7. CASE DeclineRing
  BY <1>4, <1>7 DEF DeclineRing
<1>8. CASE PressHangUp \/ RejectedArrives \/ EndedArrives
  BY <1>2, <1>5, <1>8 DEF PressHangUp, RejectedArrives, EndedArrives
<1>9. CASE ToggleMic
  <2>1. /\ UNCHANGED <<status, inCall, local, shared, attempts, attempt, live, share,
                       display, late, strayShare>>
        /\ CanHangUp
        /\ micEnabled' = ~micEnabled
        /\ ~early' => ~early /\ local # 0 /\ local \notin late
    BY <1>9 DEF ToggleMic
  <2>2. ~micEnabled' => local \notin audible' \/ local = 0
    BY <1>0, <1>9 DEF ToggleMic, SessionTypeOK
  <2>3. StreamsAreOfAttempts' /\ CaptureBelongsToCall'
    BY <1>0, <1>3, <2>1
  <2>4. MutedIsSilent'
    BY <2>1, <2>2
  <2> QED
    BY <2>3, <2>4
<1>10. CASE RingArrives \/ AcceptedArrives
  <2>1. /\ UNCHANGED <<inCall, local, shared, micEnabled, attempts, attempt, live, share,
                       display, late, early, strayShare, audible>>
    BY <1>10 DEF RingArrives, AcceptedArrives, media
  <2>2. CanHangUp' \/ (~CanHangUp /\ ~inCall)
    BY <1>0, <1>10 DEF RingArrives, AcceptedArrives
  <2> QED
    BY <1>0, <1>3, <2>1, <2>2
<1>11. ASSUME NEW s \in Shares, AskShare(s) \/ ShareRefused(s)
       PROVE  StreamsAreOfAttempts' /\ CaptureBelongsToCall' /\ MutedIsSilent'
  <2>1. /\ UNCHANGED <<store, media, display, late, early, strayShare>>
        /\ \A t \in Shares : share[t] = "producing" => share'[t] = "producing"
    BY <1>0, <1>11 DEF AskShare, ShareRefused, SessionTypeOK
  <2> QED
    BY <1>0, <1>3, <2>1 DEF store, media, SessionTypeOK
<1>12. ASSUME NEW s \in Shares, ShareGranted(s)
       PROVE  StreamsAreOfAttempts' /\ CaptureBelongsToCall' /\ MutedIsSilent'
  <2>1. /\ UNCHANGED <<store, media, late, early>>
        /\ display' = display \union {s} /\ strayShare \subseteq strayShare'
        /\ \A t \in Shares : t # s => share'[t] = share[t]
        /\ s \notin strayShare' => CanHangUp /\ share'[s] = "producing"
    BY <1>0, <1>12 DEF ShareGranted, SessionTypeOK
  <2>2. CaptureBelongsToCall'
    BY <1>0, <1>3, <2>1 DEF store, media, SessionTypeOK
  <2> QED
    BY <1>0, <1>3, <2>1, <2>2 DEF store, media
<1>13. ASSUME NEW s \in Shares, ShareProduced(s) \/ ShareFails(s)
       PROVE  StreamsAreOfAttempts' /\ CaptureBelongsToCall' /\ MutedIsSilent'
  <2>1. /\ UNCHANGED <<status, inCall, local, micEnabled, media, display, late, early>>
        /\ strayShare \subseteq strayShare'
        /\ \A t \in Shares : t # s => share'[t] = share[t]
        /\ shared # shared' => shared' = s /\ (shared \in display => shared \in strayShare')
        /\ shared' = s \/ (s \in display => s \in strayShare')
    BY <1>0, <1>13 DEF ShareProduced, ShareFails, store, SessionTypeOK
  <2>2. CaptureBelongsToCall'
    BY <1>0, <1>3, <2>1 DEF media, SessionTypeOK
  <2> QED
    BY <1>0, <1>3, <2>1, <2>2 DEF media
<1>14. ASSUME NEW ended, CapturesEnd(ended), shared' = shared \/ shared \in ended
       PROVE  StreamsAreOfAttempts' /\ CaptureBelongsToCall' /\ MutedIsSilent'
  <2>1. /\ UNCHANGED <<status, inCall, local, micEnabled, media, share, late, early>>
        /\ display' = display \ ended /\ strayShare' = strayShare \ ended
    BY <1>14 DEF CapturesEnd
  <2> QED
    BY <1>0, <1>3, <1>14, <2>1 DEF media
<1>15. CASE StopShare
  BY <1>14, <1>15 DEF StopShare
<1>16. ASSUME NEW s \in Shares, CaptureEnds(s)
       PROVE  StreamsAreOfAttempts' /\ CaptureBelongsToCall' /\ MutedIsSilent'
  BY <1>14, <1>16 DEF CaptureEnds
<1>17. ASSUME NEW k \in Attempts, MediaGranted(k)
       PROVE  StreamsAreOfAttempts' /\ CaptureBelongsToCall' /\ MutedIsSilent'
  <2>1. /\ attempt[k] = "media" /\ attempt'[k] = "grant" /\ local' = k
        /\ \A j \in Attempts : j # k => attempt'[j] = attempt[j]
        /\ live' = live \union {k}
        /\ UNCHANGED <<status, inCall, micEnabled, shared, attempts, share, display, early,
                       strayShare>>
    BY <1>2, <1>17 DEF MediaGranted
  <2>2. k <= attempts
    BY <1>0, <1>2, <2>1
  <2>3. CASE k < attempts \/ ~inCall
    <3>1. late' = late \union ({k, local} \ {0})
      BY <1>17, <2>3 DEF MediaGranted
    <3>2. live' \ late' = {} /\ k \in late'
      BY <1>0, <1>2, <1>3, <2>1, <3>1
    <3>3. StreamsAreOfAttempts'
      BY <1>0, <1>2, <2>1, <3>1, <3>2
    <3>4. MutedIsSilent'
      BY <2>1, <3>2
    <3> QED
      BY <1>3, <2>1, <3>2, <3>3, <3>4
  <2>4. CASE k = attempts /\ inCall
    <3>1. late' = late
      BY <1>2, <1>17, <2>4 DEF MediaGranted
    <3>2. live \ late = {}
      BY <1>0, <1>2, <1>3, <2>1, <2>4
    <3>3. CanHangUp /\ (micEnabled \/ early)
      BY <1>0, <2>1, <2>4
    <3>4. StreamsAreOfAttempts'
      BY <1>0, <1>2, <2>1, <2>4, <3>1, <3>3
    <3> QED
      BY <1>3, <2>1, <3>1, <3>2, <3>3, <3>4
  <2> QED
    BY <1>2, <2>2, <2>3, <2>4
<1>18. ASSUME NEW k \in Attempts, MediaGrant(k) \/ Joined(k)
       PROVE  StreamsAreOfAttempts' /\ CaptureBelongsToCall' /\ MutedIsSilent'
  <2>1. /\ UNCHANGED <<store, live, audible, attempts, share, display, late, early, strayShare>>
        /\ \A j \in Attempts : attempt'[j] = attempt[j]
             \/ (attempt[j] \in {"grant", "setup"} /\ attempt'[j] \in {"setup", "in"})
    BY <1>2, <1>18 DEF MediaGrant, Joined, Advance
  <2>2. StreamsAreOfAttempts'
    BY <1>0, <1>2, <2>1 DEF store
  <2> QED
    BY <1>3, <2>1, <2>2 DEF store
<1>19. ASSUME NEW k \in Attempts, AttemptFails(k)
       PROVE  StreamsAreOfAttempts' /\ CaptureBelongsToCall' /\ MutedIsSilent'
  <2>1. /\ [attempt EXCEPT ![k] = "gone"] \in [Attempts -> Pcs]
        /\ attempt[k] # "none"
    BY <1>2, <1>19 DEF AttemptFails, Pcs
  <2>2. \A j \in Attempts : attempt[j] = "none" => [attempt EXCEPT ![k] = "gone"][j] = "none"
    BY <1>2, <2>1
  <2> QED
    BY <1>5, <1>19, <2>1, <2>2 DEF AttemptFails
<1>20. ASSUME NEW k \in Attempts, OnRemoteTrack(k) \/ OnPeerClosed(k)
       PROVE  StreamsAreOfAttempts' /\ CaptureBelongsToCall' /\ MutedIsSilent'
  <2>1. /\ UNCHANGED <<inCall, local, micEnabled, shared, media, share, display, late, early,
                       strayShare>>
        /\ CanHangUp => CanHangUp'
    BY <1>20 DEF OnRemoteTrack, OnPeerClosed
  <2> QED
    BY <1>0, <1>3, <2>1 DEF media
<1>21. CASE UNCHANGED sessionVars
  BY <1>0, <1>3, <1>21 DEF sessionVars, store, media
<1> QED
  BY <1>6, <1>7, <1>8, <1>9, <1>10, <1>11, <1>12, <1>13, <1>15, <1>16, <1>17,
     <1>18, <1>19, <1>20, <1>21 DEF SessionNext

(* For any number of calls and of shares, also two at a time: what is      *)
(* captured can be stopped by hanging up, and what is shown as muted is    *)
(* silent, but for streams that came late, captures that could not be      *)
(* produced, and the capture of a share that another one replaced.         *)
THEOREM CaptureIsShown == SessionSpec => []SessionInv /\ []MediaIsAsShown
<1>1. SessionInit => SessionInv
  <2> SUFFICES ASSUME SessionInit PROVE SessionInv
    OBVIOUS
  <2>1. SessionTypeOK
    <3>1. 0 \in 0..MaxAttempts
      BY SessionBounds
    <3>2. attempt \in [Attempts -> {"none", "media", "grant", "setup", "in", "closing",
                                    "gone"}]
      BY DEF SessionInit
    <3> QED
      BY <3>1, <3>2 DEF SessionInit, SessionTypeOK
  <2>2. StreamsAreOfAttempts /\ MediaIsAsShown
    BY DEF SessionInit, StreamsAreOfAttempts, MediaIsAsShown, CaptureBelongsToCall,
           MutedIsSilent
  <2> QED
    BY <2>1, <2>2 DEF SessionInv
<1>2. SessionInv /\ [SessionNext]_sessionVars => SessionInv'
  BY SessionStep
<1> QED
  BY <1>1, <1>2, PTL DEF SessionSpec, SessionInv

(***************************************************************************)
(* CallSignals: the participants of a call.                                *)
(***************************************************************************)

(* What a new message says, and what is left when the first one is taken.  *)
LEMMA MessageAppended ==
  ASSUME NEW S, NEW s \in Seq(S), NEW m \in S, NEW kinds, "reject" \notin kinds
  PROVE  /\ Decided(Append(s, m)) <=> (Decided(s) \/ m # "reject")
         /\ LastIsIn(Append(s, m), kinds)
              <=> (m \in kinds \/ (m = "reject" /\ LastIsIn(s, kinds)))
<1> DEFINE t == Append(s, m)
<1>1. /\ Len(s) \in Nat /\ DOMAIN s = 1..Len(s) /\ DOMAIN t = 1..(Len(s) + 1)
      /\ t[Len(s) + 1] = m /\ \A i \in 1..Len(s) : t[i] = s[i]
  OBVIOUS
<1> HIDE DEF t
<1>2. Decided(t) <=> (Decided(s) \/ m # "reject")
  BY <1>1 DEF Decided
<1>3. m \in kinds => LastIsIn(t, kinds)
  BY <1>1 DEF LastIsIn
<1>4. m = "reject" /\ LastIsIn(s, kinds) => LastIsIn(t, kinds)
  <2>1. SUFFICES ASSUME m = "reject", LastIsIn(s, kinds) PROVE LastIsIn(t, kinds)
    OBVIOUS
  <2>2. PICK i \in 1..Len(s) : s[i] \in kinds /\ \A j \in 1..Len(s) : j > i => s[j] = "reject"
    BY <1>1, <2>1 DEF LastIsIn
  <2>3. i \in DOMAIN t /\ t[i] \in kinds /\ \A j \in DOMAIN t : j > i => t[j] = "reject"
    BY <1>1, <2>1, <2>2
  <2> QED
    BY <2>3 DEF LastIsIn
<1>5. LastIsIn(t, kinds) /\ m \notin kinds => m = "reject" /\ LastIsIn(s, kinds)
  <2>1. SUFFICES ASSUME LastIsIn(t, kinds), m \notin kinds
                 PROVE  m = "reject" /\ LastIsIn(s, kinds)
    OBVIOUS
  <2>2. PICK i \in 1..(Len(s) + 1) :
          t[i] \in kinds /\ \A j \in 1..(Len(s) + 1) : j > i => t[j] = "reject"
    BY <1>1, <2>1 DEF LastIsIn
  <2>3. i # Len(s) + 1
    BY <1>1, <2>1, <2>2
  <2>4. i \in 1..Len(s) /\ m = "reject"
    BY <1>1, <2>2, <2>3
  <2>5. s[i] \in kinds /\ \A j \in 1..Len(s) : j > i => s[j] = "reject"
    BY <1>1, <2>2, <2>4
  <2> QED
    BY <1>1, <2>4, <2>5 DEF LastIsIn
<1> QED
  BY <1>2, <1>3, <1>4, <1>5 DEF t

LEMMA MessageTaken ==
  ASSUME NEW S, NEW s \in Seq(S), s # <<>>, NEW kinds, "reject" \notin kinds
  PROVE  /\ Decided(s) <=> (Decided(Tail(s)) \/ Head(s) # "reject")
         /\ LastIsIn(Tail(s), kinds) => LastIsIn(s, kinds)
         /\ ~Decided(Tail(s)) /\ Head(s) \in kinds => LastIsIn(s, kinds)
         /\ LastIsIn(Tail(s), kinds) => Decided(Tail(s))
<1> DEFINE t == Tail(s)
<1>1. /\ Len(s) \in Nat /\ Len(s) # 0 /\ DOMAIN s = 1..Len(s) /\ Head(s) = s[1]
      /\ DOMAIN t = 1..(Len(s) - 1)
      /\ \A i \in 1..(Len(s) - 1) : t[i] = s[i + 1]
  OBVIOUS
<1> HIDE DEF t
<1>2. \A i \in 2..Len(s) : i - 1 \in 1..(Len(s) - 1) /\ s[i] = t[i - 1]
  BY <1>1
<1>3. Decided(s) <=> (Decided(t) \/ Head(s) # "reject")
  <2>1. Decided(t) => Decided(s)
    <3>1. \A i \in 1..(Len(s) - 1) : i + 1 \in 1..Len(s)
      BY <1>1
    <3> QED
      BY <1>1, <3>1 DEF Decided
  <2>2. Head(s) # "reject" => Decided(s)
    BY <1>1 DEF Decided
  <2>3. Decided(s) => Decided(t) \/ Head(s) # "reject"
    BY <1>1, <1>2 DEF Decided
  <2> QED
    BY <2>1, <2>2, <2>3
<1>4. LastIsIn(t, kinds) => LastIsIn(s, kinds) /\ Decided(t)
  <2>1. SUFFICES ASSUME LastIsIn(t, kinds) PROVE LastIsIn(s, kinds) /\ Decided(t)
    OBVIOUS
  <2>2. PICK i \in 1..(Len(s) - 1) :
          t[i] \in kinds /\ \A j \in 1..(Len(s) - 1) : j > i => t[j] = "reject"
    BY <1>1, <2>1 DEF LastIsIn
  <2>3. i + 1 \in 1..Len(s) /\ s[i + 1] \in kinds
    BY <1>1, <2>2
  <2>4. ASSUME NEW j \in 1..Len(s), j > i + 1 PROVE s[j] = "reject"
    BY <1>1, <1>2, <2>2, <2>4
  <2> QED
    BY <1>1, <2>2, <2>3, <2>4 DEF LastIsIn, Decided
<1>5. ~Decided(t) /\ Head(s) \in kinds => LastIsIn(s, kinds)
  <2>1. SUFFICES ASSUME ~Decided(t), Head(s) \in kinds PROVE LastIsIn(s, kinds)
    OBVIOUS
  <2>2. 1 \in 1..Len(s) /\ s[1] \in kinds
    BY <1>1, <2>1
  <2>3. ASSUME NEW j \in 1..Len(s), j > 1 PROVE s[j] = "reject"
    <3>1. j \in 2..Len(s)
      BY <2>3
    <3> QED
      BY <1>1, <1>2, <2>1, <3>1 DEF Decided
  <2> QED
    BY <1>1, <2>2, <2>3 DEF LastIsIn
<1> QED
  BY <1>3, <1>4, <1>5 DEF t

(* The sets of SignalsTypeOK, by name.                                     *)
Messages == {"initiate", "accept", "reject", "end"}
Events   == {"incoming", "accepted", "rejected", "ended"}

HandlerType ==
  [pc : {"idle", "set", "added", "accepting", "left", "counted", "deleted"},
   user : Users \union {NoUser}, dead : BOOLEAN]

LEMMA SendTyped ==
  ASSUME SignalsTypeOK, NEW u \in Users, NEW m \in Messages, Send(u, m)
  PROVE  sends' \in [Users -> Seq(Messages)]
BY DEF SignalsTypeOK, Send, Messages

LEMMA ArrivesTyped ==
  ASSUME SignalsTypeOK, NEW u \in Users, NEW e \in Events, Arrives(u, e)
  PROVE  inbox' \in [Users -> Seq(Events)]
BY DEF SignalsTypeOK, Arrives, Events

LEMMA EmitTyped ==
  ASSUME SignalsTypeOK, NEW to, NEW e \in Events, Emit(to, e)
  PROVE  inbox' \in [Users -> Seq(Events)]
BY DEF SignalsTypeOK, Emit, Events

LEMMA ReceivesTyped ==
  ASSUME SignalsTypeOK, NEW h \in Handlers, NEW u \in Users, NEW m \in Messages,
         Receives(h, u, m)
  PROVE  sends' \in [Users -> Seq(Messages)]
BY DEF SignalsTypeOK, Receives, Messages

(* How the handlers are after each of their changes.                       *)
LEMMA HandlerTyped ==
  ASSUME handler \in [Handlers -> HandlerType], NEW h \in Handlers
  PROVE  /\ [handler EXCEPT ![h] = NoHandler] \in [Handlers -> HandlerType]
         /\ \A p \in {"added", "counted", "deleted"} :
              [handler EXCEPT ![h].pc = p] \in [Handlers -> HandlerType]
         /\ \A u \in Users, p \in {"set", "accepting", "left"} :
              Serve(h, u, p) => handler' \in [Handlers -> HandlerType]
<1>1. NoHandler \in HandlerType
  BY DEF NoHandler, HandlerType
<1>2. [handler EXCEPT ![h] = NoHandler] \in [Handlers -> HandlerType]
  BY <1>1
<1>3. ASSUME NEW p \in {"added", "counted", "deleted"}
      PROVE  [handler EXCEPT ![h].pc = p] \in [Handlers -> HandlerType]
  <2>1. [handler[h] EXCEPT !.pc = p] \in HandlerType
    BY <1>3 DEF HandlerType
  <2> QED
    BY <2>1
<1>4. ASSUME NEW u \in Users, NEW p \in {"set", "accepting", "left"}, Serve(h, u, p)
      PROVE  handler' \in [Handlers -> HandlerType]
  <2>1. [NoHandler EXCEPT !.pc = p, !.user = u] \in HandlerType
    BY <1>1, <1>4 DEF HandlerType
  <2> QED
    BY <1>4, <2>1 DEF Serve
<1> QED
  BY <1>2, <1>3, <1>4

LEMMA SignalsTypeStep ==
  ASSUME SignalsTypeOK, HandlersAreOfUsers, [SignalsNext]_callVars
  PROVE  SignalsTypeOK'
<1>1. /\ direct \in BOOLEAN /\ phase \in [Users -> {"idle", "incoming", "calling"}]
      /\ remote \subseteq {u \in Users : phase[u] = "calling"} /\ calls \in 0..MaxCalls
      /\ sends \in [Users -> Seq(Messages)] /\ inbox \in [Users -> Seq(Events)]
      /\ connected \subseteq Users /\ participants \subseteq Users
      /\ activeCalls \subseteq connected /\ handler \in [Handlers -> HandlerType]
      /\ faults \in 0..MaxFaults /\ apart \subseteq Users
      /\ MaxCalls \in Nat /\ MaxFaults \in Nat
  BY CallBounds DEF SignalsTypeOK, Messages, Events, HandlerType
<1>2. (/\ direct' \in BOOLEAN /\ phase' \in [Users -> {"idle", "incoming", "calling"}]
       /\ remote' \subseteq {u \in Users : phase'[u] = "calling"} /\ calls' \in 0..MaxCalls
       /\ sends' \in [Users -> Seq(Messages)] /\ inbox' \in [Users -> Seq(Events)]
       /\ connected' \subseteq Users /\ participants' \subseteq Users
       /\ activeCalls' \subseteq connected' /\ handler' \in [Handlers -> HandlerType]
       /\ faults' \in 0..MaxFaults /\ apart' \subseteq Users)
      => SignalsTypeOK'
  BY DEF SignalsTypeOK, Messages, Events, HandlerType
<1>3. \A h \in Handlers : /\ handler[h].pc # "idle" => handler[h].user \in Users
                          /\ handler[h].pc # "idle" /\ ~handler[h].dead
                               => handler[h].user \in connected
  BY DEF HandlersAreOfUsers
<1> USE DEF clientVars, serverVars
<1>4. ASSUME NEW u \in Users, StartCall(u) \/ AcceptCall(u)
      PROVE  SignalsTypeOK'
  <2>1. PICK m \in {"initiate", "accept"} : Begin(u, m)
    BY <1>4 DEF StartCall, AcceptCall
  <2>2. sends' \in [Users -> Seq(Messages)]
    BY <2>1, SendTyped DEF Begin, Messages
  <2>3. phase' \in [Users -> {"idle", "incoming", "calling"}]
        /\ remote' \subseteq {v \in Users : phase'[v] = "calling"}
    BY <1>1, <2>1 DEF Begin
  <2>4. calls' \in 0..MaxCalls
    BY <1>1, <2>1 DEF Begin
  <2> QED
    BY <1>1, <1>2, <2>1, <2>2, <2>3, <2>4 DEF Begin
<1>5. ASSUME NEW u \in Users, Reset(u)
      PROVE  /\ phase' \in [Users -> {"idle", "incoming", "calling"}]
             /\ remote' \subseteq {v \in Users : phase'[v] = "calling"}
  BY <1>1, <1>5 DEF Reset
<1>6. ASSUME NEW u \in Users, RejectCall(u) \/ HangUp(u)
      PROVE  SignalsTypeOK'
  <2>1. PICK m \in {"reject", "end"} : Send(u, m)
    BY <1>6 DEF RejectCall, HangUp, EndCall
  <2>2. sends' \in [Users -> Seq(Messages)]
    BY <2>1, SendTyped DEF Messages
  <2>3. Reset(u) /\ UNCHANGED <<direct, calls, inbox, serverVars, apart>>
    BY <1>6 DEF RejectCall, HangUp, EndCall
  <2> QED
    BY <1>1, <1>2, <1>5, <2>2, <2>3
<1>7. ASSUME NEW u \in Users, RemoteTrack(u) \/ PeerClosed(u)
      PROVE  SignalsTypeOK'
  <2>1. remote' \subseteq {v \in Users : phase[v] = "calling"}
        /\ UNCHANGED <<direct, phase, calls, sends, inbox, serverVars, apart>>
    BY <1>1, <1>7 DEF RemoteTrack, PeerClosed, InCall
  <2> QED
    BY <1>1, <1>2, <2>1
<1>8. ASSUME NEW u \in Users, OnIncoming(u) \/ OnAccepted(u)
      PROVE  SignalsTypeOK'
  <2>1. inbox' \in [Users -> Seq(Events)]
    BY <1>8, ArrivesTyped DEF OnIncoming, OnAccepted, Events
  <2>2. phase' \in [Users -> {"idle", "incoming", "calling"}]
        /\ \A v \in Users : phase[v] = "calling" => phase'[v] = "calling"
    BY <1>1, <1>8 DEF OnIncoming, OnAccepted
  <2>3. UNCHANGED <<direct, remote, calls, sends, serverVars, apart>>
    BY <1>8 DEF OnIncoming, OnAccepted
  <2> QED
    BY <1>1, <1>2, <2>1, <2>2, <2>3
<1>9. ASSUME NEW u \in Users, OnRejected(u)
      PROVE  SignalsTypeOK'
  <2>1. inbox' \in [Users -> Seq(Events)]
    BY <1>9, ArrivesTyped DEF OnRejected, Events
  <2>2. CASE InCall(u) /\ u \notin remote
    <3>1. EndCall(u) /\ UNCHANGED <<direct, calls, serverVars, apart>>
      BY <1>9, <2>2 DEF OnRejected, InCall
    <3>2. sends' \in [Users -> Seq(Messages)]
      BY <3>1, SendTyped DEF EndCall, Messages
    <3> QED
      BY <1>1, <1>2, <1>5, <2>1, <3>1, <3>2 DEF EndCall
  <2>3. CASE phase[u] = "incoming"
    <3>1. Reset(u) /\ UNCHANGED <<direct, calls, sends, serverVars, apart>>
      BY <1>9, <2>3 DEF OnRejected, InCall
    <3> QED
      BY <1>1, <1>2, <1>5, <2>1, <3>1
  <2>4. CASE ~(InCall(u) /\ u \notin remote) /\ phase[u] # "incoming"
    <3>1. UNCHANGED <<direct, phase, remote, calls, sends, serverVars, apart>>
      BY <1>9, <2>4 DEF OnRejected
    <3> QED
      BY <1>1, <1>2, <2>1, <3>1
  <2> QED
    BY <2>2, <2>3, <2>4
<1>10. ASSUME NEW u \in Users, OnEnded(u)
       PROVE  SignalsTypeOK'
  <2>1. inbox' \in [Users -> Seq(Events)]
    BY <1>10, ArrivesTyped DEF OnEnded, Events
  <2>2. apart' \subseteq Users /\ UNCHANGED <<direct, calls, sends, serverVars>>
        /\ (Reset(u) \/ UNCHANGED <<phase, remote>>)
    BY <1>1, <1>10 DEF OnEnded
  <2> QED
    BY <1>1, <1>2, <1>5, <2>1, <2>2
<1>11. ASSUME NEW h \in Handlers, NEW u \in Users, Initiate(h, u) \/ Accept(h, u)
       PROVE  SignalsTypeOK'
  <2>1. sends' \in [Users -> Seq(Messages)]
    BY <1>11, ReceivesTyped DEF Initiate, Accept, Messages
  <2>2. handler' \in [Handlers -> HandlerType]
    BY <1>1, <1>11, HandlerTyped DEF Initiate, Accept
  <2>3. participants' \subseteq Users
        /\ UNCHANGED <<direct, clientVars, inbox, connected, activeCalls, faults, apart>>
    BY <1>1, <1>11 DEF Initiate, Accept
  <2> QED
    BY <1>1, <1>2, <2>1, <2>2, <2>3
<1>12. ASSUME NEW h \in Handlers, NEW u \in Users, Reject(h, u)
       PROVE  SignalsTypeOK'
  <2>1. sends' \in [Users -> Seq(Messages)] /\ inbox' \in [Users -> Seq(Events)]
    BY <1>12, ReceivesTyped, EmitTyped DEF Reject, Messages, Events
  <2> QED
    BY <1>1, <1>2, <1>12, <2>1 DEF Reject
<1>13. ASSUME NEW h \in Handlers, NEW u \in Users, End(h, u)
       PROVE  SignalsTypeOK'
  <2>1. sends' \in [Users -> Seq(Messages)]
    BY <1>13, ReceivesTyped DEF End, Messages
  <2>2. handler' \in [Handlers -> HandlerType]
    BY <1>1, <1>13, HandlerTyped DEF End
  <2>3. /\ participants' \subseteq Users /\ activeCalls' \subseteq connected
        /\ apart' \subseteq Users
        /\ UNCHANGED <<direct, clientVars, inbox, connected, faults>>
    BY <1>1, <1>13 DEF End, Removed
  <2> QED
    BY <1>1, <1>2, <2>1, <2>2, <2>3
<1>14. ASSUME NEW h \in Handlers, InitiateAdd(h) \/ LeaveDelete(h)
       PROVE  SignalsTypeOK'
  <2>1. handler' \in [Handlers -> HandlerType]
    BY <1>1, <1>14, HandlerTyped DEF InitiateAdd, LeaveDelete
  <2>2. /\ participants' \subseteq Users /\ apart' \subseteq Users
        /\ UNCHANGED <<direct, clientVars, sends, inbox, connected, activeCalls, faults>>
    BY <1>1, <1>3, <1>14 DEF InitiateAdd, LeaveDelete
  <2> QED
    BY <1>1, <1>2, <2>1, <2>2
<1>15. ASSUME NEW h \in Handlers, InitiateRing(h) \/ AcceptAnswer(h) \/ LeaveEnded(h)
       PROVE  SignalsTypeOK'
  <2>1. inbox' \in [Users -> Seq(Events)]
    BY <1>15, EmitTyped DEF InitiateRing, AcceptAnswer, LeaveEnded, Events
  <2>2. handler' \in [Handlers -> HandlerType]
    BY <1>1, <1>15, HandlerTyped DEF InitiateRing, AcceptAnswer, LeaveEnded
  <2>3. /\ activeCalls' \subseteq connected
        /\ UNCHANGED <<direct, clientVars, sends, connected, participants, faults, apart>>
    BY <1>1, <1>3, <1>15 DEF InitiateRing, AcceptAnswer, LeaveEnded, Noted
  <2> QED
    BY <1>1, <1>2, <2>1, <2>2, <2>3
<1>16. ASSUME NEW h \in Handlers, LeaveCount(h)
       PROVE  SignalsTypeOK'
  <2>1. handler' \in [Handlers -> HandlerType]
    BY <1>1, <1>16, HandlerTyped DEF LeaveCount
  <2> QED
    BY <1>1, <1>2, <1>16, <2>1 DEF LeaveCount
<1>17. ASSUME NEW u \in Users, NEW h \in Handlers, Disconnect(u, h)
       PROVE  SignalsTypeOK'
  <2> DEFINE orphaned == [i \in Handlers |-> IF handler[i].user = u
                            THEN [handler[i] EXCEPT !.dead = (handler[i].pc # "idle")]
                            ELSE handler[i]]
             leaving  == [NoHandler EXCEPT !.pc = "left", !.user = u, !.dead = TRUE]
  <2>1. orphaned \in [Handlers -> HandlerType]
    <3>1. ASSUME NEW i \in Handlers, NEW b \in BOOLEAN
          PROVE  [handler[i] EXCEPT !.dead = b] \in HandlerType
      BY <1>1 DEF HandlerType
    <3>2. \A i \in Handlers : (handler[i].pc # "idle") \in BOOLEAN
      OBVIOUS
    <3> QED
      BY <1>1, <3>1, <3>2
  <2>2. leaving \in HandlerType
    BY DEF HandlerType, NoHandler
  <2>3. handler' = orphaned \/ handler' = [orphaned EXCEPT ![h] = leaving]
    BY <1>17 DEF Disconnect
  <2>4. handler' \in [Handlers -> HandlerType]
    BY <2>1, <2>2, <2>3
  <2>5. sends' \in [Users -> Seq(Messages)] /\ inbox' \in [Users -> Seq(Events)]
    BY <1>1, <1>17 DEF Disconnect
  <2>6. /\ connected' = connected \ {u} /\ activeCalls' = activeCalls \ {u}
        /\ participants' \subseteq Users /\ faults' \in 0..MaxFaults
        /\ apart' = apart \union {u} /\ UNCHANGED <<direct, clientVars>>
    BY <1>1, <1>17 DEF Disconnect, Removed
  <2> QED
    BY <1>1, <1>2, <2>4, <2>5, <2>6
<1>18. ASSUME NEW u \in Users, Reconnect(u)
       PROVE  SignalsTypeOK'
  BY <1>1, <1>2, <1>18 DEF Reconnect
<1>19. CASE ParticipantsExpire
  BY <1>1, <1>2, <1>19 DEF ParticipantsExpire
<1>20. CASE UNCHANGED callVars
  BY <1>1, <1>2, <1>20 DEF callVars
<1> QED
  BY <1>4, <1>6, <1>7, <1>8, <1>9, <1>10, <1>11, <1>12, <1>13, <1>14, <1>15, <1>16,
     <1>17, <1>18, <1>19, <1>20 DEF SignalsNext, ClientStep, ServerStep

LEMMA HandlersStep ==
  ASSUME SignalsTypeOK, HandlersAreOfUsers, [SignalsNext]_callVars
  PROVE  HandlersAreOfUsers'
<1>1. handler \in [Handlers -> HandlerType] /\ connected \subseteq Users
  BY DEF SignalsTypeOK, HandlerType
<1>2. \A h \in Handlers : handler[h].pc # "idle" =>
        handler[h].user \in Users /\ (handler[h].dead \/ handler[h].user \in connected)
  BY DEF HandlersAreOfUsers
<1> USE DEF clientVars, serverVars
(* The handler at work becomes idle, or goes on for the same user.         *)
<1>3. ASSUME NEW h \in Handlers, connected \subseteq connected', handler[h].pc # "idle",
             handler' = [handler EXCEPT ![h] = NoHandler]
               \/ \E p \in {"added", "counted", "deleted"} :
                    handler' = [handler EXCEPT ![h].pc = p]
      PROVE  HandlersAreOfUsers'
  BY <1>1, <1>2, <1>3 DEF HandlersAreOfUsers, NoHandler, HandlerType
<1>4. ASSUME NEW h \in Handlers, NEW u \in connected, UNCHANGED connected,
             NEW p \in {"set", "accepting", "left"}, Serve(h, u, p)
      PROVE  HandlersAreOfUsers'
  <2>1. /\ handler'[h].user = u /\ \A i \in Handlers : i # h => handler'[i] = handler[i]
    BY <1>1, <1>4 DEF Serve, NoHandler
  <2> QED
    BY <1>1, <1>2, <1>4, <2>1 DEF HandlersAreOfUsers
<1>5. ASSUME connected \subseteq connected', UNCHANGED handler
      PROVE  HandlersAreOfUsers'
  BY <1>2, <1>5 DEF HandlersAreOfUsers
<1>6. ASSUME NEW u \in Users, ClientStep(u) \/ Reconnect(u)
      PROVE  HandlersAreOfUsers'
  <2>1. CASE Reconnect(u)
    BY <1>5, <2>1 DEF Reconnect
  <2>2. CASE StartCall(u) \/ AcceptCall(u) \/ RejectCall(u) \/ HangUp(u)
    BY <1>5, <2>2 DEF StartCall, AcceptCall, RejectCall, HangUp, Begin
  <2>3. CASE RemoteTrack(u) \/ PeerClosed(u) \/ OnIncoming(u) \/ OnAccepted(u)
               \/ OnRejected(u) \/ OnEnded(u)
    BY <1>5, <2>3 DEF RemoteTrack, PeerClosed, OnIncoming, OnAccepted, OnRejected, OnEnded
  <2> QED
    BY <1>6, <2>1, <2>2, <2>3 DEF ClientStep
<1>7. ASSUME NEW h \in Handlers, ServerStep(h)
      PROVE  HandlersAreOfUsers'
  <2>1. ASSUME NEW u \in Users, Initiate(h, u) \/ Accept(h, u) \/ End(h, u)
        PROVE  HandlersAreOfUsers'
    BY <1>4, <2>1 DEF Initiate, Accept, End, Receives
  <2>2. ASSUME NEW u \in Users, Reject(h, u)
        PROVE  HandlersAreOfUsers'
    BY <1>5, <2>2 DEF Reject
  <2>3. CASE InitiateAdd(h) \/ InitiateRing(h) \/ AcceptAnswer(h)
    BY <1>3, <2>3 DEF InitiateAdd, InitiateRing, AcceptAnswer
  <2>4. CASE LeaveCount(h) \/ LeaveDelete(h) \/ LeaveEnded(h)
    BY <1>3, <2>4 DEF LeaveCount, LeaveDelete, LeaveEnded
  <2> QED
    BY <1>7, <2>1, <2>2, <2>3, <2>4 DEF ServerStep
<1>8. ASSUME NEW u \in Users, NEW h \in Handlers, Disconnect(u, h)
      PROVE  HandlersAreOfUsers'
  <2>1. connected' = connected \ {u}
    BY <1>8 DEF Disconnect
  <2>2. ASSUME NEW i \in Handlers, handler'[i].pc # "idle"
        PROVE  handler'[i].user \in Users /\ (handler'[i].dead \/ handler'[i].user \in connected')
    <3> DEFINE orphan == [handler[i] EXCEPT !.dead = (handler[i].pc # "idle")]
               leaving == [NoHandler EXCEPT !.pc = "left", !.user = u, !.dead = TRUE]
    <3>1. \/ handler'[i] = leaving
          \/ handler[i].user = u /\ handler'[i] = orphan
          \/ handler[i].user # u /\ handler'[i] = handler[i]
      BY <1>1, <1>8 DEF Disconnect
    <3>2. leaving.user = u /\ leaving.dead = TRUE
      BY DEF NoHandler
    <3>3. orphan.user = handler[i].user /\ orphan.pc = handler[i].pc
          /\ orphan.dead = (handler[i].pc # "idle")
      BY <1>1 DEF HandlerType
    <3>4. CASE handler'[i] = leaving
      BY <3>2, <3>4
    <3>5. CASE handler[i].user = u /\ handler'[i] = orphan
      BY <2>2, <3>3, <3>5
    <3>6. CASE handler[i].user # u /\ handler'[i] = handler[i]
      BY <1>2, <2>1, <2>2, <3>6
    <3> QED
      BY <3>1, <3>4, <3>5, <3>6
  <2> QED
    BY <2>2 DEF HandlersAreOfUsers
<1>9. CASE ParticipantsExpire \/ UNCHANGED callVars
  BY <1>5, <1>9 DEF ParticipantsExpire, callVars
<1> QED
  BY <1>6, <1>7, <1>8, <1>9 DEF SignalsNext

(* A user whose messages only lose or gain a call:reject, and whose place  *)
(* is the same, is still followed.                                         *)
LEMMA StillFollowed ==
  ASSUME SignalsTypeOK, NEW v \in Users, IsFollowed(v),
         \/ sends'[v] = sends[v]
         \/ sends'[v] = Append(sends[v], "reject")
         \/ sends[v] # <<>> /\ Head(sends[v]) = "reject" /\ sends'[v] = Tail(sends[v]),
         InCall(v)' <=> InCall(v), v \in connected => v \in connected',
         Adding(v)' <=> Adding(v), v \in participants' <=> v \in participants,
         EndedIsComing(v) => EndedIsComing(v)' \/ ~InCall(v)
  PROVE  IsFollowed(v)'
<1>1. sends[v] \in Seq(Messages)
  BY DEF SignalsTypeOK, Messages
<1>2. "reject" \in Messages /\ "reject" \notin Joining /\ "reject" \notin {"end"}
  BY DEF Messages, Joining
<1>3. /\ Decided(sends'[v]) <=> Decided(sends[v])
      /\ LastIsIn(sends'[v], Joining) => LastIsIn(sends[v], Joining)
      /\ LastIsIn(sends'[v], {"end"}) => LastIsIn(sends[v], {"end"})
  <2>1. CASE sends'[v] = Append(sends[v], "reject")
    BY <1>1, <1>2, <2>1, MessageAppended
  <2>2. CASE sends[v] # <<>> /\ Head(sends[v]) = "reject" /\ sends'[v] = Tail(sends[v])
    BY <1>1, <1>2, <2>2, MessageTaken
  <2> QED
    BY <2>1, <2>2
<1> QED
  BY <1>3 DEF IsFollowed

(* An event that is taken, or put, leaves an "ended" that waits.           *)
LEMMA EndedWaits ==
  ASSUME SignalsTypeOK, NEW v \in Users, EndedIsComing(v), v \in connected',
         \A h \in Handlers : handler[h].pc = "deleted" => handler'[h].pc = "deleted",
         \/ inbox'[v] = inbox[v]
         \/ \E e \in Events : inbox'[v] = Append(inbox[v], e)
         \/ inbox[v] # <<>> /\ Head(inbox[v]) # "ended" /\ inbox'[v] = Tail(inbox[v])
  PROVE  EndedIsComing(v)'
<1>1. inbox[v] \in Seq(Events)
  BY DEF SignalsTypeOK, Events
<1>2. CASE \E h \in Handlers : handler[h].pc = "deleted"
  BY <1>2 DEF EndedIsComing
<1>3. CASE \E i \in DOMAIN inbox[v] : inbox[v][i] = "ended"
  <2>1. PICK i \in 1..Len(inbox[v]) : inbox[v][i] = "ended"
    BY <1>1, <1>3
  <2>2. CASE inbox'[v] = inbox[v]
    BY <1>3, <2>2 DEF EndedIsComing
  <2>3. CASE \E e \in Events : inbox'[v] = Append(inbox[v], e)
    <3>1. i \in DOMAIN inbox'[v] /\ inbox'[v][i] = "ended"
      BY <1>1, <2>1, <2>3
    <3> QED
      BY <3>1 DEF EndedIsComing
  <2>4. CASE inbox[v] # <<>> /\ Head(inbox[v]) # "ended" /\ inbox'[v] = Tail(inbox[v])
    <3>1. i # 1
      BY <1>1, <2>1, <2>4
    <3>2. i - 1 \in DOMAIN inbox'[v] /\ inbox'[v][i - 1] = "ended"
      BY <1>1, <2>1, <2>4, <3>1
    <3> QED
      BY <3>2 DEF EndedIsComing
  <2> QED
    BY <2>2, <2>3, <2>4
<1> QED
  BY <1>2, <1>3 DEF EndedIsComing

(* The messages of one user after its own step, or the server's.           *)
LEMMA WordGiven ==
  ASSUME SignalsTypeOK, NEW u \in Users, NEW m \in {"initiate", "accept", "end"},
         Send(u, m), InCall(u)' <=> m \in Joining
  PROVE  IsFollowed(u)'
<1>1. sends[u] \in Seq(Messages) /\ m \in Messages /\ "reject" \notin Joining
      /\ sends'[u] = Append(sends[u], m)
  BY DEF SignalsTypeOK, Messages, Joining, Send
<1>2. /\ Decided(sends'[u])
      /\ LastIsIn(sends'[u], Joining) <=> m \in Joining
      /\ LastIsIn(sends'[u], {"end"}) <=> m = "end"
  BY <1>1, MessageAppended
<1> QED
  BY <1>2 DEF IsFollowed, Joining

(* A message of a user is taken, and the server does what it says.         *)
LEMMA WordTaken ==
  ASSUME SignalsTypeOK, NEW u \in Users, IsFollowed(u), NEW h \in Handlers,
         NEW m \in {"initiate", "accept", "end"}, Receives(h, u, m),
         InCall(u)' <=> InCall(u), u \in connected',
         m \in Joining => Adding(u)' \/ u \in participants',
         m = "end" => ~Adding(u)' /\ u \notin participants'
  PROVE  IsFollowed(u)'
<1>1. /\ sends[u] \in Seq(Messages) /\ sends[u] # <<>> /\ Head(sends[u]) = m
      /\ sends'[u] = Tail(sends[u]) /\ "reject" \notin Joining /\ "reject" \notin {"end"}
      /\ m = "end" \/ m \in Joining
  BY DEF SignalsTypeOK, Messages, Joining, Receives
<1>2. /\ LastIsIn(sends'[u], Joining) => LastIsIn(sends[u], Joining)
      /\ LastIsIn(sends'[u], {"end"}) => LastIsIn(sends[u], {"end"})
      /\ ~Decided(sends'[u]) /\ m \in Joining => LastIsIn(sends[u], Joining)
      /\ ~Decided(sends'[u]) /\ m = "end" => LastIsIn(sends[u], {"end"})
  BY <1>1, MessageTaken
<1> QED
  BY <1>1, <1>2 DEF IsFollowed

LEMMA LastWordStep ==
  ASSUME SignalsInv, [SignalsNext]_callVars
  PROVE  LastWordCounts'
<1>1. SignalsTypeOK /\ HandlersAreOfUsers /\ \A v \in Users \ apart : IsFollowed(v)
  BY DEF SignalsInv, LastWordCounts
<1>2. /\ phase \in [Users -> {"idle", "incoming", "calling"}]
      /\ sends \in [Users -> Seq(Messages)] /\ inbox \in [Users -> Seq(Events)]
      /\ handler \in [Handlers -> HandlerType]
  BY <1>1 DEF SignalsTypeOK, Messages, Events, HandlerType
<1>3. \A h \in Handlers : handler[h].pc # "idle" => handler[h].user \in Users
  BY <1>1 DEF HandlersAreOfUsers
<1>4. SUFFICES ASSUME NEW v \in Users, v \notin apart' PROVE IsFollowed(v)'
  BY DEF LastWordCounts
<1> USE DEF clientVars, serverVars
(* What a handler does to the users it is not adding.                      *)
<1>5. ASSUME NEW h \in Handlers, handler[h].pc # "deleted",
             \A i \in Handlers : i # h => handler'[i] = handler[i]
      PROVE  \A i \in Handlers : handler[i].pc = "deleted" => handler'[i].pc = "deleted"
  BY <1>5
<1>6. ASSUME NEW h \in Handlers, handler[h].pc # "set" \/ handler[h].user # v,
             handler'[h].pc # "set" \/ handler'[h].user # v,
             \A i \in Handlers : i # h => handler'[i] = handler[i]
      PROVE  Adding(v)' <=> Adding(v)
  BY <1>6 DEF Adding
<1>7. ASSUME NEW u \in Users, StartCall(u) \/ AcceptCall(u)
      PROVE  IsFollowed(v)'
  <2>1. PICK m \in Joining : Begin(u, m)
    BY <1>7 DEF StartCall, AcceptCall, Joining
  <2>2. UNCHANGED <<inbox, handler, connected, participants>> /\ Send(u, m)
        /\ phase'[u] = "calling" /\ apart' = apart \ {u}
        /\ \A w \in Users : w # u => phase'[w] = phase[w] /\ sends'[w] = sends[w]
    BY <1>2, <2>1 DEF Begin, Send
  <2>3. CASE v = u
    BY <1>1, <2>2, <2>3, WordGiven DEF InCall, Joining
  <2>4. CASE v # u
    <3>1. IsFollowed(v)
      BY <1>1, <1>4, <2>2, <2>4
    <3> QED
      BY <1>1, <2>2, <2>4, <3>1, StillFollowed DEF InCall, Adding, EndedIsComing
  <2> QED
    BY <2>3, <2>4
(* Steps of a client that leave apart alone.                               *)
<1>8. ASSUME NEW u \in Users, EndCall(u),
             UNCHANGED <<handler, connected, participants, apart>>,
             inbox' = inbox \/ \E e \in Events \ {"ended"} : Arrives(u, e)
      PROVE  IsFollowed(v)'
  <2>1. Send(u, "end") /\ phase'[u] = "idle" /\ IsFollowed(v)
        /\ \A w \in Users : w # u => phase'[w] = phase[w] /\ sends'[w] = sends[w]
    BY <1>1, <1>2, <1>4, <1>8 DEF EndCall, Reset, Send
  <2>2. CASE v = u
    BY <1>1, <2>1, <2>2, WordGiven DEF InCall, Joining
  <2>3. CASE v # u
    <3>1. inbox'[v] = inbox[v]
      BY <1>2, <1>8, <2>3 DEF Arrives
    <3> QED
      BY <1>1, <1>8, <2>1, <2>3, <3>1, StillFollowed DEF InCall, Adding, EndedIsComing
  <2> QED
    BY <2>2, <2>3
<1>9. ASSUME NEW u \in Users, UNCHANGED <<handler, connected, participants, apart>>,
             sends' = sends \/ Send(u, "reject"),
             inbox' = inbox \/ \E e \in Events \ {"ended"} : Arrives(u, e),
             \A w \in Users : InCall(w)' <=> InCall(w)
      PROVE  IsFollowed(v)'
  <2>1. sends'[v] = sends[v] \/ sends'[v] = Append(sends[v], "reject")
    BY <1>2, <1>9 DEF Send
  <2>2. inbox'[v] = inbox[v]
        \/ (inbox[v] # <<>> /\ Head(inbox[v]) # "ended" /\ inbox'[v] = Tail(inbox[v]))
    <3>1. CASE \E e \in Events \ {"ended"} : Arrives(u, e)
      <4>1. CASE v = u
        BY <1>2, <3>1, <4>1 DEF Arrives
      <4>2. CASE v # u
        <5>1. inbox' = [inbox EXCEPT ![u] = Tail(@)]
          BY <3>1 DEF Arrives
        <5>2. inbox'[v] = inbox[v]
          BY <1>2, <4>2, <5>1
        <5> QED
          BY <5>2
      <4> QED
        BY <4>1, <4>2
    <3>2. CASE inbox' = inbox
      BY <3>2
    <3> QED
      BY <1>9, <3>1, <3>2
  <2>3. EndedIsComing(v) => EndedIsComing(v)'
    <3>1. EndedIsComing(v) => v \in connected'
      BY <1>9 DEF EndedIsComing
    <3> QED
      BY <1>1, <1>9, <2>2, <3>1, EndedWaits
  <2>4. IsFollowed(v) /\ (InCall(v)' <=> InCall(v)) /\ (Adding(v)' <=> Adding(v))
    BY <1>1, <1>4, <1>9 DEF Adding
  <2> QED
    BY <1>1, <1>9, <2>1, <2>3, <2>4, StillFollowed
<1>10. ASSUME NEW u \in Users, RejectCall(u) \/ HangUp(u)
       PROVE  IsFollowed(v)'
  <2>1. CASE RejectCall(u)
    <3>1. \A w \in Users : InCall(w)' <=> InCall(w)
      BY <1>2, <2>1 DEF RejectCall, Reset, InCall
    <3> QED
      BY <1>9, <2>1, <3>1 DEF RejectCall
  <2>2. CASE HangUp(u)
    BY <1>8, <2>2 DEF HangUp
  <2> QED
    BY <1>10, <2>1, <2>2
<1>11. ASSUME NEW u \in Users, RemoteTrack(u) \/ PeerClosed(u)
       PROVE  IsFollowed(v)'
  BY <1>9, <1>11 DEF RemoteTrack, PeerClosed, InCall
<1>12. ASSUME NEW u \in Users, OnIncoming(u) \/ OnAccepted(u)
       PROVE  IsFollowed(v)'
  <2>1. \A w \in Users : InCall(w)' <=> InCall(w)
    BY <1>2, <1>12 DEF OnIncoming, OnAccepted, InCall
  <2>2. \E e \in Events \ {"ended"} : Arrives(u, e)
    BY <1>12 DEF OnIncoming, OnAccepted, Events
  <2> QED
    BY <1>9, <1>12, <2>1, <2>2 DEF OnIncoming, OnAccepted
<1>13. ASSUME NEW u \in Users, OnRejected(u)
       PROVE  IsFollowed(v)'
  <2>1. (\E e \in Events \ {"ended"} : Arrives(u, e))
        /\ UNCHANGED <<handler, connected, participants, apart>>
    BY <1>13 DEF OnRejected, Events
  <2>2. CASE InCall(u) /\ u \notin remote
    BY <1>8, <1>13, <2>1, <2>2 DEF OnRejected, InCall
  <2>3. CASE phase[u] = "incoming"
    <3>1. Reset(u) /\ UNCHANGED sends
      BY <1>13, <2>3 DEF OnRejected, InCall
    <3>2. \A w \in Users : InCall(w)' <=> InCall(w)
      BY <1>2, <2>3, <3>1 DEF Reset, InCall
    <3> QED
      BY <1>9, <2>1, <3>1, <3>2
  <2>4. CASE ~(InCall(u) /\ u \notin remote) /\ phase[u] # "incoming"
    <3>1. UNCHANGED <<phase, sends>>
      BY <1>13, <2>4 DEF OnRejected
    <3> QED
      BY <1>9, <2>1, <3>1 DEF InCall
  <2> QED
    BY <2>2, <2>3, <2>4
<1>14. ASSUME NEW u \in Users, OnEnded(u)
       PROVE  IsFollowed(v)'
  <2>1. UNCHANGED <<sends, handler, connected, participants>> /\ apart \subseteq apart'
        /\ \A w \in Users : w # u => inbox'[w] = inbox[w] /\ (InCall(w)' <=> InCall(w))
    BY <1>2, <1>14 DEF OnEnded, Arrives, Reset, InCall
  <2>2. IsFollowed(v)
    BY <1>1, <1>4, <2>1
  <2>3. CASE v # u
    BY <1>1, <2>1, <2>2, <2>3, StillFollowed DEF Adding, EndedIsComing
  <2>4. CASE v = u /\ InCall(u)
    <3>1. phase'[u] = "idle" /\ sends[u] = <<>> /\ ~Handling(u) /\ u \notin participants
      BY <1>2, <1>4, <1>14, <2>4 DEF OnEnded, Reset
    <3>2. ~InCall(u)' /\ ~Adding(u)'
      BY <2>1, <3>1 DEF InCall, Adding, Handling
    <3>3. ~Decided(sends[u]) /\ ~LastIsIn(sends[u], Joining) /\ ~LastIsIn(sends[u], {"end"})
      BY <3>1 DEF Decided, LastIsIn
    <3> QED
      BY <2>1, <2>2, <2>4, <3>1, <3>2, <3>3 DEF IsFollowed
  <2>5. CASE v = u /\ ~InCall(u)
    <3>1. ~InCall(u)'
      BY <1>14, <2>5 DEF OnEnded, InCall
    <3> QED
      BY <1>1, <2>1, <2>2, <2>5, <3>1, StillFollowed DEF Adding
  <2> QED
    BY <2>3, <2>4, <2>5
(* The server's steps: no client's place changes.                          *)
<1>15. ASSUME NEW h \in Handlers, NEW u \in Users, NEW m \in {"initiate", "accept", "end"},
              NEW p \in {"set", "accepting", "left"}, Receives(h, u, m), Serve(h, u, p),
              v # u, UNCHANGED <<phase, inbox, connected>>, apart \subseteq apart',
              v \in participants' <=> v \in participants
       PROVE  IsFollowed(v)'
  <2>1. /\ handler[h].pc = "idle" /\ handler'[h].user = u
        /\ \A i \in Handlers : i # h => handler'[i] = handler[i]
        /\ sends'[v] = sends[v] /\ IsFollowed(v)
    BY <1>1, <1>2, <1>4, <1>15 DEF Receives, Serve, NoHandler
  <2>2. Adding(v)' <=> Adding(v)
    BY <1>6, <1>15, <2>1
  <2>3. EndedIsComing(v) => EndedIsComing(v)'
    BY <1>5, <1>15, <2>1 DEF EndedIsComing
  <2> QED
    BY <1>1, <1>15, <2>1, <2>2, <2>3, StillFollowed DEF InCall
<1>16. ASSUME NEW h \in Handlers, NEW u \in Users, Initiate(h, u)
       PROVE  IsFollowed(v)'
  <2>1. Receives(h, u, "initiate") /\ Serve(h, u, "set")
        /\ UNCHANGED <<phase, inbox, connected, participants, apart>>
    BY <1>16 DEF Initiate
  <2>2. CASE v = u
    <3>1. handler'[h].pc = "set" /\ handler'[h].user = u /\ u \in connected'
      BY <1>2, <2>1 DEF Serve, NoHandler, Receives
    <3>2. Adding(u)' /\ IsFollowed(u)
      BY <1>1, <1>4, <2>1, <2>2, <3>1 DEF Adding
    <3> QED
      BY <1>1, <2>1, <2>2, <3>1, <3>2, WordTaken DEF InCall
  <2> QED
    BY <1>15, <2>1, <2>2
<1>17. ASSUME NEW h \in Handlers, NEW u \in Users, Accept(h, u)
       PROVE  IsFollowed(v)'
  <2>1. Receives(h, u, "accept") /\ Serve(h, u, "accepting")
        /\ participants' = participants \union {u}
        /\ UNCHANGED <<phase, inbox, connected, apart>>
    BY <1>17 DEF Accept
  <2>2. CASE v = u
    <3>1. u \in connected' /\ IsFollowed(u)
      BY <1>1, <1>4, <2>1, <2>2 DEF Receives
    <3> QED
      BY <1>1, <2>1, <2>2, <3>1, WordTaken DEF InCall
  <2> QED
    BY <1>15, <2>1, <2>2
<1>18. ASSUME NEW h \in Handlers, NEW u \in Users, End(h, u)
       PROVE  IsFollowed(v)'
  <2>1. Receives(h, u, "end") /\ Serve(h, u, "left")
        /\ participants' = participants \ {u} /\ apart \subseteq apart'
        /\ UNCHANGED <<phase, inbox, connected>>
        /\ (Adding(u) => u \in apart')
    BY <1>18 DEF End, Removed, Adding
  <2>2. CASE v = u
    <3>1. /\ handler'[h].pc = "left" /\ u \in connected'
          /\ \A i \in Handlers : i # h => handler'[i] = handler[i]
      BY <1>2, <2>1 DEF Serve, NoHandler, Receives
    <3>2. ~Adding(u)' /\ IsFollowed(u)
      BY <1>1, <1>4, <2>1, <2>2, <3>1 DEF Adding
    <3> QED
      BY <1>1, <2>1, <2>2, <3>1, <3>2, WordTaken DEF InCall, Joining
  <2> QED
    BY <1>15, <2>1, <2>2
<1>19. ASSUME NEW h \in Handlers, NEW u \in Users, Reject(h, u)
       PROVE  IsFollowed(v)'
  <2>1. UNCHANGED <<phase, handler, connected, participants, apart>>
    BY <1>19 DEF Reject
  <2>2. sends'[v] = sends[v]
        \/ (sends[v] # <<>> /\ Head(sends[v]) = "reject" /\ sends'[v] = Tail(sends[v]))
    <3>1. CASE v = u
      BY <1>2, <1>19, <3>1 DEF Reject, Receives
    <3>2. CASE v # u
      <4>1. sends' = [sends EXCEPT ![u] = Tail(@)]
        BY <1>19 DEF Reject, Receives
      <4>2. sends'[v] = sends[v]
        BY <1>2, <3>2, <4>1
      <4> QED
        BY <4>2
    <3> QED
      BY <3>1, <3>2
  <2>3. inbox'[v] = inbox[v] \/ \E e \in Events : inbox'[v] = Append(inbox[v], e)
    BY <1>19 DEF Reject, Emit, Events
  <2>4. EndedIsComing(v) => EndedIsComing(v)'
    <3>1. EndedIsComing(v) => v \in connected'
      BY <2>1 DEF EndedIsComing
    <3> QED
      BY <1>1, <2>1, <2>3, <3>1, EndedWaits
  <2> QED
    BY <1>1, <1>4, <2>1, <2>2, <2>4, StillFollowed DEF InCall, Adding
<1>20. ASSUME NEW h \in Handlers, InitiateAdd(h)
       PROVE  IsFollowed(v)'
  <2>1. /\ handler[h].pc = "set" /\ handler'[h].pc = "added"
        /\ \A i \in Handlers : i # h => handler'[i] = handler[i]
        /\ participants' = participants \union {handler[h].user}
        /\ UNCHANGED <<phase, sends, inbox, connected, apart>>
    BY <1>2, <1>20 DEF InitiateAdd, HandlerType
  <2>2. IsFollowed(v)
    BY <1>1, <1>4, <2>1
  <2>3. CASE handler[h].user = v
    <3>1. Adding(v) /\ v \in participants'
      BY <2>1, <2>3 DEF Adding
    <3> QED
      BY <2>1, <2>2, <3>1 DEF IsFollowed, InCall
  <2>4. CASE handler[h].user # v
    <3>1. (Adding(v)' <=> Adding(v)) /\ (EndedIsComing(v) => EndedIsComing(v)')
      BY <1>5, <1>6, <2>1, <2>4 DEF EndedIsComing
    <3> QED
      BY <1>1, <2>1, <2>2, <2>4, <3>1, StillFollowed DEF InCall
  <2> QED
    BY <2>3, <2>4
<1>21. ASSUME NEW h \in Handlers, InitiateRing(h) \/ AcceptAnswer(h) \/ LeaveCount(h)
       PROVE  IsFollowed(v)'
  <2>1. /\ handler[h].pc \notin {"set", "deleted"} /\ handler'[h].pc # "set"
        /\ \A i \in Handlers : i # h => handler'[i] = handler[i]
        /\ UNCHANGED <<phase, sends, connected, participants, apart>>
    BY <1>2, <1>21 DEF InitiateRing, AcceptAnswer, LeaveCount, HandlerType, NoHandler
  <2>2. inbox'[v] = inbox[v] \/ \E e \in Events : inbox'[v] = Append(inbox[v], e)
    BY <1>21 DEF InitiateRing, AcceptAnswer, LeaveCount, Emit, Events
  <2>3. EndedIsComing(v) => EndedIsComing(v)'
    <3>1. EndedIsComing(v) => v \in connected'
      BY <2>1 DEF EndedIsComing
    <3> QED
      BY <1>1, <1>5, <2>1, <2>2, <3>1, EndedWaits
  <2>4. Adding(v)' <=> Adding(v)
    BY <1>6, <2>1
  <2> QED
    BY <1>1, <1>4, <2>1, <2>3, <2>4, StillFollowed DEF InCall
<1>22. ASSUME NEW h \in Handlers, LeaveDelete(h)
       PROVE  IsFollowed(v)'
  <2>1. /\ handler[h].pc = "counted" /\ handler'[h].pc = "deleted" /\ participants' = {}
        /\ \A i \in Handlers : i # h => handler'[i] = handler[i]
        /\ UNCHANGED <<phase, sends, inbox, connected>>
        /\ apart \subseteq apart'
    BY <1>2, <1>22 DEF LeaveDelete, HandlerType
  <2>2. IsFollowed(v) /\ (Adding(v)' <=> Adding(v))
    BY <1>1, <1>4, <1>6, <2>1
  <2>3. v \in connected => EndedIsComing(v)'
    BY <2>1 DEF EndedIsComing
  <2> QED
    BY <2>1, <2>2, <2>3 DEF IsFollowed, InCall
<1>23. ASSUME NEW h \in Handlers, LeaveEnded(h)
       PROVE  IsFollowed(v)'
  <2>1. /\ handler[h].pc = "deleted" /\ handler'[h].pc = "idle"
        /\ \A i \in Handlers : i # h => handler'[i] = handler[i]
        /\ UNCHANGED <<phase, sends, connected, participants, apart>>
        /\ v \in connected => inbox'[v] = Append(inbox[v], "ended")
    BY <1>2, <1>23 DEF LeaveEnded, Emit, NoHandler
  <2>2. IsFollowed(v) /\ (Adding(v)' <=> Adding(v))
    BY <1>1, <1>4, <1>6, <2>1
  <2>3. v \in connected => EndedIsComing(v)'
    <3>1. v \in connected => /\ Len(inbox[v]) + 1 \in DOMAIN inbox'[v]
                             /\ inbox'[v][Len(inbox[v]) + 1] = "ended"
      BY <1>2, <2>1
    <3> QED
      BY <2>1, <3>1 DEF EndedIsComing
  <2> QED
    BY <1>1, <2>1, <2>2, <2>3, StillFollowed DEF InCall, EndedIsComing
<1>24. ASSUME NEW u \in Users, NEW h \in Handlers, Disconnect(u, h)
       PROVE  IsFollowed(v)'
  <2>1. /\ connected' = connected \ {u} /\ apart' = apart \union {u} /\ UNCHANGED phase
        /\ \A w \in Users : w # u => /\ sends'[w] = sends[w] /\ inbox'[w] = inbox[w]
                                     /\ w \in participants' <=> w \in participants
    BY <1>2, <1>24 DEF Disconnect, Removed
  <2>2. v # u /\ IsFollowed(v)
    BY <1>1, <1>4, <2>1
  <2>3. ASSUME NEW i \in Handlers
        PROVE  /\ handler[i].pc = "deleted" => handler'[i].pc = "deleted"
               /\ handler'[i].pc = "set" /\ handler'[i].user = v
                    <=> handler[i].pc = "set" /\ handler[i].user = v
    <3> DEFINE orphan == [handler[i] EXCEPT !.dead = (handler[i].pc # "idle")]
               leaving == [NoHandler EXCEPT !.pc = "left", !.user = u, !.dead = TRUE]
    <3>1. \/ handler[i].pc = "idle" /\ handler'[i] = leaving
          \/ handler[i].user = u /\ handler'[i] = orphan
          \/ handler[i].user # u /\ handler'[i] = handler[i]
      BY <1>2, <1>24 DEF Disconnect
    <3>2. leaving.user = u /\ leaving.pc = "left"
      BY DEF NoHandler
    <3>3. orphan.user = handler[i].user /\ orphan.pc = handler[i].pc
      BY <1>2 DEF HandlerType
    <3> QED
      BY <2>2, <3>1, <3>2, <3>3
  <2>4. (Adding(v)' <=> Adding(v)) /\ (EndedIsComing(v) => EndedIsComing(v)')
    <3>1. Adding(v)' <=> Adding(v)
      BY <2>3 DEF Adding
    <3>2. EndedIsComing(v) => EndedIsComing(v)'
      BY <2>1, <2>2, <2>3 DEF EndedIsComing
    <3> QED
      BY <3>1, <3>2
  <2> QED
    BY <1>1, <2>1, <2>2, <2>4, StillFollowed DEF InCall
<1>25. ASSUME NEW u \in Users, Reconnect(u)
       PROVE  IsFollowed(v)'
  BY <1>1, <1>4, <1>25, StillFollowed DEF Reconnect, InCall, Adding, EndedIsComing
<1>26. CASE ParticipantsExpire
  BY <1>4, <1>26 DEF ParticipantsExpire
<1>27. CASE UNCHANGED callVars
  BY <1>1, <1>4, <1>27, StillFollowed DEF callVars, InCall, Adding, EndedIsComing
<1> QED
  BY <1>7, <1>10, <1>11, <1>12, <1>13, <1>14, <1>16, <1>17, <1>18, <1>19, <1>20, <1>21,
     <1>22, <1>23, <1>24, <1>25, <1>26, <1>27 DEF SignalsNext, ClientStep, ServerStep

(* For any users, handlers and number of messages: with nothing under way, *)
(* the server's set of participants is the set of clients in the call.     *)
THEOREM ParticipantsFollow == SignalsSpec => []SignalsInv /\ []ParticipantsAreInCall
<1>1. SignalsInit => SignalsInv
  <2> SUFFICES ASSUME SignalsInit PROVE SignalsInv
    OBVIOUS
  <2>1. SignalsTypeOK
    BY CallBounds DEF SignalsInit, SignalsTypeOK, NoHandler
  <2>2. HandlersAreOfUsers
    BY DEF SignalsInit, HandlersAreOfUsers, NoHandler
  <2>3. LastWordCounts
    <3> SUFFICES ASSUME NEW u \in Users PROVE IsFollowed(u)
      BY DEF LastWordCounts
    <3>1. sends[u] = <<>> /\ u \in connected /\ ~InCall(u) /\ u \notin participants
          /\ ~Adding(u)
      BY DEF SignalsInit, InCall, Adding, NoHandler
    <3> QED
      BY <3>1 DEF IsFollowed, Decided, LastIsIn
  <2> QED
    BY <2>1, <2>2, <2>3 DEF SignalsInv
<1>2. SignalsInv /\ [SignalsNext]_callVars => SignalsInv'
  BY SignalsTypeStep, HandlersStep, LastWordStep DEF SignalsInv
<1>3. SignalsInv => ParticipantsAreInCall
  <2> SUFFICES ASSUME SignalsInv, NEW u \in Users \ apart, Settled(u)
               PROVE  u \in participants <=> InCall(u)
    BY DEF ParticipantsAreInCall
  <2>1. IsFollowed(u)
    BY DEF SignalsInv, LastWordCounts
  <2>2. sends[u] = <<>> /\ inbox[u] = <<>> /\ \A h \in Handlers : handler[h].pc = "idle"
    BY DEF Settled
  <2>3. ~Decided(sends[u]) /\ ~Adding(u) /\ ~EndedIsComing(u)
    BY <2>2 DEF Decided, Adding, EndedIsComing
  <2> QED
    BY <2>1, <2>3 DEF IsFollowed
<1> QED
  BY <1>1, <1>2, <1>3, PTL DEF SignalsSpec

(***************************************************************************)
(* The combined specification of the run.                                  *)
(***************************************************************************)

(* One part moves and the others stand still: a behaviour of the combined  *)
(* specification is one of each component, so that what was proved of the  *)
(* components holds of it too.                                             *)
THEOREM CallPartsBehave ==
  Spec => SignalsSpec /\ SessionSpec /\ SfuSpec /\ PresenceSpec /\ PushSpec
<1>1. Init => SignalsInit /\ SessionInit /\ SfuInit /\ PresenceInit /\ PushInit
  BY DEF Init
<1>2. [Next]_<<part, callVars, sessionVars, sfuVars, presenceVars, pushVars>>
        => /\ [SignalsNext]_callVars /\ [SessionNext]_sessionVars /\ [SfuNext]_sfuVars
           /\ [PresenceNext]_presenceVars /\ [PushNext]_pushVars
  BY DEF Next
<1> QED
  BY <1>1, <1>2, PTL DEF Spec, SignalsSpec, SessionSpec, SfuSpec, PresenceSpec, PushSpec

(* What moves has the types its component declares, for any users, calls,  *)
(* handlers and sockets, and whatever the bounds.                          *)
THEOREM CallsTyped == Spec => []CallsTypeOK
<1>1. Spec => [](part \in CallParts)
  <2>1. Init => part \in CallParts
    BY DEF Init
  <2>2. /\ part \in CallParts
        /\ [Next]_<<part, callVars, sessionVars, sfuVars, presenceVars, pushVars>>
        => (part \in CallParts)'
    BY DEF Next
  <2> QED
    BY <2>1, <2>2, PTL DEF Spec
<1>2. /\ part \in CallParts
      /\ SignalsInv /\ SessionInv /\ SfuInv /\ PresenceInv /\ PushInv
      => CallsTypeOK
  BY DEF CallParts, CallsTypeOK, SignalsInv, SessionInv, SfuInv, PresenceInv, PushInv
<1> QED
  BY <1>1, <1>2, CallPartsBehave, ParticipantsFollow, CaptureIsShown, TracksArePlayed,
     PresenceFollows, PushFollows, PTL
=============================================================================

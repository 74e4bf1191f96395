-------------------------------- MODULE Presence --------------------------------
(***************************************************************************)
(* Whether a user is shown as online: the sockets of one user, the status  *)
(* in the database that their handlers write, and the status another       *)
(* client shows.                                                           *)
(*                                                                         *)
(* The handlers of connection, heartbeat and disconnect wait for the       *)
(* database and then broadcast; writes of different handlers commit in     *)
(* any order.  A client's heartbeats are sent at any time (the throttle    *)
(* only makes them rarer); one sent before the socket's handlers are       *)
(* registered is lost and not modelled.  Sources: server/src/index.ts,     *)
(* server/src/socket/index.ts, server/src/socket/handlers/                 *)
(* presence.handler.ts, client/src/lib/socket.ts and client/src/           *)
(* components/chat/ChatList.tsx.                                           *)
(*                                                                         *)
(* "Bug:" marks a definition that is not part of the specification: the    *)
(* next one with a plausible mistake, for checking the properties.         *)
(***************************************************************************)
CONSTANT UserSockets  \* the sockets the user can have at once

VARIABLES
  server,     \* the server process
  inRoom,     \* sockets in the room of the user
  registered, \* sockets with their handlers
  work,       \* the handlers of each socket that are under way
  online,     \* User.status is ONLINE
  watching,   \* the other client's socket is connected
  shownOnline,\* its peerStatus of the user
  list,       \* its GET /conversations
  crossed,    \* writes of online overlapped (for the properties)
  stale       \* a broadcast was missed or overlapped (for the properties)

statusVars   == <<online, crossed>>
watchVars    == <<watching, shownOnline, list>>
presenceVars == <<server, inRoom, registered, work, statusVars, watchVars, stale>>

Kinds == {"connection", "heartbeat", "disconnect"}
ListCall == [pc : {"idle", "asked", "read"}, online : BOOLEAN]
NoWork == [s \in UserSockets |-> [k \in Kinds |-> "idle"]]
NoList == [pc |-> "idle", online |-> FALSE]

PresenceTypeOK ==
  /\ server \in {"stopped", "resetting", "listening"}
  /\ inRoom \subseteq UserSockets /\ registered \subseteq inRoom
  /\ work \in [UserSockets -> [Kinds -> {"idle", "write", "tell", "rooms"}]]
  /\ online \in BOOLEAN /\ crossed \in BOOLEAN
  /\ watching \in BOOLEAN /\ shownOnline \in BOOLEAN /\ list \in ListCall
  /\ stale \in BOOLEAN

PresenceInit ==
  /\ server = "listening"
  /\ inRoom = {} /\ registered = {} /\ work = NoWork
  /\ online = FALSE /\ crossed = FALSE
  /\ watching = TRUE /\ shownOnline = FALSE /\ list = NoList /\ stale = FALSE

Working == \E s \in UserSockets, k \in Kinds : work[s][k] # "idle"

(* A handler that starts while no other is under way settles the status,   *)
(* and what is shown of it.                                                *)
Start(s, k) ==
  /\ work' = [work EXCEPT ![s][k] = "write"]
  /\ crossed' = Working
  /\ stale' = (Working \/ list # NoList)

(***************************************************************************)
(* The server process.                                                     *)
(***************************************************************************)

ServerStops ==
  /\ server' = "stopped"
  /\ inRoom' = {} /\ registered' = {} /\ work' = NoWork
  /\ watching' = FALSE /\ list' = NoList
  /\ UNCHANGED <<statusVars, shownOnline, stale>>

ServerStarts ==
  /\ server = "stopped" /\ server' = "resetting"
  /\ UNCHANGED <<inRoom, registered, work, statusVars, watchVars, stale>>

(* start: every ONLINE is reset before the server listens; the reset may   *)
(* fail.                                                                   *)
ResetStatus ==
  /\ server = "resetting" /\ server' = "listening"
  /\ \/ online' = FALSE /\ crossed' = FALSE
     \/ online' = online /\ crossed' = TRUE
  /\ stale' = TRUE
  /\ UNCHANGED <<inRoom, registered, work, watchVars>>

(* Bug: the sockets are set up while the reset is under way.               *)
AcceptsEarly == server # "stopped"

Accepting == server = "listening"

(***************************************************************************)
(* The handlers of the user's sockets.                                     *)
(***************************************************************************)

(* The connection handler joins the room before its first await.           *)
SocketConnects(s) ==
  /\ Accepting
  /\ s \notin inRoom /\ work[s] = NoWork[s]
  /\ inRoom' = inRoom \union {s}
  /\ Start(s, "connection")
  /\ UNCHANGED <<server, registered, online, watchVars>>

(* The user.update of a handler.                                           *)
StatusWritten(s, k) ==
  /\ work[s][k] = "write"
  /\ online' = (k # "disconnect")
  /\ work' = [work EXCEPT ![s][k] = "tell"]
  /\ UNCHANGED <<server, inRoom, registered, crossed, watchVars, stale>>

(* user:status and handleStatus.                                           *)
StatusTold(s, k) ==
  /\ work[s][k] = "tell"
  /\ work' = [work EXCEPT ![s][k] = IF k = "connection" THEN "rooms" ELSE "idle"]
  /\ shownOnline' = IF watching THEN k # "disconnect" ELSE shownOnline
  /\ stale' = (stale \/ ~watching)
  /\ UNCHANGED <<server, inRoom, registered, statusVars, watching, list>>

(* After the memberships the handlers are registered; those of a socket    *)
(* that has disconnected are never called.                                 *)
Registers(s) ==
  /\ work[s]["connection"] = "rooms"
  /\ work' = [work EXCEPT ![s]["connection"] = "idle"]
  /\ registered' = registered \union ({s} \intersect inRoom)
  /\ UNCHANGED <<server, inRoom, statusVars, watchVars, stale>>

Heartbeat(s) ==
  /\ s \in registered /\ work[s]["heartbeat"] = "idle"
  /\ Start(s, "heartbeat")
  /\ UNCHANGED <<server, inRoom, registered, online, watchVars>>

Remaining(s) == inRoom \ {s}

(* The socket has left its rooms when its handler is called.               *)
SocketLeaves(s) ==
  /\ s \in inRoom
  /\ inRoom' = inRoom \ {s} /\ registered' = registered \ {s}
  /\ IF s \in registered /\ Remaining(s) = {}
     THEN Start(s, "disconnect")
     ELSE crossed' = (crossed \/ s \notin registered) /\ UNCHANGED <<work, stale>>
  /\ UNCHANGED <<server, online, watchVars>>

(***************************************************************************)
(* The other client.                                                       *)
(***************************************************************************)

WatcherConnects ==
  /\ server = "listening" /\ ~watching /\ watching' = TRUE
  /\ UNCHANGED <<server, inRoom, registered, work, statusVars, shownOnline, list, stale>>

WatcherLeaves ==
  /\ watching /\ watching' = FALSE
  /\ UNCHANGED <<server, inRoom, registered, work, statusVars, shownOnline, list, stale>>

(* fetchChats, with the status of the peers in its answer.                 *)
AskList ==
  /\ server = "listening" /\ list = NoList
  /\ list' = [NoList EXCEPT !.pc = "asked"]
  /\ stale' = Working
  /\ UNCHANGED <<server, inRoom, registered, work, statusVars, watching, shownOnline>>

ReadList ==
  /\ list.pc = "asked"
  /\ list' = [pc |-> "read", online |-> online]
  /\ UNCHANGED <<server, inRoom, registered, work, statusVars, watching, shownOnline, stale>>

ShowList ==
  /\ list.pc = "read"
  /\ shownOnline' = list.online /\ list' = NoList
  /\ UNCHANGED <<server, inRoom, registered, work, statusVars, watching, stale>>

PresenceNext ==
  \/ ServerStops \/ ServerStarts \/ ResetStatus
  \/ \E s \in UserSockets :
       \/ SocketConnects(s) \/ Registers(s) \/ Heartbeat(s) \/ SocketLeaves(s)
       \/ \E k \in Kinds : StatusWritten(s, k) \/ StatusTold(s, k)
  \/ WatcherConnects \/ WatcherLeaves \/ AskList \/ ReadList \/ ShowList

PresenceSpec == PresenceInit /\ [][PresenceNext]_presenceVars

(***************************************************************************)
(* Properties.                                                             *)
(***************************************************************************)

(* A server at rest has a user online exactly while a socket of theirs is  *)
(* connected, and the other client shows it so, across several tabs,       *)
(* reconnects and restarts of the server; except after handlers that       *)
(* overlapped, until one runs alone, a socket that left before its         *)
(* handlers were registered, a failed reset, and a missed broadcast.       *)
StatusFollowsSockets ==
  server = "listening" /\ ~Working =>
    /\ ~crossed => (online <=> inRoom # {})
    /\ ~stale /\ list = NoList => shownOnline = online
(***************************************************************************)
(* The inductive invariant behind it.                                      *)
(***************************************************************************)

(* A server that is not listening has no sockets and answers nobody.       *)
NobodyIsServed ==
  server # "listening" => inRoom = {} /\ work = NoWork /\ list = NoList

HandlersAlone ==
  \A s, t \in UserSockets : \A k, l \in Kinds :
    work[s][k] # "idle" /\ work[t][l] # "idle" => s = t /\ k = l

(* While nothing overlaps, the one handler is a disconnect when no socket  *)
(* is left and no disconnect otherwise, and what it wrote is in place.     *)
StatusSettles ==
  server = "listening" /\ ~crossed =>
    /\ HandlersAlone
    /\ \A s \in UserSockets, k \in Kinds : work[s][k] # "idle" =>
         /\ k = "disconnect" <=> inRoom = {}
         /\ work[s][k] # "write" => (online <=> k # "disconnect")
    /\ ~Working => (online <=> inRoom # {})

(* While no broadcast was missed, the other client has been told what is   *)
(* written, is about to be, or has asked for it.                           *)
ShownSettles ==
  server = "listening" /\ ~stale =>
    /\ HandlersAlone
    /\ list # NoList => ~Working
    /\ list.pc = "read" => (list.online <=> online)
    /\ \A s \in UserSockets, k \in Kinds :
         /\ work[s][k] = "tell" => (online <=> k # "disconnect")
         /\ work[s][k] = "rooms" => (shownOnline <=> online)
    /\ ~Working /\ list = NoList => (shownOnline <=> online)

PresenceInv == PresenceTypeOK /\ NobodyIsServed /\ StatusSettles /\ ShownSettles
=============================================================================

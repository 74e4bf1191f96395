------------------------------- MODULE CallSignals -------------------------------
(***************************************************************************)
(* The calls of one conversation: who rings, answers and hangs up, and the *)
(* set of participants the server keeps.                                   *)
(*                                                                         *)
(* Neither side waits for the other: a client is in the call as soon as it *)
(* has said so, and the server counts the participants, asks the database  *)
(* for the type and only then deletes the call.  The media of a call are   *)
(* in CallSession.  Sources: client/src/lib/calls/callController.ts,       *)
(* client/src/store/callStore.ts,                                          *)
(* server/src/socket/handlers/call.handler.ts.                             *)
(*                                                                         *)
(* Redis runs the commands in the order they are issued, so a step of a    *)
(* handler is what it does after one answer, with the next command.        *)
(* "Bug:" marks a definition that is not part of the specification: the    *)
(* next one with a plausible mistake, for checking the properties.         *)
(***************************************************************************)
EXTENDS Naturals, Sequences, FiniteSets

CONSTANTS
  Users,         \* the members, one socket each
  NoUser,
  MaxCalls,      \* bound on the calls started and accepted in all
  MaxEvents,     \* bound on the messages under way in each direction
  MaxFaults,     \* bound on lost connections and expiries
  Handlers       \* handlers that may be running on the server

ASSUME CallBounds == MaxCalls \in Nat /\ MaxEvents \in Nat /\ MaxFaults \in Nat

VARIABLES
  direct,        \* the conversation is a DIRECT one
  phase,         \* of each client; "calling" is connecting or active
  remote,        \* clients that have a remote peer
  calls,         \* calls started and accepted so far
  sends,         \* call:* messages on their way to the server
  inbox,         \* call:* messages on their way to the client
  connected,     \* users whose socket is up
  participants,  \* the Redis set
  activeCalls,   \* users whose socket has this call in activeCalls
  handler,       \* handlers of the server
  faults,
  apart          \* users whom an event has crossed or missed (for the properties)

clientVars == <<phase, remote, calls>>
serverVars == <<connected, participants, activeCalls, handler, faults>>
callVars   == <<direct, clientVars, sends, inbox, serverVars, apart>>

NoHandler == [pc |-> "idle", user |-> NoUser, dead |-> FALSE]

SignalsTypeOK ==
  /\ direct \in BOOLEAN
  /\ phase \in [Users -> {"idle", "incoming", "calling"}]
  /\ remote \subseteq {u \in Users : phase[u] = "calling"}
  /\ calls \in 0..MaxCalls
  /\ sends \in [Users -> Seq({"initiate", "accept", "reject", "end"})]
  /\ inbox \in [Users -> Seq({"incoming", "accepted", "rejected", "ended"})]
  /\ connected \subseteq Users /\ participants \subseteq Users
  /\ activeCalls \subseteq connected
  /\ handler \in [Handlers -> [pc : {"idle", "set", "added", "accepting", "left",
                                     "counted", "deleted"},
                               user : Users \union {NoUser}, dead : BOOLEAN]]
  /\ faults \in 0..MaxFaults
  /\ apart \subseteq Users

SignalsInit ==
  /\ direct \in BOOLEAN
  /\ phase = [u \in Users |-> "idle"] /\ remote = {}
  /\ calls = 0
  /\ sends = [u \in Users |-> <<>>] /\ inbox = [u \in Users |-> <<>>]
  /\ connected = Users
  /\ participants = {} /\ activeCalls = {}
  /\ handler = [h \in Handlers |-> NoHandler]
  /\ faults = 0 /\ apart = {}

(***************************************************************************)
(* The client.                                                             *)
(***************************************************************************)

InCall(u) == phase[u] = "calling"

Send(u, message) ==
  /\ Len(sends[u]) < MaxEvents
  /\ sends' = [sends EXCEPT ![u] = Append(@, message)]

(* Bug: remotePeers stays.                                                 *)
KeepsPeers(u) ==
  /\ phase' = [phase EXCEPT ![u] = "idle"]
  /\ UNCHANGED remote

Reset(u) ==
  /\ phase' = [phase EXCEPT ![u] = "idle"]
  /\ remote' = remote \ {u}

Begin(u, message) ==
  /\ calls < MaxCalls
  /\ calls' = calls + 1
  /\ phase' = [phase EXCEPT ![u] = "calling"]
  /\ Send(u, message)
  /\ apart' = apart \ {u}
  /\ UNCHANGED <<direct, remote, inbox, serverVars>>

StartCall(u)  == phase[u] = "idle" /\ Begin(u, "initiate")
AcceptCall(u) == phase[u] = "incoming" /\ Begin(u, "accept")

RejectCall(u) ==
  /\ phase[u] = "incoming"
  /\ Send(u, "reject")
  /\ Reset(u)
  /\ UNCHANGED <<direct, calls, inbox, serverVars, apart>>

(* endCall, by the user or because the media failed.                       *)
EndCall(u) ==
  /\ InCall(u)
  /\ Send(u, "end")
  /\ Reset(u)

HangUp(u) == EndCall(u) /\ UNCHANGED <<direct, calls, inbox, serverVars,
                                       apart>>

(* A track of another client that is in the call arrives.                  *)
RemoteTrack(u) ==
  /\ InCall(u) /\ u \notin remote
  /\ \E v \in Users \ {u} : InCall(v)
  /\ remote' = remote \union {u}
  /\ UNCHANGED <<direct, phase, calls, sends, inbox, serverVars, apart>>

(* The last remote peer left the media room.                               *)
PeerClosed(u) ==
  /\ u \in remote
  /\ \A v \in Users \ {u} : ~InCall(v)
  /\ remote' = remote \ {u}
  /\ UNCHANGED <<direct, phase, calls, sends, inbox, serverVars, apart>>

Arrives(u, event) ==
  /\ inbox[u] # <<>> /\ Head(inbox[u]) = event
  /\ inbox' = [inbox EXCEPT ![u] = Tail(@)]

OnIncoming(u) ==
  /\ Arrives(u, "incoming")
  /\ phase' = [phase EXCEPT ![u] = IF @ = "idle" THEN "incoming" ELSE @]
  /\ UNCHANGED <<direct, remote, calls, sends, serverVars, apart>>

(* call:accepted makes the call active, which is calling here.             *)
OnAccepted(u) ==
  /\ Arrives(u, "accepted")
  /\ UNCHANGED <<direct, clientVars, sends, serverVars, apart>>

(* Ends whatever is not idle and alone: a ring without a word to the       *)
(* server.                                                                 *)
OnRejected(u) ==
  /\ Arrives(u, "rejected")
  /\ CASE InCall(u) /\ u \notin remote -> EndCall(u)
       [] phase[u] = "incoming"        -> Reset(u) /\ UNCHANGED sends
       [] OTHER                         -> UNCHANGED <<phase, remote, sends>>
  /\ UNCHANGED <<direct, calls, serverVars, apart>>

Handling(u) == \E h \in Handlers : handler[h].pc # "idle" /\ handler[h].user = u

(* call:ended resets a client that is in the call, and leaves a ring on;   *)
(* the client does not answer.                                             *)
OnEnded(u) ==
  /\ Arrives(u, "ended")
  /\ IF InCall(u)
     THEN /\ Reset(u)
          /\ apart' = IF sends[u] # <<>> \/ Handling(u) \/ u \in participants
                      THEN apart \union {u} ELSE apart
     ELSE UNCHANGED <<phase, remote, apart>>
  /\ UNCHANGED <<direct, calls, sends, serverVars>>

(***************************************************************************)
(* The server.                                                             *)
(***************************************************************************)

Emit(to, event) ==
  /\ \A u \in to : Len(inbox[u]) < MaxEvents
  /\ inbox' = [u \in Users |-> IF u \in to THEN Append(inbox[u], event) ELSE inbox[u]]

Receives(h, u, message) ==
  /\ handler[h].pc = "idle" /\ u \in connected
  /\ sends[u] # <<>> /\ Head(sends[u]) = message
  /\ sends' = [sends EXCEPT ![u] = Tail(@)]

Serve(h, u, pc) ==
  handler' = [handler EXCEPT ![h] = [NoHandler EXCEPT !.pc = pc, !.user = u]]

(* call:initiate: meta, then the participant with its expiry, then the     *)
(* ring.                                                                   *)
Initiate(h, u) ==
  /\ Receives(h, u, "initiate")
  /\ Serve(h, u, "set")
  /\ UNCHANGED <<direct, clientVars, inbox, connected, participants,
                 activeCalls, faults, apart>>

InitiateAdd(h) ==
  /\ handler[h].pc = "set"
  /\ handler' = [handler EXCEPT ![h].pc = "added"]
  /\ participants' = participants \union {handler[h].user}
  /\ UNCHANGED <<direct, clientVars, sends, inbox, connected, activeCalls,
                 faults, apart>>

(* A socket that is gone keeps its activeCalls to itself.                  *)
Noted(h) == IF handler[h].dead THEN activeCalls ELSE activeCalls \union {handler[h].user}

InitiateRing(h) ==
  /\ handler[h].pc = "added"
  /\ handler' = [handler EXCEPT ![h] = NoHandler]
  /\ activeCalls' = Noted(h)
  /\ Emit(connected \ {handler[h].user}, "incoming")
  /\ UNCHANGED <<direct, clientVars, sends, connected, participants, faults,
                 apart>>

Accept(h, u) ==
  /\ Receives(h, u, "accept")
  /\ Serve(h, u, "accepting")
  /\ participants' = participants \union {u}
  /\ UNCHANGED <<direct, clientVars, inbox, connected, activeCalls, faults,
                 apart>>

AcceptAnswer(h) ==
  /\ handler[h].pc = "accepting"
  /\ handler' = [handler EXCEPT ![h] = NoHandler]
  /\ activeCalls' = Noted(h)
  /\ Emit(connected, "accepted")
  /\ UNCHANGED <<direct, clientVars, sends, connected, participants, faults,
                 apart>>

Reject(h, u) ==
  /\ Receives(h, u, "reject")
  /\ Emit(connected \ {u}, "rejected")
  /\ UNCHANGED <<direct, clientVars, serverVars, apart>>

(* Bug: call:end leaves the participant set alone.                         *)
StaysIn(u) == participants

Removed(u) == participants \ {u}

(* call:end, and leaveCall up to its first answer.                         *)
End(h, u) ==
  /\ Receives(h, u, "end")
  /\ Serve(h, u, "left")
  /\ activeCalls' = activeCalls \ {u}
  /\ participants' = Removed(u)
  /\ apart' = IF \E i \in Handlers : handler[i].pc = "set" /\ handler[i].user = u
              THEN apart \union {u} ELSE apart
  /\ UNCHANGED <<direct, clientVars, inbox, connected, faults>>

CallIsOver(remaining) == remaining = 0 \/ (direct /\ remaining <= 1)

(* leaveCall counts, and asks the database for the type.                   *)
LeaveCount(h) ==
  /\ handler[h].pc = "left"
  /\ handler' = IF CallIsOver(Cardinality(participants))
                THEN [handler EXCEPT ![h].pc = "counted"]
                ELSE [handler EXCEPT ![h] = NoHandler]
  /\ UNCHANGED <<direct, clientVars, sends, inbox, connected, participants,
                 activeCalls, faults, apart>>

LeaveDelete(h) ==
  /\ handler[h].pc = "counted"
  /\ handler' = [handler EXCEPT ![h].pc = "deleted"]
  /\ participants' = {}
  /\ apart' = IF direct THEN apart ELSE apart \union participants
  /\ UNCHANGED <<direct, clientVars, sends, inbox, connected, activeCalls,
                 faults>>

LeaveEnded(h) ==
  /\ handler[h].pc = "deleted"
  /\ handler' = [handler EXCEPT ![h] = NoHandler]
  /\ Emit(connected, "ended")
  /\ UNCHANGED <<direct, clientVars, sends, connected, participants,
                 activeCalls, faults, apart>>

(***************************************************************************)
(* Faults.                                                                 *)
(***************************************************************************)

(* A socket is lost, with what was on its way to the client; what the      *)
(* client sent is lost too or still in its buffer.  The server leaves the  *)
(* calls the socket had noted.                                             *)
Disconnect(u, h) ==
  LET orphaned == [i \in Handlers |-> IF handler[i].user = u
                     THEN [handler[i] EXCEPT !.dead = (handler[i].pc # "idle")]
                     ELSE handler[i]] IN
  /\ u \in connected /\ faults < MaxFaults
  /\ faults' = faults + 1
  /\ connected' = connected \ {u}
  /\ \E lost \in BOOLEAN :
       sends' = IF lost THEN [sends EXCEPT ![u] = <<>>] ELSE sends
  /\ inbox' = [inbox EXCEPT ![u] = <<>>]
  /\ IF u \in activeCalls
     THEN /\ handler[h].pc = "idle"
          /\ handler' = [orphaned EXCEPT ![h] = [NoHandler EXCEPT !.pc = "left",
                                                                  !.user = u,
                                                                  !.dead = TRUE]]
          /\ participants' = Removed(u)
     ELSE handler' = orphaned /\ UNCHANGED participants
  /\ activeCalls' = activeCalls \ {u}
  /\ apart' = apart \union {u}
  /\ UNCHANGED <<direct, clientVars>>

Reconnect(u) ==
  /\ u \notin connected
  /\ connected' = connected \union {u}
  /\ UNCHANGED <<direct, clientVars, sends, inbox, participants, activeCalls,
                 handler, faults, apart>>

(* The expiry is set by call:initiate and never renewed.                   *)
ParticipantsExpire ==
  /\ participants # {} /\ faults < MaxFaults
  /\ faults' = faults + 1
  /\ participants' = {}
  /\ apart' = Users
  /\ UNCHANGED <<direct, clientVars, sends, inbox, connected, activeCalls,
                 handler>>

ClientStep(u) ==
  \/ StartCall(u) \/ AcceptCall(u) \/ RejectCall(u) \/ HangUp(u)
  \/ RemoteTrack(u) \/ PeerClosed(u)
  \/ OnIncoming(u) \/ OnAccepted(u) \/ OnRejected(u) \/ OnEnded(u)

ServerStep(h) ==
  \/ \E u \in Users : Initiate(h, u) \/ Accept(h, u) \/ Reject(h, u) \/ End(h, u)
  \/ InitiateAdd(h) \/ InitiateRing(h) \/ AcceptAnswer(h)
  \/ LeaveCount(h) \/ LeaveDelete(h) \/ LeaveEnded(h)

SignalsNext ==
  \/ \E u \in Users : ClientStep(u) \/ Reconnect(u)
  \/ \E h \in Handlers : ServerStep(h)
  \/ \E u \in Users, h \in Handlers : Disconnect(u, h)
  \/ ParticipantsExpire

SignalsSpec == SignalsInit /\ [][SignalsNext]_callVars

(***************************************************************************)
(* Properties.                                                             *)
(***************************************************************************)

Settled(u) ==
  /\ u \in connected /\ sends[u] = <<>> /\ inbox[u] = <<>>
  /\ \A h \in Handlers : handler[h].pc = "idle"

(* When nothing is under way, the participant set holds exactly the users  *)
(* whose client is in the call.  Excepted are users whose socket dropped,  *)
(* a set that expired, a call:ended that reached a client after it had     *)
(* begun the next call, and a hang-up handled before the call:initiate     *)
(* before it had added the caller.                                         *)
ParticipantsAreInCall ==
  \A u \in Users \ apart : Settled(u) => (u \in participants <=> InCall(u))
(***************************************************************************)
(* The inductive invariant behind it.                                      *)
(***************************************************************************)

Joining == {"initiate", "accept"}

(* The messages that change whether their sender is a participant, and the *)
(* last one of them.                                                       *)
Decided(messages) == \E i \in DOMAIN messages : messages[i] # "reject"

LastIsIn(messages, kinds) ==
  \E i \in DOMAIN messages : /\ messages[i] \in kinds
                             /\ \A j \in DOMAIN messages : j > i => messages[j] = "reject"

Adding(u) == \E h \in Handlers : handler[h].pc = "set" /\ handler[h].user = u

EndedIsComing(u) ==
  /\ u \in connected
  /\ \/ \E h \in Handlers : handler[h].pc = "deleted"
     \/ \E i \in DOMAIN inbox[u] : inbox[u][i] = "ended"

(* A handler at work is of a user, whose socket it knows to be up or gone. *)
HandlersAreOfUsers ==
  \A h \in Handlers : handler[h].pc # "idle" =>
    handler[h].user \in Users /\ (handler[h].dead \/ handler[h].user \in connected)

(* What a client said last is where it is, and the server does it or has   *)
(* done it.                                                                *)
IsFollowed(u) ==
  /\ LastIsIn(sends[u], Joining) => InCall(u)
  /\ LastIsIn(sends[u], {"end"}) => ~InCall(u)
  /\ ~Decided(sends[u]) =>
       /\ u \in connected
       /\ Adding(u) => InCall(u)
       /\ ~Adding(u) => /\ u \in participants => InCall(u)
                        /\ InCall(u) => u \in participants \/ EndedIsComing(u)

LastWordCounts == \A u \in Users \ apart : IsFollowed(u)

SignalsInv == SignalsTypeOK /\ HandlersAreOfUsers /\ LastWordCounts
================================================================================

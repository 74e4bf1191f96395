---------------------------------- MODULE SfuRooms ----------------------------------
(***************************************************************************)
(* One conversation's room on the media server and the sockets that join   *)
(* it: who sends what, who is told of it, and who plays it.                *)
(*                                                                         *)
(* A joiner gets the list of what is being sent, sets up its transports    *)
(* for two round trips, and only then listens for what is new.  It plays   *)
(* the list one by one; a refusal ends its call.  Sources:                 *)
(* media-server/src/server.ts, room.ts and peer.ts,                        *)
(* client/src/lib/calls/sfuClient.ts and callController.ts.                *)
(*                                                                         *)
(* Messages to one client keep their order; where it matters it is in the  *)
(* guards.  mediasoup is external: a closed producer cannot be consumed    *)
(* and its consumer cannot be resumed.                                     *)
(*                                                                         *)
(* "Bug:" marks a definition that is not part of the specification: the    *)
(* next one with a plausible mistake, for checking the properties.         *)
(***************************************************************************)
EXTENDS Naturals, FiniteSets

CONSTANTS
  Sockets,   \* the sockets that may join, each once
  Tags,      \* what a client may send: its microphone, a shared screen
  NoTrack

ASSUME FiniteSockets == IsFiniteSet(Sockets)

VARIABLES
  rooms,     \* the room the map holds for the conversation, or 0
  created,   \* rooms created so far
  making,    \* sockets whose joinRoom waits for createRouter
  roomOf,    \* the room object that has this socket's peer, or 0
  stage,     \* of each client
  gone,      \* sockets that have disconnected
  track,     \* what became of each producer
  existing,  \* listed producers a client has still to play
  current,   \* the listed producer it is at
  want,      \* how far a client is with playing a producer
  news,      \* newProducer messages under way
  closings,  \* producerClosed messages under way
  deafTo     \* producers announced before the client listened (for the properties)

sfuVars == <<rooms, created, making, roomOf, stage, gone, track, existing, current, want,
             news, closings, deafTo>>

Tracks == Sockets \X Tags
RoomIds == 1..Cardinality(Sockets)

SfuTypeOK ==
  /\ rooms \in {0} \union RoomIds /\ created \in {0} \union RoomIds
  /\ making \subseteq Sockets
  /\ roomOf \in [Sockets -> {0} \union RoomIds]
  /\ stage \in [Sockets -> {"out", "creating", "deaf", "playing", "in", "left"}]
  /\ gone \subseteq Sockets
  /\ track \in [Tracks -> {"none", "asked", "live", "stopping", "closed"}]
  /\ existing \in [Sockets -> SUBSET Tracks]
  /\ current \in [Sockets -> Tracks \union {NoTrack}]
  /\ want \in [Sockets -> [Tracks -> {"no", "asked", "made", "resuming", "resumed",
                                      "shown", "refused"}]]
  /\ news \in [Sockets -> SUBSET Tracks]
  /\ closings \in [Sockets -> SUBSET Tracks]
  /\ deafTo \in [Sockets -> SUBSET Tracks]

SfuInit ==
  /\ rooms = 0 /\ created = 0 /\ making = {}
  /\ roomOf = [s \in Sockets |-> 0]
  /\ stage = [s \in Sockets |-> "out"] /\ gone = {}
  /\ track = [t \in Tracks |-> "none"]
  /\ existing = [s \in Sockets |-> {}] /\ current = [s \in Sockets |-> NoTrack]
  /\ want = [s \in Sockets |-> [t \in Tracks |-> "no"]]
  /\ news = [s \in Sockets |-> {}] /\ closings = [s \in Sockets |-> {}]
  /\ deafTo = [s \in Sockets |-> {}]

(* The peer of s in the room the map holds, as every handler looks it up.  *)
HasPeer(s) == rooms # 0 /\ roomOf[s] = rooms

(* The sockets of the socket.io room, whichever room object has their peer.*)
Audience(s) == {o \in Sockets \ (gone \union {s}) : roomOf[o] # 0}

Tell(messages, s, ts) ==
  [o \in Sockets |-> IF o \in Audience(s) THEN messages[o] \union ts ELSE messages[o]]

(***************************************************************************)
(* joinRoom.                                                               *)
(***************************************************************************)

(* Bug: one producer of each peer.                                         *)
OnePerPeer(s, r) == {t \in Tracks : t[1] # s /\ roomOf[t[1]] = r
                      /\ track[t] \in {"live", "stopping", "closed"}
                      /\ t[2] = CHOOSE g \in Tags : TRUE}

(* A producer stays in its peer's map when it is closed, so the list has   *)
(* it too.                                                                 *)
Listed(s, r) == {t \in Tracks : t[1] # s /\ roomOf[t[1]] = r
                                /\ track[t] \in {"live", "stopping", "closed"}}

Enter(s, r) ==
  /\ roomOf' = [roomOf EXCEPT ![s] = r]
  /\ existing' = [existing EXCEPT ![s] = Listed(s, r)]
  /\ stage' = [stage EXCEPT ![s] = "deaf"]

JoinRoom(s) ==
  /\ stage[s] = "out"
  /\ IF rooms # 0
     THEN Enter(s, rooms) /\ UNCHANGED making
     ELSE /\ stage' = [stage EXCEPT ![s] = "creating"]
          /\ making' = making \union {s}
          /\ UNCHANGED <<roomOf, existing>>
  /\ UNCHANGED <<rooms, created, gone, track, current, want, news, closings,
                 deafTo>>

(* createRouter answers: the new room replaces whatever the map has by     *)
(* now, and takes in a peer whose socket may be gone.                      *)
RouterCreated(s) ==
  /\ s \in making
  /\ making' = making \ {s}
  /\ created' = created + 1 /\ rooms' = created + 1
  /\ roomOf' = [roomOf EXCEPT ![s] = created + 1]
  /\ stage' = [stage EXCEPT ![s] = IF @ = "creating" THEN "deaf" ELSE @]
  /\ UNCHANGED <<gone, track, existing, current, want, news, closings, deafTo>>

(* Both transports are made and the listeners registered; without a peer   *)
(* in the map's room the transports are refused.                           *)
Listen(s) ==
  /\ stage[s] = "deaf" /\ HasPeer(s)
  /\ stage' = [stage EXCEPT ![s] = "playing"]
  /\ UNCHANGED <<rooms, created, making, roomOf, gone, track, existing,
                 current, want, news, closings, deafTo>>

(***************************************************************************)
(* Playing.                                                                *)
(***************************************************************************)

(* The list is consumed one after the other; then the own tracks.          *)
PlayListed(s, t) ==
  /\ stage[s] = "playing" /\ current[s] = NoTrack /\ t \in existing[s]
  /\ existing' = [existing EXCEPT ![s] = @ \ {t}]
  /\ current' = [current EXCEPT ![s] = t]
  /\ want' = [want EXCEPT ![s][t] = "asked"]
  /\ UNCHANGED <<rooms, created, making, roomOf, stage, gone, track, news,
                 closings, deafTo>>

ListPlayed(s) ==
  /\ stage[s] = "playing" /\ current[s] = NoTrack /\ existing[s] = {}
  /\ stage' = [stage EXCEPT ![s] = "in"]
  /\ UNCHANGED <<rooms, created, making, roomOf, gone, track, existing,
                 current, want, news, closings, deafTo>>

(* newProducer: consumed at once by a client that listens, else lost.      *)
OnNewProducer(s, t) ==
  /\ t \in news[s]
  /\ news' = [news EXCEPT ![s] = @ \ {t}]
  /\ IF stage[s] \in {"playing", "in"}
     THEN want' = [want EXCEPT ![s][t] = "asked"] /\ UNCHANGED deafTo
     ELSE deafTo' = [deafTo EXCEPT ![s] = @ \union {t}] /\ UNCHANGED want
  /\ UNCHANGED <<rooms, created, making, roomOf, stage, gone, track, existing,
                 current, closings>>

(* The server, asked to consume or to resume.                              *)
Consumable(s, t) == HasPeer(s) /\ roomOf[t[1]] = rooms /\ track[t] \in {"live", "stopping"}

Consume(s, t) ==
  /\ want[s][t] = "asked" /\ s \notin gone
  /\ want' = [want EXCEPT ![s][t] = IF Consumable(s, t) THEN "made" ELSE "refused"]
  /\ UNCHANGED <<rooms, created, making, roomOf, stage, gone, track, existing,
                 current, news, closings, deafTo>>

MakeConsumer(s, t) ==
  /\ want[s][t] = "made"
  /\ want' = [want EXCEPT ![s][t] = "resuming"]
  /\ UNCHANGED <<rooms, created, making, roomOf, stage, gone, track, existing,
                 current, news, closings, deafTo>>

Resumable(s, t) == Consumable(s, t)

ResumeConsumer(s, t) ==
  /\ want[s][t] = "resuming" /\ s \notin gone
  /\ want' = [want EXCEPT ![s][t] = IF Resumable(s, t) THEN "resumed" ELSE "refused"]
  /\ UNCHANGED <<rooms, created, making, roomOf, stage, gone, track, existing,
                 current, news, closings, deafTo>>

Played(s, t) == IF current[s] = t THEN [current EXCEPT ![s] = NoTrack] ELSE current

(* onRemoteTrack.                                                          *)
ShowTrack(s, t) ==
  /\ want[s][t] = "resumed"
  /\ want' = [want EXCEPT ![s][t] = "shown"]
  /\ current' = Played(s, t)
  /\ UNCHANGED <<rooms, created, making, roomOf, stage, gone, track, existing,
                 news, closings, deafTo>>

(* producerClosed, after the answers that were sent before it.             *)
OnProducerClosed(s, t) ==
  /\ t \in closings[s] /\ t \notin news[s] /\ want[s][t] \notin {"made", "resumed"}
  /\ closings' = [closings EXCEPT ![s] = @ \ {t}]
  /\ want' = [want EXCEPT ![s][t] = IF @ = "shown" THEN "no" ELSE @]
  /\ UNCHANGED <<rooms, created, making, roomOf, stage, gone, track, existing,
                 current, news, deafTo>>

(***************************************************************************)
(* Sending.                                                                *)
(***************************************************************************)

AskProduce(s, g) ==
  /\ stage[s] = "in" /\ track[<<s, g>>] = "none"
  /\ track' = [track EXCEPT ![<<s, g>>] = "asked"]
  /\ UNCHANGED <<rooms, created, making, roomOf, stage, gone, existing,
                 current, want, news, closings, deafTo>>

Produce(s, g) ==
  /\ track[<<s, g>>] = "asked" /\ HasPeer(s) /\ s \notin gone
  /\ track' = [track EXCEPT ![<<s, g>>] = "live"]
  /\ news' = Tell(news, s, {<<s, g>>})
  /\ UNCHANGED <<rooms, created, making, roomOf, stage, gone, existing,
                 current, want, closings, deafTo>>

(* stopProducing, and closeProducer on the server.                         *)
StopProducing(s, g) ==
  /\ track[<<s, g>>] = "live" /\ stage[s] = "in"
  /\ track' = [track EXCEPT ![<<s, g>>] = "stopping"]
  /\ UNCHANGED <<rooms, created, making, roomOf, stage, gone, existing,
                 current, want, news, closings, deafTo>>

CloseProducer(s, g) ==
  /\ track[<<s, g>>] = "stopping" /\ HasPeer(s) /\ s \notin gone
  /\ track' = [track EXCEPT ![<<s, g>>] = "closed"]
  /\ closings' = Tell(closings, s, {<<s, g>>})
  /\ UNCHANGED <<rooms, created, making, roomOf, stage, gone, existing,
                 current, want, news, deafTo>>

(***************************************************************************)
(* Leaving.                                                                *)
(***************************************************************************)

(* close: by the user, or because an await of join or produce rejected.    *)
(* The client drops everything.                                            *)
Leave(s) ==
  /\ stage[s] \notin {"out", "left"}
  /\ stage' = [stage EXCEPT ![s] = "left"]
  /\ existing' = [existing EXCEPT ![s] = {}]
  /\ current' = [current EXCEPT ![s] = NoTrack]
  /\ want' = [want EXCEPT ![s] = [t \in Tracks |-> "no"]]
  /\ news' = [news EXCEPT ![s] = {}] /\ closings' = [closings EXCEPT ![s] = {}]
  /\ deafTo' = [deafTo EXCEPT ![s] = {}]
  /\ UNCHANGED <<rooms, created, making, roomOf, gone, track>>

(* A refused listed track rejects join; a refused new one rejects a        *)
(* promise nobody waits for.                                               *)
Refused(s, t) ==
  /\ want[s][t] = "refused" /\ current[s] # t
  /\ want' = [want EXCEPT ![s][t] = "no"]
  /\ UNCHANGED <<rooms, created, making, roomOf, stage, gone, track, existing,
                 current, news, closings, deafTo>>

RoomAfter(s) == IF \E o \in Sockets \ {s} : roomOf[o] = rooms THEN rooms ELSE 0

(* disconnect: the peer of the map's room is closed with its producers,    *)
(* the others are told of each and of the peer, and an empty room goes.    *)
PeerGone(s) ==
  LET own == {t \in Tracks : t[1] = s /\ track[t] \in {"live", "stopping"}} IN
  /\ stage[s] = "left" /\ s \notin gone
  /\ gone' = gone \union {s}
  /\ IF HasPeer(s)
     THEN /\ roomOf' = [roomOf EXCEPT ![s] = 0]
          /\ rooms' = RoomAfter(s)
          /\ track' = [t \in Tracks |-> IF t \in own THEN "closed" ELSE track[t]]
          /\ closings' = Tell(closings, s, own)
     ELSE UNCHANGED <<roomOf, rooms, track, closings>>
  /\ UNCHANGED <<created, making, stage, existing, current, want, news,
                 deafTo>>

SfuNext ==
  \E s \in Sockets :
    \/ JoinRoom(s) \/ RouterCreated(s) \/ Listen(s) \/ ListPlayed(s)
    \/ Leave(s) \/ PeerGone(s)
    \/ \E g \in Tags : \/ AskProduce(s, g) \/ Produce(s, g)
                       \/ StopProducing(s, g) \/ CloseProducer(s, g)
    \/ \E t \in Tracks : \/ PlayListed(s, t) \/ OnNewProducer(s, t) \/ Consume(s, t)
                         \/ MakeConsumer(s, t) \/ ResumeConsumer(s, t)
                         \/ ShowTrack(s, t) \/ OnProducerClosed(s, t) \/ Refused(s, t)

SfuSpec == SfuInit /\ [][SfuNext]_sfuVars

(***************************************************************************)
(* Properties.                                                             *)
(***************************************************************************)

(* Whatever is being sent in a room is played by every other client in it, *)
(* being fetched, listed for it, or on its way to it.  Excepted is what    *)
(* was announced in the two round trips between the list and the           *)
(* listeners.                                                              *)
EveryTrackIsPlayed ==
  \A s \in Sockets, t \in Tracks :
    /\ stage[s] \in {"deaf", "playing", "in"} /\ HasPeer(s)
    /\ t[1] # s /\ HasPeer(t[1]) /\ track[t] = "live"
    => \/ want[s][t] \notin {"no", "refused"}
       \/ t \in existing[s] \union news[s] \union deafTo[s]
(***************************************************************************)
(* The inductive invariant behind it.                                      *)
(***************************************************************************)

(* Every room there has been has its number; a socket that may still make  *)
(* one has not made one before.                                            *)
ToCreate == making \union {s \in Sockets : stage[s] = "out"}

RoomsAreNumbered ==
  /\ rooms <= created /\ \A s \in Sockets : roomOf[s] <= created
  /\ created + Cardinality(ToCreate) <= Cardinality(Sockets)
  /\ \A s \in making : stage[s] \in {"creating", "left"}

(* A client sends only once it is in, its socket outlives its call, and a  *)
(* producer that is reported closed is closed.                             *)
TracksAreSent ==
  /\ \A s \in Sockets, g \in Tags :
       stage[s] \in {"out", "creating", "deaf", "playing"} => track[<<s, g>>] = "none"
  /\ \A s \in gone : stage[s] = "left"
  /\ \A s \in Sockets : \A t \in closings[s] : track[t] = "closed"

SfuInv == SfuTypeOK /\ RoomsAreNumbered /\ TracksAreSent /\ EveryTrackIsPlayed
=====================================================================================

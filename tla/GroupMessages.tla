----------------------------- MODULE GroupMessages -----------------------------
(***************************************************************************)
(* Messages of the conversation of ConversationKeys: sealed on a device,   *)
(* stored and broadcast by the server, received by other devices.          *)
(*                                                                         *)
(* Sending is five steps: the client seals under the version it believes   *)
(* in, the server checks the sender's member row, creates the message row, *)
(* reads the active members, and emits to the conversation's socket room   *)
(* and to each member's own room.  Memberships and keys change in between. *)
(* Sources: server/src/services/message.service.ts,                        *)
(* server/src/controllers/message.controller.ts, server/src/socket/        *)
(* index.ts, client/src/lib/crypto/messageCrypto.ts.  "Bug:" marks mistaken *)
(* versions of definitions, as in ConversationKeys.                        *)
(***************************************************************************)
EXTENDS ConversationKeys

CONSTANT Messages   \* identifiers of the messages that may be sent

VARIABLES
  kind,     \* Conversation.type
  msg,      \* the messages, from the device that seals them to the table
  online,   \* devices with a socket, each in its account's user room
  room,     \* devices whose socket is in the conversation's room
  loading,  \* device has GET .../messages past its membership check
  seen      \* messages whose ciphertext a device received

messageVars == <<kind, msg, online, room, loading, seen>>

(* to: the members read for the broadcast.  evicted: who had been removed  *)
(* by a rotation when the row was created (recorded for the properties).   *)
Message ==
  [pc      : {"none", "sealed", "authorized", "created", "addressed", "sent",
              "refused"},
   dev     : Devices,
   ck      : CK,
   version : 0..MaxVersion,
   to      : SUBSET Users,
   evicted : SUBSET Users]

NoMessage == [pc |-> "none", dev |-> Creator, ck |-> NoCK, version |-> 0,
              to |-> {}, evicted |-> {}]

GroupTypeOK ==
  /\ TypeOK
  /\ kind \in {"GROUP", "CHANNEL"}
  /\ msg \in [Messages -> Message]
  /\ online \in SUBSET Devices
  /\ room \in SUBSET online
  /\ loading \in [Devices -> BOOLEAN]
  /\ seen \in [Devices -> SUBSET Messages]

Stored == {m \in Messages : msg[m].pc \in {"created", "addressed", "sent"}}

GroupInit ==
  /\ Init
  /\ kind \in {"GROUP", "CHANNEL"}
  /\ msg = [m \in Messages |-> NoMessage]
  /\ online = {}
  /\ room = {}
  /\ loading = [d \in Devices |-> FALSE]
  /\ seen = [d \in Devices |-> {}]

(***************************************************************************)
(* Sockets.                                                                *)
(***************************************************************************)

(* On connection a socket joins its user room, and the rooms of the        *)
(* conversations the account is an active member of at that moment.        *)
Connect(d) ==
  /\ d \notin online
  /\ online' = online \union {d}
  /\ room' = IF Active(Owner[d]) THEN room \union {d} ELSE room
  /\ UNCHANGED <<vars, kind, msg, loading, seen>>

(* A room is left only with the connection: neither removeMember nor       *)
(* leaveGroup calls socket.leave.                                          *)
Disconnect(d) ==
  /\ d \in online
  /\ online' = online \ {d}
  /\ room' = room \ {d}
  /\ UNCHANGED <<vars, kind, msg, loading, seen>>

(***************************************************************************)
(* POST /conversations/:id/messages, and POST /messages/:id/forward into   *)
(* the conversation, which takes the same steps but for the check.         *)
(***************************************************************************)

(* encryptText seals under any version the client takes for the current    *)
(* one and holds the key of.                                               *)
Seal(m, d, v) ==
  /\ msg[m].pc = "none"
  /\ cache[d][v] # NoCK
  /\ msg' = [msg EXCEPT ![m] =
       [@ EXCEPT !.pc = "sealed", !.dev = d, !.ck = cache[d][v], !.version = v]]
  /\ UNCHANGED <<vars, kind, online, room, loading, seen>>

(* The sender's row, and in a channel its role.  senderKeyVersion is       *)
(* stored as it comes, never compared with currentKeyVersion.              *)
MayPost(u) == Active(u) /\ (kind = "CHANNEL" => IsAdmin(u))

(* forwardMessage: the row alone.                                          *)
MayForward(u) == Active(u)

(* A send, or a forward.                                                   *)
Authorize(m) ==
  /\ msg[m].pc = "sealed"
  /\ \E allowed \in {MayPost(Owner[msg[m].dev]), MayForward(Owner[msg[m].dev])} :
       msg' = [msg EXCEPT ![m].pc = IF allowed THEN "authorized" ELSE "refused"]
  /\ UNCHANGED <<vars, kind, online, room, loading, seen>>

Store(m) ==
  /\ msg[m].pc = "authorized"
  /\ msg' = [msg EXCEPT ![m] =
       [@ EXCEPT !.pc = "created",
                 !.evicted = {req[q].target : q \in Rotations}]]
  /\ UNCHANGED <<vars, kind, online, room, loading, seen>>

(* broadcast reads the active members after the row exists ...             *)
Recipients == {u \in Users : Active(u)}

Address(m) ==
  /\ msg[m].pc = "created"
  /\ msg' = [msg EXCEPT ![m] = [@ EXCEPT !.pc = "addressed", !.to = Recipients]]
  /\ UNCHANGED <<vars, kind, online, room, loading, seen>>

(* ... and emits to the room and to the members' own rooms.                *)
Audience(m) == room \union {d \in online : Owner[d] \in msg[m].to}

Emit(m) ==
  /\ msg[m].pc = "addressed"
  /\ msg' = [msg EXCEPT ![m].pc = "sent"]
  /\ seen' = [d \in Devices |->
                IF d \in Audience(m) THEN seen[d] \union {m} ELSE seen[d]]
  /\ UNCHANGED <<vars, kind, online, room, loading>>

(***************************************************************************)
(* GET /conversations/:id/messages: the member check, then the rows.       *)
(***************************************************************************)
BeginHistory(d) ==
  /\ Active(Owner[d])
  /\ loading' = [loading EXCEPT ![d] = TRUE]
  /\ UNCHANGED <<vars, kind, msg, online, room, seen>>

FinishHistory(d) ==
  /\ loading[d]
  /\ loading' = [loading EXCEPT ![d] = FALSE]
  /\ seen' = [seen EXCEPT ![d] = @ \union Stored]
  /\ UNCHANGED <<vars, kind, msg, online, room>>

(* Memberships and keys move as ConversationKeys says.                     *)
KeysStep == Next /\ UNCHANGED messageVars

GroupNext ==
  \/ KeysStep
  \/ \E m \in Messages :
       \/ \E d \in Devices, v \in Versions : Seal(m, d, v)
       \/ Authorize(m)
       \/ Store(m)
       \/ Address(m)
       \/ Emit(m)
  \/ \E d \in Devices : \/ Connect(d)
                        \/ Disconnect(d)
                        \/ BeginHistory(d)
                        \/ FinishHistory(d)

groupVars == <<vars, messageVars>>

GroupSpec == GroupInit /\ [][GroupNext]_groupVars

-------------------------------------------------------------------------------
(* decryptMessage: look the key up by the version the message names.       *)
CanOpen(d, m) == m \in seen[d] /\ cache[d][msg[m].version] = msg[m].ck

(* Whatever version a founder's device took for the current one, the       *)
(* message it stored opens with the key that every other intact founder    *)
(* has a wrap of under that version: senders and rotations may race.       *)
FoundersReadEachOther ==
  \A m \in Stored : IntactFounder(Owner[msg[m].dev]) =>
    \A h \in Users : IntactFounder(h) =>
      keys[h][msg[m].version] = [ck |-> msg[m].ck, ik |-> identity[h]]

(* A device of a removed member opens a message stored after the removal   *)
(* only if it was sealed under an older key than the removal installed,    *)
(* or an add gave it the newer one.                                        *)
EvictedOpenOnlyOldKeys ==
  (\E g \in Users : IntactFounder(g)) =>
    \A m \in Stored, d \in Devices : CanOpen(d, m) /\ Owner[d] \in msg[m].evicted =>
      \A q \in Rotations : req[q].target = Owner[d] =>
        \/ msg[m].version < req[q].version
        \/ \E a \in Adds : req[a].ck = msg[m].ck /\ Owner[d] \in req[a].to

(* conversation.service.ts:173-175 says of removeMember that the key is    *)
(* rotated so the removed member cannot read post-removal messages.  Of    *)
(* the broadcast of another's message to a socket of a member whom another *)
(* has removed before the message was stored: it does not open there.      *)
EvictedByAnother(u) ==
  \E q \in Rotations : req[q].target = u /\ Owner[req[q].dev] # u

BroadcastStaysClosed ==
  \A m \in Messages, d \in Devices :
    /\ msg[m].pc = "addressed" /\ msg'[m].pc = "sent"
    /\ Owner[d] \in msg[m].evicted /\ EvictedByAnother(Owner[d])
    /\ Owner[d] # Owner[msg[m].dev]
    => ~CanOpen(d, m)'

RemovedMemberReadsNothingNew == [][BroadcastStaysClosed]_groupVars

-------------------------------------------------------------------------------
(***************************************************************************)
(* The inductive invariant behind the properties above.                    *)
(***************************************************************************)

(* A message keeps the key its sender had under the version it names.      *)
MessagesKeepKeys ==
  \A m \in Messages : msg[m].pc # "none" =>
    /\ msg[m].ck # NoCK /\ msg[m].version \in Versions
    /\ SealedAt(Owner[msg[m].dev], msg[m].ck, msg[m].version)
    /\ IntactFounder(Owner[msg[m].dev]) =>
         keys[Owner[msg[m].dev]][msg[m].version].ck = msg[m].ck

GroupInv ==
  IInv /\ GroupTypeOK /\ KeysWereSealedAt /\ FounderKeys /\ MessagesKeepKeys
===============================================================================

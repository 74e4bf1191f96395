-------------------------- MODULE GroupMessagesProofs --------------------------
(***************************************************************************)
(* Theorems about GroupMessages for any number of users, devices, requests *)
(* and messages, on top of the invariant of ConversationKeys.              *)
(***************************************************************************)
EXTENDS GroupMessages, ConversationKeysProofs

(* A step of the messages leaves the keys alone.                           *)
LEMMA KeysMoveAlone == [GroupNext]_groupVars => [Next]_vars
  BY DEF GroupNext, groupVars, KeysStep, Connect, Disconnect, Seal, Authorize,
         Store, Address, Emit, BeginHistory, FinishHistory

(***************************************************************************)
(* Types.                                                                  *)
(***************************************************************************)

LEMMA NoMessageType == NoMessage \in Message
  BY BoundAssumption, CreatorAssumption DEF NoMessage, Message, CK

LEMMA MessageUpdateType ==
  ASSUME NEW q \in Message, NEW d \in Devices, NEW k \in CK, NEW v \in 0..MaxVersion,
         NEW to \in SUBSET Users,
         NEW pc \in {"none", "sealed", "authorized", "created", "addressed", "sent",
                     "refused"}
  PROVE  /\ [q EXCEPT !.pc = pc] \in Message
         /\ [q EXCEPT !.pc = pc, !.dev = d, !.ck = k, !.version = v] \in Message
         /\ [q EXCEPT !.pc = pc, !.evicted = to] \in Message
         /\ [q EXCEPT !.pc = pc, !.to = to] \in Message
  BY DEF Message

LEMMA GroupInitType == GroupInit => GroupTypeOK
  <1> SUFFICES ASSUME GroupInit
               PROVE  GroupTypeOK
    OBVIOUS
  <1>1. TypeOK
    BY InitIInv DEF GroupInit, IInv
  <1> QED
    BY <1>1, NoMessageType DEF GroupInit, GroupTypeOK

LEMMA GroupTypeStep == GroupTypeOK /\ [GroupNext]_groupVars => GroupTypeOK'
  <1> SUFFICES ASSUME GroupTypeOK, [GroupNext]_groupVars
               PROVE  GroupTypeOK'
    OBVIOUS
  <1>1. TypeOK'
    BY KeysMoveAlone, TypeStep DEF GroupTypeOK
  <1>2. CASE UNCHANGED messageVars
    BY <1>1, <1>2 DEF GroupTypeOK, messageVars
  <1>3. ASSUME NEW m \in Messages, NEW d \in Devices, NEW v \in Versions, Seal(m, d, v)
        PROVE  GroupTypeOK'
    <2>1. msg[m] \in Message /\ cache[d][v] \in CK
      BY DEF GroupTypeOK, TypeOK
    <2>0. v \in 0..MaxVersion
      BY BoundAssumption DEF Versions
    <2>2. [msg[m] EXCEPT !.pc = "sealed", !.dev = d, !.ck = cache[d][v], !.version = v]
            \in Message
      BY <2>0, <2>1, MessageUpdateType
    <2> QED
      BY <1>1, <1>3, <2>2 DEF Seal, GroupTypeOK
  <1>4. ASSUME NEW m \in Messages, Authorize(m)
        PROVE  GroupTypeOK'
    <2>1. /\ [msg[m] EXCEPT !.pc = "authorized"] \in Message
          /\ [msg[m] EXCEPT !.pc = "refused"] \in Message
      BY DEF GroupTypeOK, Message
    <2> QED
      BY <1>1, <1>4, <2>1 DEF Authorize, GroupTypeOK
  <1>5. ASSUME NEW m \in Messages, Store(m)
        PROVE  GroupTypeOK'
    <2>1. {req[q].target : q \in Rotations} \in SUBSET Users
      BY DEF GroupTypeOK, TypeOK, Rotations, Request
    <2>2. [msg[m] EXCEPT !.pc = "created", !.evicted = {req[q].target : q \in Rotations}]
            \in Message
      <3>1. msg[m] \in Message
        BY DEF GroupTypeOK
      <3> QED
        BY <2>1, <3>1 DEF Message
    <2> QED
      BY <1>1, <1>5, <2>2 DEF Store, GroupTypeOK
  <1>6. ASSUME NEW m \in Messages, Address(m)
        PROVE  GroupTypeOK'
    <2>1. Recipients \in SUBSET Users
      BY DEF Recipients
    <2>2. [msg[m] EXCEPT !.pc = "addressed", !.to = Recipients] \in Message
      <3>1. msg[m] \in Message
        BY DEF GroupTypeOK
      <3> QED
        BY <2>1, <3>1 DEF Message
    <2> QED
      BY <1>1, <1>6, <2>2 DEF Address, GroupTypeOK
  <1>7. ASSUME NEW m \in Messages, Emit(m)
        PROVE  GroupTypeOK'
    <2>1. [msg[m] EXCEPT !.pc = "sent"] \in Message
      BY DEF GroupTypeOK, Message
    <2>2. seen' \in [Devices -> SUBSET Messages]
      BY <1>7 DEF Emit, GroupTypeOK
    <2> QED
      BY <1>1, <1>7, <2>1, <2>2 DEF Emit, GroupTypeOK
  <1>8. ASSUME NEW d \in Devices,
               Connect(d) \/ Disconnect(d) \/ BeginHistory(d) \/ FinishHistory(d)
        PROVE  GroupTypeOK'
    BY <1>1, <1>8
       DEF Connect, Disconnect, BeginHistory, FinishHistory, GroupTypeOK, Stored
  <1> QED
    BY <1>2, <1>3, <1>4, <1>5, <1>6, <1>7, <1>8 DEF GroupNext, KeysStep, groupVars

(* Every reachable state of GroupMessages has the declared types.          *)
THEOREM GroupTypeCorrect == GroupSpec => []GroupTypeOK
  BY GroupInitType, GroupTypeStep, PTL DEF GroupSpec

(***************************************************************************)
(* The messages.                                                           *)
(***************************************************************************)

(* What a message was sealed with stays with it.                           *)
LEMMA MessageMoves ==
  ASSUME GroupTypeOK, [GroupNext]_groupVars, NEW m \in Messages
  PROVE  \/ \E d \in Devices, v \in Versions : Seal(m, d, v)
         \/ /\ msg'[m].dev = msg[m].dev /\ msg'[m].ck = msg[m].ck
            /\ msg'[m].version = msg[m].version
            /\ msg'[m].pc # "none" => msg[m].pc # "none"
  <1>1. msg[m] \in Message /\ msg \in [Messages -> Message]
    BY DEF GroupTypeOK
  <1>2. CASE msg'[m] = msg[m]
    BY <1>2
  <1>3. CASE \E q \in Messages, d \in Devices, v \in Versions : Seal(q, d, v)
    BY <1>1, <1>2, <1>3 DEF Seal
  <1>4. CASE \E q \in Messages : Authorize(q) \/ Store(q) \/ Address(q) \/ Emit(q)
    <2>1. PICK q \in Messages : Authorize(q) \/ Store(q) \/ Address(q) \/ Emit(q)
      BY <1>4
    <2>2. CASE Authorize(q)
      BY <1>1, <1>2, <2>2 DEF Authorize, Message
    <2>3. CASE Store(q)
      BY <1>1, <1>2, <2>3 DEF Store, Message
    <2>4. CASE Address(q)
      BY <1>1, <1>2, <2>4 DEF Address, Message
    <2>5. CASE Emit(q)
      BY <1>1, <1>2, <2>5 DEF Emit, Message
    <2> QED
      BY <2>1, <2>2, <2>3, <2>4, <2>5
  <1> QED
    BY <1>2, <1>3, <1>4
       DEF GroupNext, groupVars, messageVars, KeysStep, Connect, Disconnect,
           BeginHistory, FinishHistory

LEMMA MessagesKeepKeysStep ==
  ASSUME IInv, GroupTypeOK, KeysWereSealedAt, FounderKeys, MessagesKeepKeys,
         TypeOK', [GroupNext]_groupVars
  PROVE  MessagesKeepKeys'
  <1> SUFFICES ASSUME NEW m \in Messages, msg'[m].pc # "none"
               PROVE  /\ msg'[m].ck # NoCK /\ msg'[m].version \in Versions
                      /\ SealedAt(Owner[msg[m].dev], msg[m].ck, msg[m].version)'
                      /\ IntactFounder(Owner[msg[m].dev])' =>
                           keys'[Owner[msg'[m].dev]][msg'[m].version].ck = msg'[m].ck
    BY DEF MessagesKeepKeys
  <1>1. [Next]_vars
    BY KeysMoveAlone
  <1>2. ASSUME NEW d \in Devices, NEW v \in Versions, Seal(m, d, v)
        PROVE  /\ msg'[m].ck # NoCK /\ msg'[m].version \in Versions
               /\ SealedAt(Owner[msg[m].dev], msg[m].ck, msg[m].version)'
               /\ IntactFounder(Owner[msg[m].dev])' =>
                    keys'[Owner[msg'[m].dev]][msg'[m].version].ck = msg'[m].ck
    <2>1. /\ msg'[m].dev = d /\ msg'[m].ck = cache[d][v] /\ msg'[m].version = v
          /\ cache[d][v] # NoCK
      BY <1>2 DEF Seal, GroupTypeOK, Message
    <2>2. UNCHANGED vars /\ Owner[d] \in Users
      BY <1>2, OwnerAssumption DEF Seal
    <2>3. SealedAt(Owner[d], cache[d][v], v)
      BY <2>1 DEF KeysWereSealedAt
    <2>4. IntactFounder(Owner[d]) => keys[Owner[d]][v].ck = cache[d][v]
      BY <2>1, <2>2 DEF FounderKeys
    <2> QED
      BY <2>1, <2>2, <2>3, <2>4
         DEF vars, SealedAt, Committed, IntactFounder, Creates
  <1>3. ASSUME msg'[m].dev = msg[m].dev, msg'[m].ck = msg[m].ck,
               msg'[m].version = msg[m].version, msg[m].pc # "none"
        PROVE  /\ msg'[m].ck # NoCK /\ msg'[m].version \in Versions
               /\ SealedAt(Owner[msg[m].dev], msg[m].ck, msg[m].version)'
               /\ IntactFounder(Owner[msg[m].dev])' =>
                    keys'[Owner[msg'[m].dev]][msg'[m].version].ck = msg'[m].ck
    <2> DEFINE g == Owner[msg[m].dev]
               k == msg[m].ck
               v == msg[m].version
    <2>1. /\ k # NoCK /\ v \in Versions /\ SealedAt(g, k, v)
          /\ IntactFounder(g) => keys[g][v].ck = k
      BY <1>3 DEF MessagesKeepKeys
    <2>2. g \in Users
      BY OwnerAssumption DEF GroupTypeOK, Message
    <2>3. PICK r \in Committed : req[r].ck = k /\ g \in req[r].to /\ req[r].version = v
      BY <2>1 DEF SealedAt
    <2>4. r \in Committed' /\ req'[r] = req[r]
      BY <1>1, CommittedStay
    <2>5. SealedAt(Owner[msg[m].dev], msg[m].ck, msg[m].version)'
      BY <1>3, <2>3, <2>4 DEF SealedAt
    <2>6. ASSUME IntactFounder(Owner[msg[m].dev])'
          PROVE  keys'[g][v].ck = k
      <3>1. \A q \in Requests : ~CreateCommit(q)
        BY <2>3, NothingBeforeCreation
      <3>2. PICK h \in Users : h = g
        BY <2>2
      <3>3. IntactFounder(h)'
        BY <1>3, <2>6, <3>2 DEF IntactFounder
      <3>4. IntactFounder(h) /\ identity'[h] = identity[h]
        BY <1>1, <3>1, <3>3, IntactBefore
      <3>5. keys[h][v].ck = k /\ keys[h][v] # NoWrap
        BY <2>1, <3>2, <3>4 DEF NoWrap, IntactFounder
      <3> QED
        BY <1>1, <2>1, <3>2, <3>4, <3>5, WrapsStayHolds DEF WrapsStay
    <2> QED
      BY <1>3, <2>1, <2>5, <2>6
  <1> QED
    BY <1>2, <1>3, MessageMoves

(***************************************************************************)
(* The invariant and the properties.                                       *)
(***************************************************************************)

LEMMA GroupInvInit == GroupInit => GroupInv
  <1> SUFFICES ASSUME GroupInit
               PROVE  GroupInv
    OBVIOUS
  <1>1. IInv /\ GroupTypeOK
    BY InitIInv, GroupInitType DEF GroupInit
  <1>2. KeysWereSealedAt /\ FounderKeys
    BY DEF GroupInit, Init, KeysWereSealedAt, FounderKeys, NoWrap, Creates, Unsent,
           Blank
  <1>3. MessagesKeepKeys
    BY DEF GroupInit, MessagesKeepKeys, NoMessage
  <1> QED
    BY <1>1, <1>2, <1>3 DEF GroupInv

LEMMA GroupInvStep == GroupInv /\ [GroupNext]_groupVars => GroupInv'
  <1> SUFFICES ASSUME GroupInv, [GroupNext]_groupVars
               PROVE  GroupInv'
    OBVIOUS
  <1> USE DEF GroupInv
  <1>1. [Next]_vars
    BY KeysMoveAlone
  <1>2. IInv' /\ GroupTypeOK' /\ TypeOK'
    BY <1>1, IInvStep, GroupTypeStep DEF IInv
  <1>3. KeysWereSealedAt'
    BY <1>1, <1>2, KeysWereSealedAtStep
  <1>4. FounderKeys'
    BY <1>1, <1>2, FounderKeysStep
  <1>5. MessagesKeepKeys'
    BY <1>2, MessagesKeepKeysStep
  <1> QED
    BY <1>2, <1>3, <1>4, <1>5

(* The conjunction behind what follows holds in every reachable state.     *)
THEOREM GroupInductive == GroupSpec => []GroupInv
  BY GroupInvInit, GroupInvStep, PTL DEF GroupSpec

(* A message that an intact founder's device stored, under whatever        *)
(* version it believed in, opens for every other intact founder: sending   *)
(* (sendMessage) and rotating (removeMember) may race.                     *)
THEOREM FoundersReadMessages == GroupSpec => []FoundersReadEachOther
  <1>1. GroupInv => FoundersReadEachOther
    <2> SUFFICES ASSUME GroupInv, NEW m \in Stored,
                        IntactFounder(Owner[msg[m].dev]),
                        NEW h \in Users, IntactFounder(h)
                 PROVE  keys[h][msg[m].version] =
                          [ck |-> msg[m].ck, ik |-> identity[h]]
      BY DEF FoundersReadEachOther
    <2> DEFINE g == Owner[msg[m].dev]
               v == msg[m].version
    <2>1. IInv /\ GroupTypeOK /\ FounderKeys /\ MessagesKeepKeys
      BY DEF GroupInv
    <2>2. m \in Messages /\ msg[m].pc # "none" /\ g \in Users
      BY <2>1, OwnerAssumption DEF Stored, GroupTypeOK, Message
    <2>3. /\ msg[m].ck # NoCK /\ v \in Versions
          /\ keys[g][v].ck = msg[m].ck
      BY <2>1, <2>2 DEF MessagesKeepKeys
    <2>4. v <= currentKeyVersion
      BY <2>1, <2>2, <2>3 DEF FounderKeys
    <2>5. v \in 1..currentKeyVersion
      BY <2>1, <2>3, <2>4, BoundAssumption DEF Versions, IInv, TypeOK
    <2>6. keys[g][v].ck = keys[h][v].ck /\ keys[h][v].ik = identity[h]
      BY <2>1, <2>2, <2>5, FoundersShare DEF FoundersShareEveryVersion
    <2>7. keys[h][v] \in Wrap
      BY <2>1, <2>3 DEF IInv, TypeOK
    <2> QED
      BY <2>3, <2>6, <2>7 DEF Wrap
  <1> QED
    BY <1>1, GroupInductive, PTL

(* A device of a removed member opens a later message only when its sender *)
(* still used a key older than the removal, or when an add carried the     *)
(* newer key to that member.                                               *)
THEOREM EvictedReadOldKeys == GroupSpec => []EvictedOpenOnlyOldKeys
  <1>1. GroupInv => EvictedOpenOnlyOldKeys
    <2> SUFFICES ASSUME GroupInv, NEW g \in Users, IntactFounder(g),
                        NEW m \in Stored, NEW d \in Devices, CanOpen(d, m),
                        NEW q \in Rotations, req[q].target = Owner[d],
                        ~(msg[m].version < req[q].version)
                 PROVE  \E a \in Adds : req[a].ck = msg[m].ck /\ Owner[d] \in req[a].to
      BY DEF EvictedOpenOnlyOldKeys
    <2> DEFINE v == msg[m].version
    <2>1. TypeOK /\ RequestsWellFormed /\ EvictionsSeen /\ KeysWereSealedAt
      BY DEF GroupInv, IInv
    <2>2. m \in Messages /\ msg[m].pc # "none"
      BY DEF Stored
    <2>3. msg[m].ck # NoCK /\ v \in Versions /\ cache[d][v] = msg[m].ck
      BY <2>2 DEF GroupInv, MessagesKeepKeys, CanOpen
    <2>4. PICK p \in Committed :
            req[p].ck = msg[m].ck /\ Owner[d] \in req[p].to /\ req[p].version = v
      BY <2>1, <2>3 DEF KeysWereSealedAt, SealedAt
    <2>5. /\ p \in Requests /\ req[p].pc = "committed"
          /\ q \in Requests /\ req[q].version >= 2 /\ req[q].version \in Nat
          /\ v \in Nat
      BY <2>1, <2>3, BoundAssumption
         DEF Committed, Rotations, RequestsWellFormed, TypeOK, Request, Versions
    <2>6. req[p].op # "create"
      BY <2>1, <2>4, <2>5 DEF KeysWereSealedAt, Creates
    <2>7. req[p].op # "remove"
      BY <2>1, <2>4, <2>5 DEF EvictionsSeen, Rotations
    <2>8. req[p].op = "add"
      BY <2>1, <2>5, <2>6, <2>7 DEF TypeOK, Request, RequestsWellFormed
    <2> QED
      BY <2>4, <2>5, <2>8 DEF Adds
  <1> QED
    BY <1>1, GroupInductive, PTL
================================================================================

------------------------------ MODULE ChatMessages ------------------------------
(***************************************************************************)
(* The messages of one direct chat as one client shows them.               *)
(*                                                                         *)
(* Four sources write the list: the answer of a history request, which     *)
(* replaces it; live messages, appended after they are decrypted; the      *)
(* answer of the client's own send; and the events that delete or clear.   *)
(* Answers and events travel separately, and every handler awaits.         *)
(* Sources: client/src/components/chat/ChatView.tsx, ChatList.tsx and      *)
(* ChatHeader.tsx, client/src/store/chatStore.ts, server/src/services/     *)
(* message.service.ts and conversation.service.ts, server/src/controllers/ *)
(* message.controller.ts and conversation.controller.ts.                   *)
(*                                                                         *)
(* Messages are numbered in the order the server stores them.              *)
(*                                                                         *)
(* Definitions marked "Bug:" are not part of the specification: each is    *)
(* the next definition with a plausible mistake, for checking that the     *)
(* properties would notice it.                                             *)
(***************************************************************************)
EXTENDS Naturals, FiniteSets, Sequences, SequencesExt

CONSTANTS
  MaxMessages,  \* bound on the messages sent
  Loads,        \* slots for history requests in flight
  MaxEvents     \* bound on the events under way when a history is cleared

ASSUME MaxMessagesAssumption == MaxMessages \in Nat \ {0}
ASSUME MaxEventsAssumption == MaxEvents \in Nat

VARIABLES
  stored,      \* number of messages in the table
  author,      \* who sent each: the user or the peer
  erased,      \* messages with deletedAt
  clearedAt,   \* the user's clearedAt: the last message before it
  emitting,    \* a clear for both is stored and not yet announced
  linked,      \* the client's socket is up
  events,      \* events on their way to the client, in order
  replies,     \* own messages whose POST is not answered yet
  clearing,    \* a POST .../clear of this client is under way
  list,        \* messages[chatId]: the ids in order, and which are deleted
  load,        \* history requests in flight
  decrypting,  \* live copies of a message being decrypted
  told,        \* deletions the client was told of (for the properties)
  raced,       \* deleted messages shown again (for the properties)
  unseen       \* messages the client missed or dropped (for the properties)

serverVars == <<stored, author, erased, clearedAt>>
netVars    == <<emitting, linked, events, replies, clearing>>
viewVars   == <<list, load, decrypting>>
ghostVars  == <<told, raced, unseen>>
chatVars   == <<stored, author, erased, clearedAt, emitting, linked, events,
                replies, clearing, list, load, decrypting, told, raced, unseen>>

Ids == 1..MaxMessages
Event == [kind : {"new", "deleted", "cleared"}, id : 0..MaxMessages]
Entry == [id : Ids, deleted : BOOLEAN]

Shown == {e.id : e \in ToSet(list)}
Visible == {i \in 1..stored : i \notin erased /\ i > clearedAt}

ChatTypeOK ==
  /\ stored \in 0..MaxMessages /\ clearedAt \in 0..MaxMessages
  /\ author \in [Ids -> {"me", "peer"}]
  /\ erased \subseteq Ids
  /\ emitting \in BOOLEAN /\ events \in Seq(Event)
  /\ linked \in BOOLEAN
  /\ replies \subseteq Ids /\ clearing \in {"no", "asked", "shared"}
  /\ list \in Seq(Entry)
  /\ load \in [Loads -> [pc : {"idle", "asked", "answered"}, ids : SUBSET Ids]]
  /\ decrypting \in [Ids -> Nat]
  /\ told \subseteq Ids /\ raced \subseteq Ids /\ unseen \subseteq Ids

NoLoad    == [pc |-> "idle", ids |-> {}]

ChatInit ==
  /\ stored \in {0, 1} /\ erased = {} /\ clearedAt = 0
  /\ author = [i \in Ids |-> "peer"]
  /\ emitting = FALSE /\ events = <<>> /\ replies = {} /\ clearing = "no"
  /\ linked = TRUE
  /\ list = <<>>
  /\ load = [l \in Loads |-> NoLoad]
  /\ decrypting = [i \in Ids |-> 0]
  /\ told = {} /\ raced = {} /\ unseen = 1..stored

(***************************************************************************)
(* The server: sendMessage, deleteMessage, clearHistory and broadcast.     *)
(***************************************************************************)

(* broadcast: the conversation's room and the user's own room each carry a *)
(* copy; nothing is kept for a client that is not connected.  The await    *)
(* between the row and the emit is part of the event's time on the way.    *)
Broadcast(kind, i) ==
  events' = IF linked THEN events \o <<[kind |-> kind, id |-> i], [kind |-> kind, id |-> i]>>
                      ELSE events

Store(who) ==
  LET i == stored + 1 IN
  /\ i \in Ids
  /\ stored' = i
  /\ author' = [author EXCEPT ![i] = who]
  /\ Broadcast("new", i)
  /\ replies' = IF who = "me" THEN replies \union {i} ELSE replies
  /\ unseen' = IF who = "peer" /\ ~linked THEN unseen \union {i} ELSE unseen
  /\ UNCHANGED <<erased, clearedAt, emitting, linked, clearing, viewVars, told, raced>>

(* By the author, from this client or another one.                         *)
Erase(i) ==
  /\ i \in 1..stored \ erased
  /\ erased' = erased \union {i}
  /\ Broadcast("deleted", i)
  /\ UNCHANGED <<stored, author, clearedAt, emitting, linked, replies, clearing,
                 viewVars, ghostVars>>

(* The peer clears the chat for both.                                      *)
PeerClears ==
  /\ clearedAt < stored /\ ~emitting
  /\ clearedAt' = stored
  /\ emitting' = TRUE
  /\ UNCHANGED <<stored, author, erased, linked, events, replies, clearing,
                 viewVars, ghostVars>>

(* emitCleared, when the update is answered.                               *)
EmitCleared ==
  /\ emitting /\ Len(events) < MaxEvents
  /\ emitting' = FALSE
  /\ events' = IF linked THEN Append(events, [kind |-> "cleared", id |-> 0]) ELSE events
  /\ UNCHANGED <<serverVars, linked, replies, clearing, viewVars, ghostVars>>

Disconnect ==
  /\ linked
  /\ linked' = FALSE /\ events' = <<>>
  /\ unseen' = unseen \union {e.id : e \in {f \in ToSet(events) : f.kind = "new"}}
  /\ UNCHANGED <<serverVars, emitting, replies, clearing, viewVars, told, raced>>

Reconnect ==
  /\ ~linked
  /\ linked' = TRUE
  /\ UNCHANGED <<serverVars, emitting, events, replies, clearing, viewVars, ghostVars>>

(***************************************************************************)
(* The store, and the socket handlers of ChatList.                         *)
(***************************************************************************)

(* Bug: the second copy replaces the first.                                *)
Upsert(l, i) == Append(SelectSeq(l, LAMBDA e : e.id # i), [id |-> i, deleted |-> FALSE])

(* Bug: messages that finish out of order are taken for known ones.        *)
OnlyNewer(l, i) ==
  IF l # <<>> /\ Last(l).id >= i THEN l ELSE Append(l, [id |-> i, deleted |-> FALSE])

addMessage(l, i) ==
  IF \E e \in ToSet(l) : e.id = i THEN l ELSE Append(l, [id |-> i, deleted |-> FALSE])

MarkDeleted(l, i) ==
  [n \in DOMAIN l |-> IF l[n].id = i THEN [l[n] EXCEPT !.deleted = TRUE] ELSE l[n]]

(* Own echoes are skipped, also of what another device of the user sent.   *)
Accepts(i) == author[i] = "peer"

OnNew ==
  LET ev == Head(events) IN
  /\ events # <<>> /\ ev.kind = "new"
  /\ events' = Tail(events)
  /\ decrypting' = IF Accepts(ev.id) THEN [decrypting EXCEPT ![ev.id] = @ + 1]
                                     ELSE decrypting
  /\ UNCHANGED <<serverVars, emitting, linked, replies, clearing, list, load, ghostVars>>

(* decryptMessage may fetch a key first, so copies finish in any order.    *)
Decrypted(i) ==
  /\ decrypting[i] > 0
  /\ decrypting' = [decrypting EXCEPT ![i] = @ - 1]
  /\ list' = addMessage(list, i)
  /\ UNCHANGED <<serverVars, netVars, load, ghostVars>>

(* A message that is not in the list yet has nothing to mark.              *)
OnDeleted ==
  LET ev == Head(events) IN
  /\ events # <<>> /\ ev.kind = "deleted"
  /\ events' = Tail(events)
  /\ list' = MarkDeleted(list, ev.id)
  /\ told' = told \union {ev.id}
  /\ raced' = IF ev.id \notin Shown /\ (decrypting[ev.id] > 0 \/ ev.id \in replies)
              THEN raced \union {ev.id} ELSE raced
  /\ UNCHANGED <<serverVars, emitting, linked, replies, clearing, load, decrypting, unseen>>

(* Deleted messages that a late copy or answer will add again.             *)
Returning == {i \in told : decrypting[i] > 0 \/ i \in replies}

Emptied ==
  /\ list' = <<>>
  /\ unseen' = unseen \union Shown
  /\ raced' = raced \union Returning

(* The list is emptied, newer messages included.                           *)
OnCleared ==
  /\ events # <<>> /\ Head(events).kind = "cleared"
  /\ events' = Tail(events)
  /\ Emptied
  /\ UNCHANGED <<serverVars, emitting, linked, replies, clearing, load, decrypting, told>>

(* handleSend and handleSendMedia.  The answer may be lost; a message the  *)
(* user sends from another device is one this client gets no answer for.   *)
Answered(i, arrives) ==
  /\ i \in replies
  /\ replies' = replies \ {i}
  /\ list' = IF arrives THEN addMessage(list, i) ELSE list
  /\ unseen' = IF arrives THEN unseen ELSE unseen \union {i}
  /\ UNCHANGED <<serverVars, emitting, linked, events, clearing, load, decrypting, told, raced>>

(***************************************************************************)
(* fetchHistory, whenever the chat becomes the active one, and getMessages. *)
(***************************************************************************)

Open(l) ==
  /\ load[l] = NoLoad
  /\ load' = [load EXCEPT ![l].pc = "asked"]
  /\ UNCHANGED <<serverVars, netVars, list, decrypting, ghostVars>>

(* The newest 50 that are neither deleted nor cleared; a bounded instance  *)
(* never has more.                                                         *)
HistoryRead(l) ==
  /\ load[l].pc = "asked"
  /\ load' = [load EXCEPT ![l] = [pc |-> "answered", ids |-> Visible]]
  /\ UNCHANGED <<serverVars, netVars, list, decrypting, ghostVars>>

HistoryFails(l) ==
  /\ load[l].pc # "idle"
  /\ load' = [load EXCEPT ![l] = NoLoad]
  /\ UNCHANGED <<serverVars, netVars, list, decrypting, ghostVars>>

(* The one sequence of these messages in the order of their rows.          *)
Ascending(S) == {s \in [1..Cardinality(S) -> S] :
                   ToSet(s) = S /\ \A m, n \in DOMAIN s : m < n => s[m] < s[n]}

(* setMessages, once every message is decrypted: the list becomes what the *)
(* server read, whatever came in since.                                    *)
HistoryShown(l) ==
  LET ids == load[l].ids IN
  /\ load[l].pc = "answered"
  /\ load' = [load EXCEPT ![l] = NoLoad]
  /\ \E asc \in Ascending(ids) :
       list' = [n \in DOMAIN asc |-> [id |-> asc[n], deleted |-> FALSE]]
  /\ raced' = raced \union (ids \intersect told) \union (Returning \ ids)
  /\ unseen' = (unseen \union Shown) \ ids
  /\ UNCHANGED <<serverVars, netVars, decrypting, told>>

(***************************************************************************)
(* doClear.                                                                *)
(***************************************************************************)

Clear(both) ==
  /\ clearing = "no"
  /\ Emptied
  /\ clearing' = IF both THEN "shared" ELSE "asked"
  /\ UNCHANGED <<serverVars, emitting, linked, events, replies, load,
                 decrypting, told>>

ClearStored ==
  /\ clearing = "asked" \/ (clearing = "shared" /\ ~emitting)
  /\ clearedAt' = stored
  /\ emitting' = (emitting \/ clearing = "shared")
  /\ clearing' = "no"
  /\ UNCHANGED <<stored, author, erased, linked, events, replies, viewVars,
                 ghostVars>>

(* A failed request is logged; the list stays empty.                       *)
ClearFails ==
  /\ clearing \in {"asked", "shared"}
  /\ clearing' = "no"
  /\ UNCHANGED <<serverVars, emitting, linked, events, replies, viewVars, ghostVars>>

ChatNext ==
  \/ \E who \in {"me", "peer"} : Store(who)
  \/ \E i \in Ids : Erase(i) \/ Decrypted(i)
  \/ \E i \in Ids, arrives \in BOOLEAN : Answered(i, arrives)
  \/ PeerClears \/ EmitCleared \/ Disconnect \/ Reconnect
  \/ OnNew \/ OnDeleted \/ OnCleared
  \/ \E l \in Loads : Open(l) \/ HistoryRead(l) \/ HistoryFails(l) \/ HistoryShown(l)
  \/ \E both \in BOOLEAN : Clear(both)
  \/ ClearStored \/ ClearFails

ChatSpec == ChatInit /\ [][ChatNext]_chatVars

(***************************************************************************)
(* Properties.                                                             *)
(***************************************************************************)

(* A message whose deletion the client was told of is not shown as live.   *)
(* The exceptions are recorded: a history answer read before the deletion  *)
(* and applied after it, and a copy still being decrypted or a send not    *)
(* yet answered when the event comes.                                      *)
DeletedStaysDeleted ==
  \A e \in ToSet(list) : e.id \in told /\ ~e.deleted => e.id \in raced

Quiet ==
  /\ emitting = FALSE /\ events = <<>> /\ replies = {} /\ clearing = "no"
  /\ \A i \in Ids : decrypting[i] = 0
  /\ \A l \in Loads : load[l] = NoLoad

(* When everything has arrived, the list holds every message the server    *)
(* would show, except those from before the login, sent while the socket   *)
(* was down, own ones this client has no answer for, and those a history   *)
(* answer or a clear took out of the list.                                 *)
NothingElseMissing == Quiet => Visible \subseteq Shown \union unseen

(* What they rest on.  A message is announced before its deletion is, and  *)
(* only messages that were stored are deleted, announced or answered.      *)
EventsInOrder ==
  /\ erased \subseteq 1..stored /\ told \subseteq erased /\ replies \subseteq 1..stored
  /\ \A n \in DOMAIN events : events[n].kind \in {"new", "deleted"} => events[n].id \in 1..stored
  /\ \A n \in DOMAIN events : events[n].kind = "deleted" => events[n].id \in erased
  /\ \A n \in DOMAIN events : events[n].kind = "new" =>
       /\ events[n].id \notin told
       /\ \A m \in 1..n : events[m].kind = "deleted" => events[m].id # events[n].id

(* What the client was told to delete comes back only when it raced.       *)
ToldAreListed == \A i \in told \ raced : decrypting[i] > 0 \/ i \in replies => i \in Shown

(* Every stored message is in the list, missed, or on its way.             *)
OnItsWay(i) ==
  \/ i \in replies \/ decrypting[i] > 0
  \/ author[i] = "peer" /\ \E n \in DOMAIN events : events[n] = [kind |-> "new", id |-> i]
StoredAreFollowed == \A i \in 1..stored : i \in Shown \union unseen \/ OnItsWay(i)

ChatInv ==
  /\ ChatTypeOK /\ EventsInOrder
  /\ ToldAreListed /\ DeletedStaysDeleted
  /\ StoredAreFollowed
=================================================================================

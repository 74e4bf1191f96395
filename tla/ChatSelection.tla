------------------------------ MODULE ChatSelection ------------------------------
(***************************************************************************)
(* Selecting messages of the open chat and deleting them, for the user     *)
(* alone or for everyone.                                                  *)
(*                                                                         *)
(* A press of half a second toggles the message it began on; a drag gives  *)
(* the messages between two positions of the list what it gives the first. *)
(* A confirmed deletion closes the dialog at once and then works through   *)
(* its messages with one request each, so that a second one can be         *)
(* confirmed meanwhile; messages deleted for the user alone are ids in     *)
(* localStorage.  Source: client/src/components/chat/ChatView.tsx.         *)
(*                                                                         *)
(* Definitions marked "Bug:" are not part of the specification: each is    *)
(* the next definition with a plausible mistake, for checking that the     *)
(* properties would notice it.                                             *)
(***************************************************************************)
EXTENDS Naturals, Sequences, SequencesExt

CONSTANTS
  Items,      \* the messages of the chat
  NoItem,     \* no message
  Confirms    \* slots for confirmed deletions in flight

ASSUME NoItemAssumption == NoItem \notin Items

VARIABLES
  items,      \* chatMessages, in order
  selected,   \* selectedIds
  single,     \* singleDeleteId, from the context menu
  asking,     \* showDeleteConfirm
  tick,       \* deleteForEveryone
  kept,       \* deleted_msgs_<user> in localStorage
  hidden,     \* locallyDeletedIds
  confirm,    \* handleDeleteConfirm calls in flight
  deletedHere, \* messages the server deleted on a request of this client
  chosen,     \* messages the user confirmed the deletion of (for the property)
  overlapped  \* two deletions ran at once (for the property)

selectionVars == <<items, selected, single, asking, tick, kept, hidden,
                   confirm, deletedHere, chosen, overlapped>>

NoDeletion == [busy |-> FALSE, left |-> {}, local |-> {}]

SelectionTypeOK ==
  /\ items \in Seq(Items)
  /\ selected \subseteq Items /\ single \in Items \union {NoItem}
  /\ asking \in BOOLEAN /\ tick \in BOOLEAN
  /\ kept \subseteq Items /\ hidden \subseteq Items
  /\ confirm \in [Confirms -> [busy : BOOLEAN, left : SUBSET Items, local : SUBSET Items]]
  /\ deletedHere \subseteq Items /\ chosen \subseteq Items /\ overlapped \in BOOLEAN

SelectionInit ==
  /\ items = <<>>
  /\ selected = {} /\ single = NoItem /\ asking = FALSE /\ tick = FALSE
  /\ kept = {} /\ hidden = {}
  /\ confirm = [c \in Confirms |-> NoDeletion]
  /\ deletedHere = {} /\ chosen = {} /\ overlapped = FALSE

visibleMessages == SelectSeq(items, LAMBDA i : i \notin hidden)

(* The list is written by history answers, live messages and clears.       *)
ItemsChange ==
  /\ \/ \E i \in Items \ ToSet(items) : items' = Append(items, i)
     \/ items # <<>> /\ items' = <<>>
  /\ UNCHANGED <<selected, single, asking, tick, kept, hidden, confirm,
                 deletedHere, chosen, overlapped>>

(* The effect on activeChatId: what localStorage holds is hidden again, and *)
(* the selection is dropped; the tick stays.                               *)
Reopen ==
  /\ hidden' = kept /\ selected' = {}
  /\ UNCHANGED <<items, single, asking, tick, kept, confirm, deletedHere,
                 chosen, overlapped>>

(***************************************************************************)
(* Mouse and touch.                                                        *)
(***************************************************************************)

(* Half a second without a move toggles one message.                       *)
LongPress(i) ==
  /\ ~asking /\ i \in ToSet(visibleMessages)
  /\ selected' = IF i \in selected THEN selected \ {i} ELSE selected \union {i}
  /\ UNCHANGED <<items, single, asking, tick, kept, hidden, confirm,
                 deletedHere, chosen, overlapped>>

(* The message a drag begins on decides what it does to every message up   *)
(* to the one it has reached.                                              *)
DragSelection(m, n) ==
  LET reached == {i \in Items : \E k \in DOMAIN visibleMessages :
                    /\ visibleMessages[k] = i
                    /\ (m <= k /\ k <= n) \/ (n <= k /\ k <= m)} IN
  /\ ~asking /\ {m, n} \subseteq DOMAIN visibleMessages
  /\ selected' = IF visibleMessages[m] \in selected THEN selected \ reached
                                                    ELSE selected \union reached
  /\ UNCHANGED <<items, single, asking, tick, kept, hidden, confirm,
                 deletedHere, chosen, overlapped>>

(***************************************************************************)
(* The dialog.                                                             *)
(***************************************************************************)

(* The bar of the selection, or the context menu of one message.           *)
AskSelected ==
  /\ ~asking /\ selected # {}
  /\ asking' = TRUE
  /\ UNCHANGED <<items, selected, single, tick, kept, hidden, confirm,
                 deletedHere, chosen, overlapped>>

AskOne(i) ==
  /\ ~asking /\ i \in ToSet(visibleMessages)
  /\ asking' = TRUE /\ single' = i
  /\ UNCHANGED <<items, selected, tick, kept, hidden, confirm, deletedHere,
                 chosen, overlapped>>

TickBox ==
  /\ asking
  /\ tick' = ~tick
  /\ UNCHANGED <<items, selected, single, asking, kept, hidden, confirm,
                 deletedHere, chosen, overlapped>>

(* Cancel and the backdrop: the tick is not taken back.                    *)
CancelDialog ==
  /\ asking
  /\ asking' = FALSE /\ single' = NoItem
  /\ UNCHANGED <<items, selected, tick, kept, hidden, confirm, deletedHere,
                 chosen, overlapped>>

(* Copy, and the cross of the selection bar.                               *)
DropSelection ==
  /\ ~asking /\ selected # {}
  /\ selected' = {}
  /\ UNCHANGED <<items, single, asking, tick, kept, hidden, confirm,
                 deletedHere, chosen, overlapped>>

(***************************************************************************)
(* handleDeleteConfirm.                                                    *)
(***************************************************************************)

(* Bug: the list is built from nothing and written over the old one.       *)
FromScratch == {}

ReadKept == kept

(* To the first await; without the tick there is none.                     *)
ConfirmDelete(c) ==
  LET ids == IF single # NoItem THEN {single} ELSE selected IN
  /\ asking /\ ~confirm[c].busy
  /\ asking' = FALSE /\ single' = NoItem /\ selected' = {}
  /\ chosen' = chosen \union ids
  /\ overlapped' = (overlapped \/ \E d \in Confirms : confirm[d].busy)
  /\ IF tick
     THEN /\ confirm' = [confirm EXCEPT ![c] =
                           [busy |-> TRUE, left |-> ids, local |-> ReadKept]]
          /\ UNCHANGED <<kept, hidden, tick>>
     ELSE /\ kept' = ReadKept \union ids
          /\ hidden' = kept'
          /\ tick' = FALSE
          /\ UNCHANGED confirm
  /\ UNCHANGED <<items, deletedHere>>

ServerDeletes(c, i) ==
  /\ confirm[c].busy /\ i \in confirm[c].left
  /\ deletedHere' = deletedHere \union {i}
  /\ confirm' = [confirm EXCEPT ![c].left = @ \ {i}]
  /\ UNCHANGED <<items, selected, single, asking, tick, kept, hidden,
                 chosen, overlapped>>

(* Another author's message, or a request that failed.                     *)
FallBack(c, i) ==
  /\ confirm[c].busy /\ i \in confirm[c].left
  /\ confirm' = [confirm EXCEPT ![c] =
                   [busy |-> TRUE, left |-> @.left \ {i}, local |-> @.local \union {i}]]
  /\ UNCHANGED <<items, selected, single, asking, tick, kept, hidden,
                 deletedHere, chosen, overlapped>>

(* The list read before the requests is written back.                      *)
ConfirmEnds(c) ==
  /\ confirm[c].busy /\ confirm[c].left = {}
  /\ kept' = confirm[c].local /\ hidden' = confirm[c].local
  /\ tick' = FALSE
  /\ confirm' = [confirm EXCEPT ![c] = NoDeletion]
  /\ UNCHANGED <<items, selected, single, asking, deletedHere, chosen, overlapped>>

SelectionNext ==
  \/ ItemsChange \/ Reopen
  \/ \E m, n \in 1..Len(items) : DragSelection(m, n)
  \/ AskSelected \/ TickBox \/ CancelDialog \/ DropSelection
  \/ \E i \in Items : AskOne(i) \/ LongPress(i)
  \/ \E c \in Confirms : ConfirmDelete(c) \/ ConfirmEnds(c)
                         \/ \E i \in Items : ServerDeletes(c, i) \/ FallBack(c, i)

SelectionSpec == SelectionInit /\ [][SelectionNext]_selectionVars

(* When no deletion is under way, every message the user confirmed the     *)
(* deletion of was deleted by the server or is in localStorage, unless two *)
(* deletions ran at once: each writes back the list it read before its     *)
(* requests, without what the other one added.                             *)
ChosenAreGone ==
  (\A c \in Confirms : ~confirm[c].busy) /\ ~overlapped
    => chosen \subseteq deletedHere \union kept

(* What it rests on: while no deletions overlapped, the one under way has  *)
(* in its list all that localStorage has, and what was chosen is among     *)
(* what the server deleted, that list, and what it has still to do.        *)
OneDeletion == \A c, d \in Confirms : confirm[c].busy /\ confirm[d].busy => c = d

DeletionHasAll(c) ==
  /\ kept \subseteq confirm[c].local
  /\ chosen \subseteq deletedHere \union confirm[c].left \union confirm[c].local

SelectionInv ==
  /\ SelectionTypeOK
  /\ ~overlapped =>
       /\ OneDeletion
       /\ \A c \in Confirms : confirm[c].busy => DeletionHasAll(c)
  /\ ChosenAreGone
=================================================================================

-------------------------------- MODULE ChatRows --------------------------------
(***************************************************************************)
(* One direct chat in the sidebar of one client: its row, the flag the     *)
(* user sets on it (mute or block), deleting it, and the list refresh that *)
(* rewrites the row.                                                       *)
(*                                                                         *)
(* A change is shown before the server is asked and taken back when the    *)
(* request fails.  fetchChats runs at login and after every live message;  *)
(* its answer is decrypted before it overwrites the row.  Sources:         *)
(* client/src/components/chat/ChatList.tsx, ChatHeader.tsx and             *)
(* ChatView.tsx, client/src/store/chatStore.ts, client/src/lib/            *)
(* conversations.ts, server/src/services/conversation.service.ts and       *)
(* message.service.ts.                                                     *)
(*                                                                         *)
(* Definitions marked "Bug:" are not part of the specification: each is    *)
(* the next definition with a plausible mistake, for checking that the     *)
(* properties would notice it.                                             *)
(***************************************************************************)
EXTENDS Naturals

CONSTANTS
  Refreshes,  \* slots for fetchChats calls in flight
  Toggles,    \* slots for mute and block requests in flight
  MaxUnread   \* bound on the unread counter

ASSUME MaxUnreadAssumption == MaxUnread \in Nat

VARIABLES
  exists,      \* the conversation row
  isHidden,    \* this member's isHidden
  isFlagged,   \* this member's isMuted or isBlocked
  row,         \* chats[id] of the client
  active,      \* activeChatId is this chat
  refresh,     \* fetchChats calls in flight
  toggle,      \* mute and block requests in flight
  removing,    \* DELETE /conversations/:id in flight
  announced,   \* conversation:deleted is on its way
  flagCrossed  \* a write the row missed or lost (for the properties)

rowVars == <<exists, isHidden, isFlagged, row, active, refresh, toggle,
             removing, announced, flagCrossed>>

Row     == [here : BOOLEAN, flag : BOOLEAN, unread : 0..MaxUnread]
Refresh == [pc : {"idle", "asked", "answered", "mapped"}, row : Row]
NoRow     == [here |-> FALSE, flag |-> FALSE, unread |-> 0]
NoRefresh == [pc |-> "idle", row |-> NoRow]
NoToggle  == [pc |-> "idle", to |-> FALSE]

RowsTypeOK ==
  /\ exists \in BOOLEAN /\ isHidden \in BOOLEAN /\ isFlagged \in BOOLEAN
  /\ row \in Row
  /\ active \in BOOLEAN
  /\ refresh \in [Refreshes -> Refresh]
  /\ toggle \in [Toggles -> [pc : {"idle", "asked", "stored"}, to : BOOLEAN]]
  /\ removing \in {"no", "here", "both"}
  /\ announced \in BOOLEAN
  /\ flagCrossed \in BOOLEAN

RowsInit ==
  /\ exists = TRUE /\ isHidden = FALSE /\ isFlagged \in BOOLEAN
  /\ row = NoRow /\ active = FALSE
  /\ refresh = [r \in Refreshes |-> NoRefresh]
  /\ toggle = [t \in Toggles |-> NoToggle]
  /\ removing = "no" /\ announced = FALSE
  /\ flagCrossed = FALSE

Toggling   == \E t \in Toggles : toggle[t].pc # "idle"
Refreshing == \E r \in Refreshes : refresh[r].pc # "idle"

(***************************************************************************)
(* fetchChats.                                                             *)
(***************************************************************************)

Ask(r) ==
  /\ refresh[r] = NoRefresh
  /\ refresh' = [refresh EXCEPT ![r].pc = "asked"]
  /\ UNCHANGED <<exists, isHidden, isFlagged, row, active, toggle, removing,
                 announced, flagCrossed>>

Listed == exists /\ ~isHidden

(* listUserConversations.                                                  *)
ListRead(r) ==
  /\ refresh[r].pc = "asked"
  /\ refresh' = [refresh EXCEPT ![r] =
       [pc |-> "answered", row |-> [here |-> Listed, flag |-> isFlagged, unread |-> 0]]]
  /\ UNCHANGED <<exists, isHidden, isFlagged, row, active, toggle, removing,
                 announced, flagCrossed>>

ListFails(r) ==
  /\ refresh[r].pc \in {"asked", "answered"}
  /\ refresh' = [refresh EXCEPT ![r] = NoRefresh]
  /\ UNCHANGED <<exists, isHidden, isFlagged, row, active, toggle, removing,
                 announced, flagCrossed>>

(* The unread counter is taken from the store before the previews are      *)
(* decrypted.                                                              *)
ListMapped(r) ==
  /\ refresh[r].pc = "answered"
  /\ refresh' = [refresh EXCEPT ![r] =
       [pc |-> "mapped",
        row |-> [@.row EXCEPT !.unread = IF row.here THEN row.unread ELSE 0]]]
  /\ UNCHANGED <<exists, isHidden, isFlagged, row, active, toggle, removing,
                 announced, flagCrossed>>

(* setChats overwrites the rows of the answer and keeps the others.        *)
SetChats(r) ==
  LET answer == refresh[r].row IN
  /\ refresh[r].pc = "mapped"
  /\ refresh' = [refresh EXCEPT ![r] = NoRefresh]
  /\ row' = IF answer.here THEN answer ELSE row
  /\ flagCrossed' = IF answer.here THEN Toggling \/ answer.flag # isFlagged
                                   ELSE flagCrossed
  /\ UNCHANGED <<exists, isHidden, isFlagged, active, toggle, removing,
                 announced>>

(***************************************************************************)
(* doMute, doUnmute, doBlock, handleUnblock.                               *)
(***************************************************************************)

(* Shown at once.                                                          *)
Flip(t) ==
  /\ row.here /\ active /\ toggle[t] = NoToggle
  /\ row' = [row EXCEPT !.flag = ~@]
  /\ toggle' = [toggle EXCEPT ![t] = [pc |-> "asked", to |-> ~row.flag]]
  /\ flagCrossed' = (flagCrossed \/ Toggling)
  /\ UNCHANGED <<exists, isHidden, isFlagged, active, refresh, removing,
                 announced>>

FlagStored(t) ==
  /\ toggle[t].pc = "asked" /\ exists
  /\ isFlagged' = toggle[t].to
  /\ toggle' = [toggle EXCEPT ![t].pc = "stored"]
  /\ UNCHANGED <<exists, isHidden, row, active, refresh, removing, announced,
                 flagCrossed>>

FlagAnswered(t) ==
  /\ toggle[t].pc = "stored"
  /\ toggle' = [toggle EXCEPT ![t] = NoToggle]
  /\ UNCHANGED <<exists, isHidden, isFlagged, row, active, refresh, removing,
                 announced, flagCrossed>>

(* Bug: the change stays on the screen.                                    *)
NotTakenBack(to) == row

TakenBack(to) == IF row.here THEN [row EXCEPT !.flag = ~to] ELSE row

(* Refused or lost, or the answer was lost after the write.                *)
FlagFails(t) ==
  /\ toggle[t].pc # "idle"
  /\ toggle' = [toggle EXCEPT ![t] = NoToggle]
  /\ row' = TakenBack(toggle[t].to)
  /\ flagCrossed' = (flagCrossed \/ toggle[t].pc = "stored")
  /\ UNCHANGED <<exists, isHidden, isFlagged, active, refresh, removing,
                 announced>>

(* Another device of the user; no event tells this one.                    *)
FlippedElsewhere ==
  /\ exists
  /\ isFlagged' = ~isFlagged
  /\ flagCrossed' = TRUE
  /\ UNCHANGED <<exists, isHidden, row, active, refresh, toggle, removing,
                 announced>>

(***************************************************************************)
(* doDelete and deleteConversation.                                        *)
(***************************************************************************)

(* removeChat comes first, whatever becomes of the request.                *)
RemoveChat(both) ==
  /\ row.here /\ active /\ removing = "no"
  /\ row' = NoRow /\ active' = FALSE
  /\ removing' = IF both THEN "both" ELSE "here"
  /\ UNCHANGED <<exists, isHidden, isFlagged, refresh, toggle, announced,
                 flagCrossed>>

RemoveStored ==
  /\ removing # "no" /\ exists
  /\ IF removing = "both"
     THEN exists' = FALSE /\ announced' = TRUE /\ UNCHANGED isHidden
     ELSE isHidden' = TRUE /\ UNCHANGED <<exists, announced>>
  /\ removing' = "no"
  /\ UNCHANGED <<isFlagged, row, active, refresh, toggle, flagCrossed>>

RemoveFails ==
  /\ removing # "no"
  /\ removing' = "no"
  /\ UNCHANGED <<exists, isHidden, isFlagged, row, active, refresh, toggle,
                 announced, flagCrossed>>

(* The peer deletes the chat for both.                                     *)
PeerRemoves ==
  /\ exists
  /\ exists' = FALSE /\ announced' = TRUE
  /\ UNCHANGED <<isHidden, isFlagged, row, active, refresh, toggle, removing,
                 flagCrossed>>

(* handleConversationDeleted.                                              *)
OnConversationDeleted ==
  /\ announced
  /\ announced' = FALSE
  /\ row' = NoRow /\ active' = FALSE
  /\ UNCHANGED <<exists, isHidden, isFlagged, refresh, toggle, removing,
                 flagCrossed>>

(***************************************************************************)
(* Opening and live messages.                                              *)
(***************************************************************************)

(* setActiveChat.                                                          *)
SetActive ==
  /\ row.here /\ ~active
  /\ active' = TRUE
  /\ row' = [row EXCEPT !.unread = 0]
  /\ UNCHANGED <<exists, isHidden, isFlagged, refresh, toggle, removing,
                 announced, flagCrossed>>

SetInactive ==
  /\ active
  /\ active' = FALSE
  /\ UNCHANGED <<exists, isHidden, isFlagged, row, refresh, toggle, removing,
                 announced, flagCrossed>>

(* sendMessage of the peer shows the chat again to whoever hid it; the     *)
(* client counts the message when the chat is not the active one, then     *)
(* refreshes.                                                              *)
Message(r) ==
  /\ exists /\ refresh[r] = NoRefresh
  /\ row.here /\ ~active => row.unread < MaxUnread
  /\ isHidden' = FALSE
  /\ row' = IF row.here /\ ~active THEN [row EXCEPT !.unread = @ + 1] ELSE row
  /\ refresh' = [refresh EXCEPT ![r].pc = "asked"]
  /\ UNCHANGED <<exists, isFlagged, active, toggle, removing, announced,
                 flagCrossed>>

(* startDirectMessage: the server shows the chat again; a fresh row with   *)
(* no flag, opened, then a refresh.                                        *)
StartDirectMessage(r) ==
  /\ exists /\ refresh[r] = NoRefresh
  /\ row' = [here |-> TRUE, flag |-> FALSE, unread |-> 0]
  /\ active' = TRUE
  /\ refresh' = [refresh EXCEPT ![r].pc = "asked"]
  /\ flagCrossed' = TRUE
  /\ isHidden' = FALSE
  /\ UNCHANGED <<exists, isFlagged, toggle, removing, announced>>

RowsNext ==
  \/ \E r \in Refreshes : Ask(r) \/ ListRead(r) \/ ListFails(r) \/ ListMapped(r)
                          \/ SetChats(r) \/ Message(r) \/ StartDirectMessage(r)
  \/ \E t \in Toggles : Flip(t) \/ FlagStored(t) \/ FlagAnswered(t) \/ FlagFails(t)
  \/ FlippedElsewhere
  \/ \E both \in BOOLEAN : RemoveChat(both)
  \/ RemoveStored \/ RemoveFails \/ PeerRemoves \/ OnConversationDeleted
  \/ SetActive \/ SetInactive

RowsSpec == RowsInit /\ [][RowsNext]_rowVars

(***************************************************************************)
(* Properties.                                                             *)
(***************************************************************************)

(* When no request is under way the row shows the flag the server has.     *)
(* Recorded exceptions, each healed by the next undisturbed refresh: an    *)
(* answer read before the write, two changes at once, a lost answer, and a *)
(* change on another device.                                               *)
FlagIsServers ==
  row.here /\ exists /\ ~Toggling /\ ~Refreshing /\ ~flagCrossed
    => row.flag = isFlagged

(* What it rests on: while nothing crossed, one request at a time is under *)
(* way, the row shows what it asks for, and the server has that once it is *)
(* stored and the opposite before.                                         *)
OneToggle == \A s, t \in Toggles : toggle[s].pc # "idle" /\ toggle[t].pc # "idle" => s = t

RowShowsToggle ==
  row.here /\ exists =>
    /\ ~Toggling => row.flag = isFlagged
    /\ \A t \in Toggles : toggle[t].pc # "idle" =>
         /\ row.flag = toggle[t].to
         /\ isFlagged = (IF toggle[t].pc = "stored" THEN row.flag ELSE ~row.flag)

RowsInv == RowsTypeOK /\ (~flagCrossed => OneToggle /\ RowShowsToggle)
=================================================================================

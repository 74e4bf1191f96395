-------------------------------- MODULE MCClient --------------------------------
(***************************************************************************)
(* The chat client: the messages of a chat, the selection the user acts    *)
(* on, the chat's row in the sidebar, the recorder, attachments, direct    *)
(* chats, pins and the ratchet.  The modules share no state, so a          *)
(* behaviour is one of one part, and their state spaces add up.            *)
(***************************************************************************)
EXTENDS ChatMessages, ChatSelection, ChatRows, Recorder, Attachments, DirectChats,
        Ratchet, Pins, TLC

VARIABLE part   \* the part a behaviour is about

partVars == <<chatVars, selectionVars, rowVars, recorderVars, storageVars, shownVars,
              directVars, ratchetVars, pinVars>>

ClientParts == {"messages", "selection", "rows", "recorder", "storage", "view",
                "direct", "ratchet", "pins"}

Init ==
  /\ part \in ClientParts
  /\ ChatInit /\ SelectionInit
  /\ RowsInit /\ (part # "rows" => isFlagged)
  /\ RecorderInit
  /\ StorageInit /\ (part # "storage" => storageLimit = 0)
  /\ ViewInit
  /\ DirectInit
  /\ RatchetInit
  /\ PinsInit

Next ==
  /\ UNCHANGED part
  /\ \/ /\ part = "messages"
        /\ UNCHANGED <<selectionVars, rowVars, recorderVars, storageVars,
                       shownVars, directVars, ratchetVars, pinVars>>
        /\ ChatNext
     \/ /\ part = "selection"
        /\ UNCHANGED <<chatVars, rowVars, recorderVars, storageVars, shownVars,
                       directVars, ratchetVars, pinVars>>
        /\ SelectionNext
     \/ /\ part = "rows"
        /\ UNCHANGED <<chatVars, selectionVars, recorderVars, storageVars,
                       shownVars, directVars, ratchetVars, pinVars>>
        /\ RowsNext
     \/ /\ part = "recorder"
        /\ UNCHANGED <<chatVars, selectionVars, rowVars, storageVars,
                       shownVars, directVars, ratchetVars, pinVars>>
        /\ RecorderNext
     \/ /\ part = "storage"
        /\ UNCHANGED <<chatVars, selectionVars, rowVars, recorderVars,
                       shownVars, directVars, ratchetVars, pinVars>>
        /\ StorageNext
     \/ /\ part = "view"
        /\ UNCHANGED <<chatVars, selectionVars, rowVars, recorderVars,
                       storageVars, directVars, ratchetVars, pinVars>>
        /\ ViewNext
     \/ /\ part = "direct"
        /\ UNCHANGED <<chatVars, selectionVars, rowVars, recorderVars,
                       storageVars, shownVars, ratchetVars, pinVars>>
        /\ DirectNext
     \/ /\ part = "ratchet"
        /\ UNCHANGED <<chatVars, selectionVars, rowVars, recorderVars,
                       storageVars, shownVars, directVars, pinVars>>
        /\ RatchetNext
     \/ /\ part = "pins"
        /\ UNCHANGED <<chatVars, selectionVars, rowVars, recorderVars, storageVars,
                       shownVars, directVars, ratchetVars>>
        /\ PinsNext

Spec == Init /\ [][Next]_<<part, partVars>>

ClientTypesOK ==
  CASE part = "messages" -> ChatTypeOK
    [] part = "selection" -> SelectionTypeOK
    [] part = "rows" -> RowsTypeOK
    [] part = "recorder" -> RecorderTypeOK
    [] part \in {"storage", "view"} -> AttachmentsTypeOK
    [] part = "direct" -> DirectTypeOK
    [] part = "ratchet" -> RatchetTypeOK
    [] part = "pins" -> PinsTypeOK

(* The variables of the other parts never change.  Of the messages part,   *)
(* an id in raced is an exception whether it is told of or not, and an id  *)
(* in unseen counts only while the server shows it; of the pins, asked     *)
(* counts only while requests do not overlap.                              *)
Changing ==
  CASE part = "messages" ->
         <<serverVars, netVars, viewVars, told \ raced, raced, unseen \intersect Visible>>
    [] part = "selection" -> selectionVars
    [] part = "rows" -> rowVars
    [] part = "recorder" -> recorderVars
    [] part = "storage" -> storageVars
    [] part = "view" -> shownVars
    [] part = "direct" -> directVars
    [] part = "ratchet" -> ratchetVars
    [] part = "pins" -> <<pinned, viewPins, pinCall, news, pinList, muddled,
                          IF muddled THEN {} ELSE asked>>

View == <<part, Changing>>

(* Nothing more is promised once two deletions ran at once, or a send      *)
(* stopped between its writes.  A send concerns one chat: sends are        *)
(* explored while there is one.  Once the pins are muddled, lists that are *)
(* out of date come from missed events; no chat list is fetched.           *)
Watched ==
  /\ ~overlapped /\ ~stopped
  /\ Cardinality(dms) > 1 => \A u \in Users : posting[u] = NotSending
  /\ muddled => \A u \in Pinners : pinList[u] = NoPinList
=============================================================================

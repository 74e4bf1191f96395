-------------------------------- MODULE Recorder --------------------------------
(***************************************************************************)
(* The press-and-hold voice and video recorder of the composer: the hold   *)
(* timer, the wait for getUserMedia, the MediaRecorder and its queued stop *)
(* event, the lock, the cancel and send buttons, and the unmount.          *)
(*                                                                         *)
(* A take is one call of startRec, numbered in the order they begin; it    *)
(* stands for the stream, the MediaRecorder and the session object of that *)
(* call.  Everything that survives a render is a ref, and every callback   *)
(* reads the refs as they are when it runs.  Sources: client/src/          *)
(* components/chat/MessageInput.tsx and client/src/lib/media.ts.           *)
(*                                                                         *)
(* Definitions marked "Bug:" are not part of the specification: each is    *)
(* the next definition with a plausible mistake, for checking that the     *)
(* properties would notice it.                                             *)
(***************************************************************************)
EXTENDS Naturals

CONSTANT
  MaxTakes      \* bound on the calls of startRec

ASSUME MaxTakesAssumption == MaxTakes \in Nat \ {0}

VARIABLES
  mounted,      \* the composer is on the screen
  draft,        \* text or attachments make the button a send button
  down,         \* the user holds the record button
  holdTimer,    \* the 260 ms timer of a press is armed
  held,         \* heldRef: the timer has fired for this press
  modeVideo,    \* what the next take records
  rec,          \* rec and recRef: what the screen shows
  takes,        \* number of takes begun
  take,         \* the takes
  sessRef, recorderRef, streamRef,  \* the take each ref points at, or 0
  sendOnStop,   \* what the next stop event is to do
  chunks,       \* the takes whose data is in chunksRef
  moving,       \* the slide-to-lock listener is installed
  sent,         \* clips given to onSendMedia
  wanted,       \* takes the user let go of, or sent (for the properties)
  stray         \* takes that lost their screen, stream or chunks to another
                \* take or to the unmount (for the properties)

refs == <<sessRef, recorderRef, streamRef>>
recorderVars == <<mounted, draft, down, holdTimer, held, modeVideo, rec, takes,
                  take, sessRef, recorderRef, streamRef, sendOnStop, chunks,
                  moving, sent, wanted, stray>>

TakeIds == 1..MaxTakes
Refs    == 0..MaxTakes

NoRec == [on |-> FALSE, video |-> FALSE, locked |-> FALSE]

(* asking: getMediaStream is awaited.  stopping: the recorder is inactive  *)
(* and its stop event is queued.                                           *)
Take == [pc : {"none", "asking", "recording", "stopping", "over"},
         video : BOOLEAN, cancelled : BOOLEAN, open : BOOLEAN]

RecorderTypeOK ==
  /\ mounted \in BOOLEAN /\ draft \in BOOLEAN /\ down \in BOOLEAN
  /\ holdTimer \in BOOLEAN /\ held \in BOOLEAN /\ modeVideo \in BOOLEAN
  /\ rec \in [on : BOOLEAN, video : BOOLEAN, locked : BOOLEAN]
  /\ takes \in Refs
  /\ take \in [TakeIds -> Take]
  /\ sessRef \in Refs /\ recorderRef \in Refs /\ streamRef \in Refs
  /\ sendOnStop \in BOOLEAN /\ moving \in BOOLEAN
  /\ chunks \subseteq TakeIds
  /\ sent \subseteq [take : TakeIds, data : SUBSET TakeIds]
  /\ wanted \subseteq TakeIds /\ stray \subseteq TakeIds

RecorderInit ==
  /\ mounted = TRUE /\ draft = FALSE /\ down = FALSE
  /\ holdTimer = FALSE /\ held = FALSE /\ modeVideo = FALSE
  /\ rec = NoRec
  /\ takes = 0
  /\ take = [t \in TakeIds |-> [pc |-> "none", video |-> FALSE,
                                cancelled |-> FALSE, open |-> FALSE]]
  /\ sessRef = 0 /\ recorderRef = 0 /\ streamRef = 0
  /\ sendOnStop = FALSE /\ chunks = {} /\ moving = FALSE
  /\ sent = {} /\ wanted = {} /\ stray = {}

TakeAt(t, pc) == take[t].pc = pc

(* The takes nobody can see any more once the screen is cleared.           *)
Unfinished(tk) == {t \in TakeIds : tk[t].pc \in {"asking", "recording"}}

(* stopStream: the tracks of streamRef are stopped, and a recorder whose   *)
(* tracks have all ended stops by itself.                                  *)
StreamStopped(tk) ==
  [t \in TakeIds |->
    IF t # streamRef THEN tk[t]
    ELSE [tk[t] EXCEPT !.open = FALSE,
                       !.pc = IF @ = "recording" THEN "stopping" ELSE @]]

(***************************************************************************)
(* The record button.                                                      *)
(***************************************************************************)

(* The press of a locked recording is ignored; the button is a send button *)
(* while there is a draft.                                                 *)
Press ==
  /\ mounted /\ ~draft /\ ~down
  /\ down' = TRUE
  /\ IF rec.on THEN UNCHANGED <<held, holdTimer>>
               ELSE held' = FALSE /\ holdTimer' = TRUE
  /\ UNCHANGED <<mounted, draft, modeVideo, rec, takes, take, refs, sendOnStop,
                 chunks, moving, sent, wanted, stray>>

(* startRec up to its await: the screen shows the recording at once.       *)
HoldTimer ==
  LET t == takes + 1 IN
  /\ holdTimer /\ takes < MaxTakes
  /\ holdTimer' = FALSE /\ held' = TRUE
  /\ takes' = t /\ sessRef' = t
  /\ take' = [take EXCEPT ![t].pc = "asking", ![t].video = modeVideo]
  /\ rec' = [on |-> TRUE, video |-> modeVideo, locked |-> FALSE]
  /\ UNCHANGED <<mounted, draft, down, modeVideo, recorderRef, streamRef,
                 sendOnStop, chunks, moving, sent, wanted, stray>>

(* The user ends the take on the screen.  A take still being asked for has *)
(* no recorder yet: the other branch has nothing of its to stop.           *)
StopRec(send) ==
  /\ rec' = NoRec
  /\ moving' = FALSE
  /\ wanted' = IF send THEN wanted \union {takes} ELSE wanted
  /\ IF recorderRef # 0 /\ TakeAt(recorderRef, "recording")
     THEN /\ sendOnStop' = send
          /\ take' = [take EXCEPT ![recorderRef].pc = "stopping"]
          /\ recorderRef' = 0
          /\ UNCHANGED streamRef
     ELSE /\ take' = StreamStopped(take)
          /\ streamRef' = 0
          /\ UNCHANGED <<sendOnStop, recorderRef>>
  /\ stray' = stray \union Unfinished(take')

(* onRelease, when the button or the video overlay gets the event.         *)
Release ==
  /\ mounted /\ down
  /\ down' = FALSE /\ holdTimer' = FALSE /\ held' = FALSE
  /\ \/ /\ rec.on /\ ~rec.locked
        /\ StopRec(TRUE)
        /\ UNCHANGED modeVideo
     \/ /\ rec.on /\ rec.locked
        /\ UNCHANGED <<rec, moving, wanted, sendOnStop, take, recorderRef,
                       streamRef, stray, modeVideo>>
     \/ /\ ~rec.on
        /\ take' = IF sessRef = 0 THEN take
                   ELSE [take EXCEPT ![sessRef].cancelled = TRUE]
        /\ modeVideo' = IF held THEN modeVideo ELSE ~modeVideo
        /\ UNCHANGED <<rec, moving, wanted, sendOnStop, recorderRef, streamRef,
                       stray>>
  /\ UNCHANGED <<mounted, draft, takes, sessRef, chunks, sent>>

(* The pointer is released beside the button, which hears nothing; the     *)
(* video overlay covers the page and always hears it.                      *)
ReleaseElsewhere ==
  /\ down /\ ~(rec.on /\ rec.video)
  /\ down' = FALSE
  /\ UNCHANGED <<mounted, draft, holdTimer, held, modeVideo, rec, takes, take,
                 refs, sendOnStop, chunks, moving, sent, wanted, stray>>

(* A slide upwards while the listener is there.                            *)
SlideToLock ==
  /\ moving /\ rec.on /\ ~rec.locked
  /\ rec' = [rec EXCEPT !.locked = TRUE]
  /\ UNCHANGED <<mounted, draft, down, holdTimer, held, modeVideo, takes, take,
                 refs, sendOnStop, chunks, moving, sent, wanted, stray>>

(* The locked bar: tapping the button sends, the cross cancels.  The video *)
(* overlay has its cross before the lock too.                              *)
Buttons(send) ==
  /\ mounted /\ rec.on /\ ~down
  /\ rec.locked \/ (rec.video /\ ~send)
  /\ StopRec(send)
  /\ UNCHANGED <<mounted, draft, down, holdTimer, held, modeVideo, takes,
                 sessRef, chunks, sent>>

(***************************************************************************)
(* The answer of getMediaStream, and the recorder.                         *)
(***************************************************************************)

(* Refused, or 20 seconds passed: the screen is cleared, whichever take it *)
(* shows.                                                                  *)
AskFails(t) ==
  /\ TakeAt(t, "asking")
  /\ take' = [take EXCEPT ![t].pc = "over"]
  /\ sessRef' = 0
  /\ rec' = NoRec
  /\ stray' = stray \union Unfinished(take')
  /\ UNCHANGED <<mounted, draft, down, holdTimer, held, modeVideo, takes,
                 recorderRef, streamRef, sendOnStop, chunks, moving, sent,
                 wanted>>

AskCancelled(t) ==
  /\ TakeAt(t, "asking") /\ take[t].cancelled
  /\ take' = [take EXCEPT ![t].pc = "over"]
  /\ sessRef' = 0
  /\ rec' = NoRec
  /\ stray' = stray \union Unfinished(take')
  /\ UNCHANGED <<mounted, draft, down, holdTimer, held, modeVideo, takes,
                 recorderRef, streamRef, sendOnStop, chunks, moving, sent,
                 wanted>>

(* Bug: the previous stream is overwritten.                                *)
Overwritten(tk) == tk

OthersStopped(tk) == StreamStopped(tk)

(* The recorder of an earlier take still runs, or its stop event is queued *)
(* while chunksRef is emptied for this one.                                *)
CutOff == stray \union {t \in TakeIds : \/ t = streamRef /\ TakeAt(t, "recording")
                                        \/ TakeAt(t, "stopping")}

Granted(t) ==
  /\ TakeAt(t, "asking") /\ ~take[t].cancelled
  /\ take' = [OthersStopped(take) EXCEPT ![t].pc = "recording", ![t].open = TRUE]
  /\ streamRef' = t /\ recorderRef' = t
  /\ chunks' = {}
  /\ moving' = TRUE
  /\ stray' = CutOff
  /\ UNCHANGED <<mounted, draft, down, holdTimer, held, modeVideo, rec, takes,
                 sessRef, sendOnStop, sent, wanted>>

(* new MediaRecorder throws: the stream just taken is stopped again.       *)
NoRecorder(t) ==
  /\ TakeAt(t, "asking") /\ ~take[t].cancelled
  /\ take' = [OthersStopped(take) EXCEPT ![t].pc = "over"]
  /\ streamRef' = 0 /\ sessRef' = 0
  /\ chunks' = {}
  /\ rec' = NoRec
  /\ stray' = CutOff \union Unfinished(take')
  /\ UNCHANGED <<mounted, draft, down, holdTimer, held, modeVideo, takes,
                 recorderRef, sendOnStop, moving, sent, wanted>>

(* ondataavailable, every 250 ms.                                          *)
DataAvailable(t) ==
  /\ TakeAt(t, "recording")
  /\ chunks' = chunks \union {t}
  /\ UNCHANGED <<mounted, draft, down, holdTimer, held, modeVideo, rec, takes,
                 take, refs, sendOnStop, moving, sent, wanted, stray>>

(* The last data, then onstop: it stops the tracks of its own take, not    *)
(* those streamRef points at by now.                                       *)
OnStop(t) ==
  /\ TakeAt(t, "stopping")
  /\ chunks' = chunks \union {t}
  /\ sent' = IF sendOnStop THEN sent \union {[take |-> t, data |-> chunks']} ELSE sent
  /\ take' = [take EXCEPT ![t].pc = "over", ![t].open = FALSE]
  /\ streamRef' = IF streamRef = t THEN 0 ELSE streamRef
  /\ UNCHANGED <<mounted, draft, down, holdTimer, held, modeVideo, rec, takes,
                 sessRef, recorderRef, sendOnStop, moving, wanted, stray>>

(***************************************************************************)
(* The rest of the composer.                                               *)
(***************************************************************************)

(* Typing or choosing files; both are hidden by a recording.               *)
Write ==
  /\ mounted /\ ~draft /\ ~rec.on /\ ~down
  /\ draft' = TRUE
  /\ UNCHANGED <<mounted, down, holdTimer, held, modeVideo, rec, takes, take,
                 refs, sendOnStop, chunks, moving, sent, wanted, stray>>

(* submit sends the files and the text; removing them empties it as well.  *)
Submit ==
  /\ mounted /\ draft
  /\ draft' = FALSE
  /\ UNCHANGED <<mounted, down, holdTimer, held, modeVideo, rec, takes, take,
                 refs, sendOnStop, chunks, moving, sent, wanted, stray>>

(* cleanupRec.  A take that is being asked for is not cancelled.           *)
Unmount ==
  /\ mounted
  /\ mounted' = FALSE /\ holdTimer' = FALSE /\ down' = FALSE /\ moving' = FALSE
  /\ take' = StreamStopped(take)
  /\ streamRef' = 0 /\ recorderRef' = 0
  /\ rec' = NoRec
  /\ stray' = stray \union Unfinished(take)
  /\ UNCHANGED <<draft, held, modeVideo, takes, sessRef, sendOnStop, chunks,
                 sent, wanted>>

RecorderNext ==
  \/ Press \/ HoldTimer \/ Release \/ ReleaseElsewhere \/ SlideToLock
  \/ \E send \in BOOLEAN : Buttons(send)
  \/ \E t \in TakeIds : AskFails(t) \/ AskCancelled(t) \/ Granted(t)
                        \/ NoRecorder(t) \/ DataAvailable(t) \/ OnStop(t)
  \/ Write \/ Submit \/ Unmount

RecorderSpec == RecorderInit /\ [][RecorderNext]_recorderVars

(***************************************************************************)
(* Properties.                                                             *)
(***************************************************************************)

(* A microphone or camera that is open is the one streamRef points at, so  *)
(* that stopStream reaches it (the leak described above its call in        *)
(* startRec), and it is open only under a recording on the screen or until *)
(* the queued stop event.  The exception is a take that lost its screen    *)
(* while it was being asked for, of which startRec never learns: its       *)
(* microphone stays open with nothing on the screen.                       *)
OpenStreamIsSeen ==
  \A t \in TakeIds : take[t].open =>
    /\ streamRef = t
    /\ rec.on \/ TakeAt(t, "stopping") \/ t \in stray

(* A clip that is sent is a take the user let go of or sent, and holds     *)
(* nothing of another one.  The exception is a take that lost its screen   *)
(* or its stream to another one or to the unmount, or whose stop event     *)
(* comes only when a newer one owns the refs: it finds the sendOnStop of   *)
(* another take, and its data mixes with that of the next clip.            *)
SentAsWanted ==
  \A clip \in sent :
    clip.take \notin stray =>
      clip.take \in wanted /\ clip.data \subseteq {clip.take} \union stray

(* The two together.                                                       *)
TakesAreTheUsers == OpenStreamIsSeen /\ SentAsWanted

(* What they rest on.  A recording take is the one both refs point at.     *)
TakesInOrder ==
  /\ \A t \in TakeIds : t > takes => TakeAt(t, "none")
  /\ \A t \in TakeIds : take[t].open => take[t].pc \in {"recording", "stopping"}
  /\ \A t \in TakeIds : TakeAt(t, "recording") => streamRef = t /\ recorderRef = t

(* Of the takes that kept their screen and stream only the last is on its  *)
(* way, and one may await its stop event, with none recording meanwhile.   *)
OnlyTheLastIsOnScreen ==
  /\ (holdTimer => ~rec.on) /\ (rec.on => takes \in TakeIds)
  /\ \A t \in Unfinished(take) : rec.on \/ t \in stray
  /\ \A t \in TakeIds \ stray :
       /\ take[t].pc \in {"asking", "recording"} => t = takes
       /\ TakeAt(t, "stopping") =>
            /\ sendOnStop => t \in wanted
            /\ \A u \in TakeIds : ~TakeAt(u, "recording")
            /\ \A u \in TakeIds \ stray : TakeAt(u, "stopping") => u = t
       /\ take[t].pc \in {"recording", "stopping"} => chunks \subseteq {t} \union stray

RecorderInv == RecorderTypeOK /\ TakesInOrder /\ OnlyTheLastIsOnScreen /\ TakesAreTheUsers
=================================================================================

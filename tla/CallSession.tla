-------------------------------- MODULE CallSession --------------------------------
(***************************************************************************)
(* The media of one client's calls: the attempts to get the microphone and *)
(* enter the media room, the mute button and the shared screen.            *)
(*                                                                         *)
(* joinAndProduce does not look again after its awaits whether the call is *)
(* still there, and its catch ends whatever call there is by then.  What   *)
(* the server sends is any call:* event at any time; CallSignals has the   *)
(* sender's side.  A share is one call of toggleScreenShare and the screen *)
(* it captures; nothing keeps the button from a second one.  Sources:      *)
(* client/src/lib/calls/callController.ts and sfuClient.ts,                *)
(* client/src/store/callStore.ts, client/src/components/call/              *)
(* CallOverlay.tsx.                                                        *)
(*                                                                         *)
(* "Bug:" marks a definition that is not part of the specification: the    *)
(* next one with a plausible mistake, for checking the properties.         *)
(***************************************************************************)
EXTENDS Naturals

CONSTANTS
  MaxAttempts,  \* bound on the calls started or accepted
  Shares,       \* shares under way or captured at a time
  NoShare

ASSUME SessionBounds == MaxAttempts \in Nat /\ NoShare \notin Shares

VARIABLES
  status,       \* status of the call store
  inCall,       \* its conversationId is set
  incoming,     \* its incoming call is set
  remotePeers,  \* it has a remote peer
  local,        \* the attempt whose stream is localStream, or 0
  micEnabled,
  shared,       \* the share that is localScreenStream: screenSharing, if there is one
  session,      \* the sfu variable: the attempt it belongs to, or 0
  attempts,     \* how many have begun
  attempt,      \* joinAndProduce, by number
  live,         \* attempts whose microphone stream is not stopped
  audible,      \* those of them whose audio track is enabled
  share,        \* the shares, as far as toggleScreenShare is
  shareOn,      \* the attempt whose session each was granted on, or 0
  display,      \* shares whose capture is running
  late,         \* streams granted after their call, or hidden by one (for the properties)
  early,        \* the mute button was used before the call's own stream came (idem)
  strayShare    \* captures whose call or production failed under them, or which
                \* another one replaced (idem)

store == <<status, inCall, incoming, remotePeers, local, micEnabled, shared>>
media == <<session, attempts, attempt, live, audible>>
sessionVars == <<store, media, share, shareOn, display, late, early, strayShare>>

Attempts == 1..MaxAttempts

SessionTypeOK ==
  /\ status \in {"idle", "incoming", "connecting", "active"}
  /\ inCall \in BOOLEAN /\ incoming \in BOOLEAN /\ remotePeers \in BOOLEAN
  /\ local \in 0..MaxAttempts /\ session \in 0..MaxAttempts
  /\ micEnabled \in BOOLEAN /\ shared \in Shares \union {NoShare}
  /\ attempts \in 0..MaxAttempts
  /\ attempt \in [Attempts -> {"none", "media", "grant", "setup", "in", "closing",
                               "gone"}]
  /\ live \subseteq Attempts /\ audible \subseteq live
  /\ share \in [Shares -> {"none", "asked", "producing"}]
  /\ shareOn \in [Shares -> 0..MaxAttempts]
  /\ display \subseteq Shares /\ strayShare \subseteq Shares
  /\ late \subseteq Attempts /\ early \in BOOLEAN

SessionInit ==
  /\ status = "idle" /\ inCall = FALSE /\ incoming = FALSE /\ remotePeers = FALSE
  /\ local = 0 /\ micEnabled = TRUE /\ shared = NoShare
  /\ session = 0 /\ attempts = 0
  /\ attempt = [k \in Attempts |-> "none"]
  /\ live = {} /\ audible = {}
  /\ share = [s \in Shares |-> "none"] /\ shareOn = [s \in Shares |-> 0]
  /\ display = {} /\ strayShare = {}
  /\ late = {} /\ early = FALSE

(***************************************************************************)
(* reset and close.                                                        *)
(***************************************************************************)

(* Bug: the tracks of the local stream are left running.                   *)
LeftRunning == {}

Stopped == {local}

ResetStore ==
  /\ status' = "idle" /\ inCall' = FALSE /\ incoming' = FALSE
  /\ remotePeers' = FALSE /\ local' = 0 /\ micEnabled' = TRUE
  /\ shared' = NoShare
  /\ live' = live \ Stopped /\ audible' = audible \ Stopped
  /\ display' = display \ {shared}
  /\ early' = FALSE
  /\ strayShare' = (strayShare \union {s \in display : share[s] = "producing"}) \ {shared}

(* A join that still waits for its grant has no socket and is not stopped; *)
(* a later one stops at the next await, by throwing or because its answer  *)
(* never comes.                                                            *)
Closed(pc) == CASE pc = "setup" -> "closing"
                [] pc = "in"    -> "gone"
                [] OTHER        -> pc

CloseSession(att) ==
  IF session = 0 THEN att ELSE [att EXCEPT ![session] = Closed(@)]

(* endCall, and call:ended for a client in the call.                       *)
EndSession(att) ==
  /\ attempt' = CloseSession(att)
  /\ session' = 0
  /\ ResetStore
  /\ UNCHANGED <<shareOn, attempts, share, late>>

(***************************************************************************)
(* The user.                                                               *)
(***************************************************************************)

BeginAttempt ==
  /\ attempts < MaxAttempts
  /\ attempts' = attempts + 1
  /\ attempt' = [attempt EXCEPT ![attempts + 1] = "media"]
  /\ inCall' = TRUE /\ incoming' = FALSE /\ status' = "connecting"
  /\ UNCHANGED <<shareOn, remotePeers, local, micEnabled, shared, session,
                 live, audible, share, display, late, early, strayShare>>

StartOutgoing == status = "idle" /\ BeginAttempt

(* The buttons of a ring show while it is the status.                      *)
AnswerRing == status = "incoming" /\ incoming /\ BeginAttempt

(* rejectCall resets the store and leaves the session alone.               *)
DeclineRing ==
  /\ status = "incoming" /\ incoming
  /\ ResetStore
  /\ UNCHANGED <<shareOn, session, attempts, attempt, share, late>>

(* The call's buttons are shown.                                           *)
CanHangUp == status \in {"connecting", "active"}

PressHangUp ==
  /\ CanHangUp
  /\ EndSession(attempt)

ToggleMic ==
  /\ CanHangUp
  /\ micEnabled' = ~micEnabled
  /\ audible' = IF local = 0 THEN audible
                ELSE IF ~micEnabled THEN audible \union ({local} \intersect live)
                                    ELSE audible \ {local}
  /\ early' = (early \/ local = 0 \/ local \in late)
  /\ UNCHANGED <<shareOn, status, inCall, incoming, remotePeers, local,
                 shared, session, attempts, attempt, live, share, display,
                 late, strayShare>>

(***************************************************************************)
(* joinAndProduce.                                                         *)
(***************************************************************************)

(* getUserMedia answers: the stream goes into the store, whatever became   *)
(* of the call, and a session is made.                                     *)
MediaGranted(k) ==
  /\ attempt[k] = "media"
  /\ attempt' = [attempt EXCEPT ![k] = "grant"]
  /\ local' = k /\ session' = k
  /\ live' = live \union {k} /\ audible' = audible \union {k}
  /\ late' = late \union (IF k < attempts \/ ~inCall THEN {k, local} \ {0} ELSE {})
  /\ UNCHANGED <<shareOn, status, inCall, incoming, remotePeers, micEnabled,
                 shared, attempts, share, display, early, strayShare>>

Advance(k, from, to) ==
  /\ attempt[k] = from
  /\ attempt' = [attempt EXCEPT ![k] = to]
  /\ UNCHANGED <<shareOn, store, session, attempts, live, audible, share,
                 display, late, early, strayShare>>

(* The grant arrives and the socket is opened; then come the room,         *)
(* transports, listeners and the own tracks.                               *)
MediaGrant(k) == Advance(k, "grant", "setup")
Joined(k)     == Advance(k, "setup", "in")

(* Any await of an attempt may reject, also of one whose call is over; the *)
(* catch ends the call there is by now.                                    *)
AttemptFails(k) ==
  /\ attempt[k] \in {"media", "grant", "setup", "closing"}
  /\ EndSession([attempt EXCEPT ![k] = "gone"])

(* onRemoteTrack makes the call active, also one nobody is in any more.    *)
OnRemoteTrack(k) ==
  /\ attempt[k] \in {"setup", "in"}
  /\ remotePeers' = TRUE /\ status' = "active"
  /\ UNCHANGED <<shareOn, inCall, incoming, local, micEnabled, shared, media,
                 share, display, late, early, strayShare>>

(* The last remote peer leaves.                                            *)
OnPeerClosed(k) ==
  /\ attempt[k] \in {"setup", "in"} /\ remotePeers
  /\ remotePeers' = FALSE
  /\ UNCHANGED <<shareOn, status, inCall, incoming, local, micEnabled, shared,
                 media, share, display, late, early, strayShare>>

(***************************************************************************)
(* call:* events.                                                          *)
(***************************************************************************)

RingArrives ==
  /\ status = "idle"
  /\ incoming' = TRUE /\ status' = "incoming"
  /\ UNCHANGED <<shareOn, inCall, remotePeers, local, micEnabled, shared,
                 media, share, display, late, early, strayShare>>

AcceptedArrives ==
  /\ inCall /\ status # "idle"
  /\ status' = "active"
  /\ UNCHANGED <<shareOn, inCall, incoming, remotePeers, local, micEnabled,
                 shared, media, share, display, late, early, strayShare>>

RejectedArrives ==
  /\ status # "idle" /\ ~remotePeers
  /\ EndSession(attempt)

EndedArrives == inCall /\ EndSession(attempt)

(***************************************************************************)
(* toggleScreenShare.                                                      *)
(***************************************************************************)

Sharing == shared # NoShare

AskShare(s) ==
  /\ CanHangUp /\ ~Sharing
  /\ share[s] = "none" /\ s \notin display
  /\ share' = [share EXCEPT ![s] = "asked"]
  /\ UNCHANGED <<shareOn, store, media, display, late, early, strayShare>>

ShareRefused(s) ==
  /\ share[s] = "asked"
  /\ share' = [share EXCEPT ![s] = "none"]
  /\ UNCHANGED <<shareOn, store, media, display, late, early, strayShare>>

(* Without a session the captured stream is dropped, not stopped.          *)
ShareGranted(s) ==
  /\ share[s] = "asked"
  /\ display' = display \union {s}
  /\ share' = [share EXCEPT ![s] = IF session = 0 THEN "none" ELSE "producing"]
  /\ shareOn' = [shareOn EXCEPT ![s] = session]
  /\ strayShare' = IF session = 0 \/ ~CanHangUp THEN strayShare \union {s} ELSE strayShare
  /\ UNCHANGED <<store, media, late, early>>

(* The share goes into the store, whatever share is there.                 *)
ShareProduced(s) ==
  /\ share[s] = "producing" /\ attempt[shareOn[s]] \in {"setup", "in"}
  /\ share' = [share EXCEPT ![s] = "none"]
  /\ shared' = s
  /\ strayShare' = strayShare \union (display \intersect {shared})
  /\ UNCHANGED <<shareOn, status, inCall, incoming, remotePeers, local, micEnabled,
                 media, display, late, early>>

(* No transport yet, or closed meanwhile: only logged.                     *)
ShareFails(s) ==
  /\ share[s] = "producing"
  /\ share' = [share EXCEPT ![s] = "none"]
  /\ strayShare' = strayShare \union (display \intersect {s})
  /\ UNCHANGED <<shareOn, store, media, display, late, early>>

CapturesEnd(ended) ==
  /\ display' = display \ ended /\ strayShare' = strayShare \ ended
  /\ UNCHANGED <<shareOn, status, inCall, incoming, remotePeers, local,
                 micEnabled, media, share, late, early>>

(* By the button.                                                          *)
StopShare ==
  /\ CanHangUp /\ Sharing
  /\ shared' = NoShare
  /\ CapturesEnd({shared})

(* By the browser's own.  The listener of a share that had a session stops *)
(* the one in the store, whichever it is.                                  *)
CaptureEnds(s) ==
  /\ s \in display
  /\ IF shareOn[s] = 0 THEN CapturesEnd({s}) /\ UNCHANGED shared
                       ELSE CapturesEnd({s, shared}) /\ shared' = NoShare

SessionNext ==
  \/ StartOutgoing \/ AnswerRing \/ DeclineRing \/ PressHangUp \/ ToggleMic
  \/ RingArrives \/ AcceptedArrives \/ RejectedArrives \/ EndedArrives
  \/ StopShare
  \/ \E s \in Shares : \/ AskShare(s) \/ ShareRefused(s) \/ ShareGranted(s)
                       \/ ShareProduced(s) \/ ShareFails(s) \/ CaptureEnds(s)
  \/ \E k \in Attempts : \/ MediaGranted(k) \/ MediaGrant(k) \/ Joined(k)
                         \/ AttemptFails(k) \/ OnRemoteTrack(k) \/ OnPeerClosed(k)

SessionSpec == SessionInit /\ [][SessionNext]_sessionVars

(***************************************************************************)
(* Properties.                                                             *)
(***************************************************************************)

(* What is captured can be stopped by hanging up: every running microphone *)
(* is the stream of the store, and a running screen capture is the shared  *)
(* one or being produced, while the button is there.  Excepted are streams *)
(* granted after their call was over, streams those replaced, captures     *)
(* that could not be produced, and the capture of a share that another one *)
(* replaced: joinAndProduce stores the stream all the same, and            *)
(* toggleScreenShare stops neither what it could not send nor the share it *)
(* finds in the store when it ends.                                        *)
CaptureBelongsToCall ==
  /\ \A k \in live \ late : k = local /\ CanHangUp
  /\ \A s \in display \ strayShare : CanHangUp /\ (s = shared \/ share[s] = "producing")

(* While the mute button says muted, the stream of the call sends nothing, *)
(* unless it was pressed before the stream was there, or an earlier call's *)
(* stream came instead: a stream arrives with its track enabled.           *)
MutedIsSilent == ~micEnabled /\ ~early => local \notin audible \ late

(* The two together: what is captured is on the screen, and what is muted  *)
(* is not heard.                                                           *)
MediaIsAsShown == CaptureBelongsToCall /\ MutedIsSilent
(***************************************************************************)
(* The inductive invariant behind the two.                                 *)
(***************************************************************************)

(* The stream of the store runs; unless it came late it is of the last     *)
(* attempt.  A client that is in a call, or muted, can hang up; one that   *)
(* was muted in time had the stream of the last attempt.                   *)
StreamsAreOfAttempts ==
  /\ \A k \in Attempts : k > attempts => attempt[k] = "none"
  /\ local # 0 => local \in live
  /\ local # 0 /\ local \notin late => local = attempts /\ attempt[local] # "media"
  /\ inCall => CanHangUp
  /\ ~micEnabled => CanHangUp
  /\ ~micEnabled /\ ~early => attempts # 0 /\ attempt[attempts] # "media"

SessionInv == SessionTypeOK /\ StreamsAreOfAttempts /\ MediaIsAsShown
===================================================================================

----------------------------- MODULE ResetHandshake -----------------------------
(***************************************************************************)
(* Recovery flow C of one account: a logged-out page asks for a reset, a   *)
(* logged-in device approves it by sealing the master key (MK) to the      *)
(* page's ephemeral key, and the page completes with the code that the     *)
(* server sent to the devices.                                             *)
(*                                                                         *)
(* The handshake lives in two Redis keys, reset:<id> and                   *)
(* reset:user:<userId>.  Every handler loads it, decides, and stores or    *)
(* deletes it with further round trips; nothing locks it.  A call here is  *)
(* one such handler, an action is what lies between two of its awaits.     *)
(* Sources: server/src/services/reset.service.ts,                          *)
(* client/src/pages/ForgotPasswordPage.tsx,                                *)
(* client/src/components/auth/ResetApprovalListener.tsx.                   *)
(*                                                                         *)
(* A reset stands for its id, secret, code and ephemeral key pair, which   *)
(* are generated together.  A sealed MK is named by the reset whose key it *)
(* is sealed to.  The clients are the account's own, so that the checks of *)
(* userId and resetSecret always succeed; calls that are turned away at    *)
(* once change nothing and are left out.                                   *)
(* "Bug:" marks mistaken versions of the definitions that follow them.     *)
(***************************************************************************)
EXTENDS Naturals

CONSTANTS
  MaxResets,      \* bound on the resets that are ever requested
  Devices,        \* devices of the account that keep its MK
  Calls,          \* slots for handlers that run at the same time
  None,           \* no device
  MaxOtpAttempts  \* 5 in the code

ASSUME NoneAssumption == None \notin Devices
ASSUME BoundAssumption == MaxResets \in Nat
ASSUME AttemptsAssumption == MaxOtpAttempts \in Nat \ {0}

VARIABLES
  reset,     \* the key reset:<id>
  active,    \* the key reset:user:<userId>
  issued,    \* the number of ids generated so far
  loggedIn,  \* devices with a live session
  prompt,    \* the reset a device asks its user about
  page,      \* the recovery page
  poll,      \* an APPROVED answer to it on its way
  call,      \* the handlers at work
  mkKept,    \* mkPasswordWrapped holds the account's MK
  refusals,  \* wrong codes answered per reset (for the properties)
  stale      \* resets stored over a value that had changed (same)

ghosts == <<refusals, stale>>
server == <<reset, active, issued, mkKept>>
device == <<loggedIn, prompt>>
vars   == <<server, device, page, poll, call, ghosts>>

Gone  == [status |-> "GONE", attempts |-> 0]
Fresh == [status |-> "PENDING", attempts |-> 0]
State == {Gone} \union [status : {"PENDING", "APPROVED"}, attempts : 0..MaxOtpAttempts]

Resets     == 1..MaxResets
MaybeReset == 0..MaxResets

(* sealed: the sealedMk of flowC.current.                                  *)
Blank == [step |-> "menu", reset |-> 0, sealed |-> 0]

(* r: the reset a handler is about; for a request, the earlier one until   *)
(* it has an id of its own.  seen: the state it loaded.  ok: the code was  *)
(* right.  mk: what it uploads is the MK.  heard: the page that sent it is *)
(* still open.                                                             *)
Call == [op : {"idle", "request", "approve", "deny", "complete"},
         pc : {"start", "supersede", "store", "activate", "save", "write",
               "del", "delActive", "revoke"},
         r : MaybeReset, seen : State, device : Devices \union {None},
         ok : BOOLEAN, mk : BOOLEAN, heard : BOOLEAN]

Idle == [op |-> "idle", pc |-> "start", r |-> 0, seen |-> Gone, device |-> None,
         ok |-> FALSE, mk |-> FALSE, heard |-> FALSE]

TypeOK ==
  /\ reset \in [Resets -> State]
  /\ active \in MaybeReset
  /\ issued \in 0..MaxResets
  /\ loggedIn \subseteq Devices
  /\ prompt \in [Devices -> MaybeReset]
  /\ page \in [step : {"menu", "code", "reset", "done"},
               reset : MaybeReset, sealed : MaybeReset]
  /\ poll \in MaybeReset
  /\ call \in [Calls -> Call]
  /\ mkKept \in BOOLEAN
  /\ refusals \in [Resets -> 0..MaxOtpAttempts + 1]
  /\ stale \subseteq Resets

Init ==
  /\ reset = [r \in Resets |-> Gone]
  /\ active = 0
  /\ issued = 0
  /\ loggedIn = Devices
  /\ prompt = [d \in Devices |-> 0]
  /\ page = Blank
  /\ poll = 0
  /\ call = [k \in Calls |-> Idle]
  /\ mkKept = TRUE
  /\ stale = {}
  /\ refusals = [r \in Resets |-> 0]

Begin(k, q)  == call[k] = Idle /\ call' = [call EXCEPT ![k] = q]
Goto(k, pc)  == call' = [call EXCEPT ![k].pc = pc]
Finish(k)    == call' = [call EXCEPT ![k] = Idle]
At(k, op, pc) == call[k].op = op /\ call[k].pc = pc

(***************************************************************************)
(* POST /auth/reset/request.  Nothing keeps the page from sending two.     *)
(***************************************************************************)
RequestLookup(k) ==
  /\ page.step \in {"menu", "code"}
  /\ Begin(k, [Idle EXCEPT !.op = "request", !.pc = "supersede", !.r = active,
                           !.heard = TRUE])
  /\ UNCHANGED <<server, device, page, poll, ghosts>>

RequestSupersede(k) ==
  LET prior == call[k].r IN
  /\ At(k, "request", "supersede")
  /\ reset' = IF prior = 0 THEN reset ELSE [reset EXCEPT ![prior] = Gone]
  /\ call' = [call EXCEPT ![k].pc = "store", ![k].r = 0]
  /\ UNCHANGED <<active, issued, mkKept, device, page, poll, ghosts>>

RequestStore(k) ==
  LET r == issued + 1 IN
  /\ At(k, "request", "store")
  /\ issued < MaxResets
  /\ reset' = [reset EXCEPT ![r] = Fresh]
  /\ issued' = r
  /\ call' = [call EXCEPT ![k].pc = "activate", ![k].r = r]
  /\ UNCHANGED <<active, mkKept, device, page, poll, ghosts>>

(* The active key, the code to the support chat, and reset:pending, which  *)
(* replaces the prompt of the devices whose sockets are connected (D).     *)
(* The answer reaches the page or is lost.                                 *)
RequestActivate(k, D) ==
  LET r == call[k].r IN
  /\ At(k, "request", "activate")
  /\ D \subseteq loggedIn
  /\ active' = r
  /\ prompt' = [d \in Devices |-> IF d \in D THEN r ELSE prompt[d]]
  /\ \/ /\ call[k].heard
        /\ page' = [step |-> "code", reset |-> r, sealed |-> 0]
        /\ poll' = IF page.step = "code" THEN poll ELSE 0
     \/ UNCHANGED <<page, poll>>
  /\ Finish(k)
  /\ UNCHANGED <<reset, issued, mkKept, loggedIn, ghosts>>

(***************************************************************************)
(* saveState and clearReset.                                               *)
(***************************************************************************)

(* Bug: a wrong code is not counted.                                       *)
Uncounted(q) == IF q.op = "approve" THEN [q.seen EXCEPT !.status = "APPROVED"]
                                    ELSE q.seen

Stored(q) == IF q.op = "approve" THEN [q.seen EXCEPT !.status = "APPROVED"]
                                  ELSE [q.seen EXCEPT !.attempts = @ + 1]

NoteRefusal(k) ==
  refusals' = IF call[k].op = "complete" /\ refusals[call[k].r] <= MaxOtpAttempts
                THEN [refusals EXCEPT ![call[k].r] = @ + 1] ELSE refusals

(* An approval closes whatever prompt the device shows by then, unless the *)
(* answer is lost.                                                         *)
Save(k) ==
  LET r == call[k].r  d == call[k].device IN
  /\ call[k].pc = "save"
  /\ reset' = [reset EXCEPT ![r] = Stored(call[k])]
  /\ stale' = IF reset[r] = call[k].seen THEN stale ELSE stale \union {r}
  /\ NoteRefusal(k)
  /\ \/ call[k].op = "approve" /\ prompt' = [prompt EXCEPT ![d] = 0]
     \/ UNCHANGED prompt
  /\ Finish(k)
  /\ UNCHANGED <<active, issued, mkKept, loggedIn, page, poll>>

DelReset(k) ==
  /\ call[k].pc = "del"
  /\ reset' = [reset EXCEPT ![call[k].r] = Gone]
  /\ Goto(k, "delActive")
  /\ UNCHANGED <<active, issued, mkKept, device, page, poll, ghosts>>

(* The active key goes, whichever reset it names.                          *)
DelActive(k) ==
  /\ call[k].pc = "delActive"
  /\ active' = 0
  /\ IF call[k].op = "complete" /\ call[k].ok THEN Goto(k, "revoke") ELSE Finish(k)
  /\ IF call[k].op = "complete" /\ ~call[k].ok
       THEN NoteRefusal(k) ELSE UNCHANGED refusals
  /\ IF call[k].op = "deny"
       THEN prompt' = [prompt EXCEPT ![call[k].device] = 0]
       ELSE UNCHANGED prompt
  /\ UNCHANGED <<reset, issued, mkKept, loggedIn, page, poll, stale>>

(***************************************************************************)
(* POST /auth/reset/approve and /deny, from a device that shows a prompt.  *)
(* It sends one at a time, and another after an answer it did not get.     *)
(***************************************************************************)
(* Bug: a missing state is not turned away.                                *)
NotYetApproved(s) == s.status # "APPROVED"

Approvable(s) == s.status = "PENDING"

ApproveLoad(k, d) ==
  LET r == prompt[d] IN
  /\ d \in loggedIn
  /\ r # 0
  /\ Approvable(reset[r])
  /\ Begin(k, [Idle EXCEPT !.op = "approve", !.pc = "save", !.r = r,
                           !.seen = reset[r], !.device = d])
  /\ UNCHANGED <<server, device, page, poll, ghosts>>

DenyLoad(k, d) ==
  LET r == prompt[d] IN
  /\ d \in loggedIn
  /\ r # 0
  /\ reset[r] # Gone
  /\ Begin(k, [Idle EXCEPT !.op = "deny", !.pc = "del", !.r = r, !.device = d])
  /\ UNCHANGED <<server, device, page, poll, ghosts>>

(* Denying a reset that is gone, or a failed call: the prompt goes anyway. *)
Dismiss(d) ==
  /\ d \in loggedIn
  /\ prompt[d] # 0
  /\ prompt' = [prompt EXCEPT ![d] = 0]
  /\ UNCHANGED <<server, loggedIn, page, poll, call, ghosts>>

(* A new session mounts the listener anew.                                 *)
Login(d) ==
  /\ d \notin loggedIn
  /\ loggedIn' = loggedIn \union {d}
  /\ prompt' = [prompt EXCEPT ![d] = 0]
  /\ UNCHANGED <<server, page, poll, call, ghosts>>

(***************************************************************************)
(* The page: GET /auth/reset/status every three seconds in the code step.  *)
(* The sealed MK of an answer goes to the reset the page has by then.      *)
(***************************************************************************)
StatusRead ==
  /\ page.step = "code"
  /\ poll = 0
  /\ reset[page.reset].status = "APPROVED"
  /\ poll' = page.reset
  /\ UNCHANGED <<server, device, page, call, ghosts>>

PollAnswer ==
  /\ poll # 0
  /\ page' = [page EXCEPT !.sealed = poll]
  /\ poll' = 0
  /\ UNCHANGED <<server, device, call, ghosts>>

ConfirmCode ==
  /\ page.step = "code" /\ page.sealed # 0
  /\ page' = [page EXCEPT !.step = "reset"]
  /\ poll' = 0
  /\ UNCHANGED <<server, device, call, ghosts>>

BackToMenu ==
  /\ page.step = "code"
  /\ page' = [page EXCEPT !.step = "menu"]
  /\ poll' = 0
  /\ UNCHANGED <<server, device, call, ghosts>>

(* The page is left and opened again; answers to the old one are lost.     *)
Reopen ==
  /\ page.step \in {"reset", "done"}
  /\ page' = Blank
  /\ poll' = 0
  /\ call' = [k \in Calls |-> [call[k] EXCEPT !.heard = FALSE]]
  /\ UNCHANGED <<server, device, ghosts>>

(***************************************************************************)
(* POST /auth/reset/complete.  The page opens the sealed MK first.  A      *)
(* request whose answer was lost is sent again, perhaps while the handler  *)
(* of the first is still at work.                                          *)
(***************************************************************************)

(* Bug: the envelope is opened without authentication.                     *)
OpensAnything(sealed, r) == sealed # 0

(* openEnvelope throws for another key pair.                               *)
Opens(sealed, r) == sealed # 0 /\ sealed = r

LastTry(s) == s.attempts + 1 >= MaxOtpAttempts

CompleteLoad(k, ok) ==
  LET r == page.reset IN
  /\ page.step = "reset"
  /\ Opens(page.sealed, r)
  /\ reset[r].status = "APPROVED"
  /\ Begin(k, [Idle EXCEPT !.op = "complete",
                 !.pc = IF ok THEN "write"
                        ELSE IF LastTry(reset[r]) THEN "del" ELSE "save",
                 !.r = r, !.seen = reset[r], !.ok = ok,
                 !.mk = (page.sealed = r), !.heard = TRUE])
  /\ UNCHANGED <<server, device, page, poll, ghosts>>

(* passwordHash and mkPasswordWrapped, in one update.                      *)
CompleteWrite(k) ==
  /\ call[k].pc = "write"
  /\ mkKept' = call[k].mk
  /\ Goto(k, "del")
  /\ UNCHANGED <<reset, active, issued, device, page, poll, ghosts>>

(* revokeAllForUser, the new session, and the answer.                      *)
CompleteRevoke(k) ==
  /\ call[k].pc = "revoke"
  /\ loggedIn' = {}
  /\ \/ call[k].heard /\ page' = [page EXCEPT !.step = "done"]
     \/ UNCHANGED page
  /\ Finish(k)
  /\ UNCHANGED <<server, prompt, poll, ghosts>>

-------------------------------------------------------------------------------
(* A handler stops between two awaits: a Redis or database error, a crash. *)
Drop(k) ==
  /\ call[k] # Idle
  /\ Finish(k)
  /\ UNCHANGED <<server, device, page, poll, ghosts>>

Serve(k) ==
  \/ RequestSupersede(k) \/ RequestStore(k)
  \/ \E D \in SUBSET Devices : RequestActivate(k, D)
  \/ Save(k) \/ DelReset(k) \/ DelActive(k)
  \/ CompleteWrite(k) \/ CompleteRevoke(k)
  \/ Drop(k)

(* Bug: saveState stores without EX.                                       *)
OnlyNewExpire(s) == s.status = "PENDING"

(* saveState passes on the TTL that is left, or a second if there is none. *)
Expires(s) == s # Gone

(* The TTL of a key runs out.  The active key is set after the reset it    *)
(* names and outlives it.                                                  *)
ExpireReset(r) ==
  /\ Expires(reset[r])
  /\ reset' = [reset EXCEPT ![r] = Gone]
  /\ UNCHANGED <<active, issued, mkKept, device, page, poll, call, ghosts>>

ExpireActive ==
  /\ active # 0
  /\ reset[active] = Gone
  /\ active' = 0
  /\ UNCHANGED <<reset, issued, mkKept, device, page, poll, call, ghosts>>

Next ==
  \/ \E k \in Calls :
       \/ Serve(k)
       \/ RequestLookup(k)
       \/ \E d \in Devices : ApproveLoad(k, d) \/ DenyLoad(k, d)
       \/ \E ok \in BOOLEAN : CompleteLoad(k, ok)
  \/ \E d \in Devices : \/ Dismiss(d)
                        \/ Login(d)
  \/ StatusRead \/ PollAnswer
  \/ ConfirmCode \/ BackToMenu \/ Reopen
  \/ \E r \in Resets : ExpireReset(r)
  \/ ExpireActive

Spec == Init /\ [][Next]_vars

(* Redis drops keys when their TTL is over, and every handler returns.     *)
(* Nothing makes a user or a device act.                                   *)
Fairness ==
  /\ \A k \in Calls : WF_vars(Serve(k))
  /\ \A r \in Resets : WF_vars(ExpireReset(r))

FairSpec == Spec /\ Fairness

-------------------------------------------------------------------------------
(* No path of flow C, stale polls, repeated completes and failed handlers  *)
(* included, leaves a password whose wrap does not hold the account's MK   *)
(* (reset.service.ts:229-230).                                             *)
MasterKeySurvives == mkKept

(* Wrong codes of a reset are counted, and the reset is gone when they     *)
(* reach the limit, as long as no store of it went over a value that had   *)
(* changed since it was loaded: approvals by two devices and parallel      *)
(* completes forget attempts.                                              *)
RefusalsAreCounted ==
  \A r \in Resets :
    /\ reset[r].attempts < MaxOtpAttempts
    /\ r \notin stale /\ reset[r] # Gone => reset[r].attempts = refusals[r]

(* A handler that will store or complete a reset holds a copy of it.       *)
Holds(k, r) == call[k].r = r /\ call[k].op # "request"

Settled(r) == r <= issued /\ reset[r] = Gone /\ \A k \in Calls : ~Holds(k, r)

(* A reset that is gone, denied, superseded, expired, used up or           *)
(* completed, and that no handler has a copy of, never comes back, and no  *)
(* handler starts on it, whatever prompts, pages and events still name it. *)
SettledForGood == [][\A r \in Resets : Settled(r) => Settled(r)']_vars

(* Every handshake ends: stores that bring an expired reset back cannot go *)
(* on for ever, for each of them uses up an approval or an attempt.        *)
HandshakesEnd == \A r \in Resets : <>[](reset[r] = Gone)

(* reset.service.ts:202, "Device A denies the handshake - kills the reset  *)
(* immediately": it is gone when the handler is about to answer.           *)
DeniedIsDead ==
  \A k \in Calls : At(k, "deny", "delActive") => reset[call[k].r] = Gone

-------------------------------------------------------------------------------
(***************************************************************************)
(* The inductive invariant behind the safety properties.                   *)
(***************************************************************************)

(* What a handler has established when it is about to write.               *)
HandlersKnow ==
  \A k \in Calls : LET q == call[k] IN
    /\ q.pc \in {"save", "write", "del", "delActive", "revoke"} =>
         q.op # "request" /\ q.r \in 1..issued
    /\ q.pc = "save" =>
         /\ q.seen # Gone
         /\ q.seen.attempts < MaxOtpAttempts
         /\ q.op # "approve" => q.op = "complete" /\ ~LastTry(q.seen)
    /\ q.pc = "write" => q.mk

(* An id that was not generated names nothing.                             *)
UnissuedUntouched ==
  \A r \in Resets : r > issued =>
    reset[r] = Gone /\ refusals[r] = 0 /\ r \notin stale

(* What a handler deleted is gone when it goes on, unless a store brought  *)
(* it back.                                                                *)
DeletedUnlessStale ==
  \A k \in Calls : call[k].pc = "delActive" =>
    reset[call[k].r] = Gone \/ call[k].r \in stale

IInv == /\ TypeOK
        /\ HandlersKnow
        /\ UnissuedUntouched
        /\ DeletedUnlessStale
        /\ MasterKeySurvives
        /\ RefusalsAreCounted
===============================================================================

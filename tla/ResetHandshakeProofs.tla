-------------------------- MODULE ResetHandshakeProofs --------------------------
(***************************************************************************)
(* Theorems about ResetHandshake, for any number of resets, devices and    *)
(* handlers and any limit of attempts.                                     *)
(***************************************************************************)
EXTENDS ResetHandshake, TLAPS

LEMMA IdleType == Idle \in Call
  BY BoundAssumption DEF Idle, Call, State, MaybeReset

LEMMA InitType == Init => TypeOK
  BY IdleType, BoundAssumption, AttemptsAssumption
     DEF Init, TypeOK, State, Gone, Resets, MaybeReset, Blank

(* The parts of a handler's record.                                        *)
LEMMA CallFields ==
  ASSUME TypeOK, NEW k \in Calls
  PROVE  /\ call[k] \in Call
         /\ call[k].r \in 0..MaxResets
         /\ call[k].seen \in State
         /\ call[k].mk \in BOOLEAN
  BY DEF TypeOK, Call, MaybeReset

(* How a handler's record may change.                                      *)
LEMMA CallsType ==
  ASSUME call \in [Calls -> Call], NEW k \in Calls, NEW q \in Call,
         Begin(k, q) \/ Finish(k)
  PROVE  call' \in [Calls -> Call]
  BY IdleType DEF Begin, Finish

LEMMA GotoType ==
  ASSUME TypeOK, NEW k \in Calls,
         NEW pc \in {"store", "activate", "save", "write", "del", "delActive", "revoke"},
         Goto(k, pc)
  PROVE  call' \in [Calls -> Call]
  <1>1. [call[k] EXCEPT !.pc = pc] \in Call
    BY CallFields DEF Call
  <1> QED  BY <1>1 DEF Goto, TypeOK

(* What a handler stores is a state with at most one attempt more.         *)
LEMMA StoredType ==
  ASSUME TypeOK, HandlersKnow, NEW k \in Calls, call[k].pc = "save"
  PROVE  /\ Stored(call[k]) \in State
         /\ Stored(call[k]) # Gone
         /\ Stored(call[k]).attempts < MaxOtpAttempts
         /\ call[k].op = "approve" =>
              Stored(call[k]).attempts = call[k].seen.attempts
         /\ call[k].op # "approve" =>
              Stored(call[k]).attempts = call[k].seen.attempts + 1
  <1> DEFINE q == call[k]
  <1>1. q.seen \in [status : {"PENDING", "APPROVED"}, attempts : 0..MaxOtpAttempts]
    BY CallFields DEF HandlersKnow, State
  <1>2. q.seen.attempts \in Nat /\ q.seen.attempts < MaxOtpAttempts
    BY <1>1, AttemptsAssumption DEF HandlersKnow
  <1>3. CASE q.op = "approve"
    BY <1>1, <1>2, <1>3 DEF Stored, State, Gone
  <1>4. CASE q.op # "approve"
    <2>1. q.seen.attempts + 1 < MaxOtpAttempts
      BY <1>2, <1>4, AttemptsAssumption DEF HandlersKnow, LastTry
    <2>2. q.seen.attempts + 1 \in 0..MaxOtpAttempts
      BY <2>1, <1>2, AttemptsAssumption
    <2>3. Stored(q) = [q.seen EXCEPT !.attempts = @ + 1]
      BY <1>4 DEF Stored
    <2> QED  BY <1>1, <1>4, <2>1, <2>2, <2>3 DEF State, Gone
  <1> QED  BY <1>3, <1>4

(* The count of refusals stays in its range.                               *)
LEMMA RefusalsType ==
  ASSUME TypeOK, NEW k \in Calls, NoteRefusal(k) \/ UNCHANGED refusals
  PROVE  refusals' \in [Resets -> 0..MaxOtpAttempts + 1]
  <1>1. CASE UNCHANGED refusals
    BY <1>1 DEF TypeOK
  <1>2. CASE NoteRefusal(k)
    <2> SUFFICES ASSUME NEW r \in Resets, r = call[k].r,
                        refusals[r] <= MaxOtpAttempts
                 PROVE  refusals[r] + 1 \in 0..MaxOtpAttempts + 1
      BY <1>2 DEF NoteRefusal, TypeOK
    <2>1. refusals[r] \in 0..MaxOtpAttempts + 1
      BY DEF TypeOK
    <2> QED  BY <2>1, AttemptsAssumption
  <1> QED  BY <1>1, <1>2

(* One step of the specification keeps the types.                          *)
LEMMA TypeStep == TypeOK /\ HandlersKnow /\ [Next]_vars => TypeOK'
  <1> SUFFICES ASSUME TypeOK, HandlersKnow, [Next]_vars PROVE TypeOK'
    OBVIOUS
  <1> USE DEF ghosts, server, device
  <1>1. ASSUME NEW k \in Calls, RequestLookup(k)  PROVE  TypeOK'
    <2>1. [Idle EXCEPT !.op = "request", !.pc = "supersede", !.r = active,
                       !.heard = TRUE] \in Call
      BY IdleType DEF Call, TypeOK
    <2>2. call' \in [Calls -> Call]
      BY <1>1, <2>1, CallsType DEF RequestLookup, TypeOK
    <2> QED  BY <1>1, <2>2 DEF RequestLookup, TypeOK
  <1>2. ASSUME NEW k \in Calls, RequestSupersede(k)  PROVE  TypeOK'
    <2> DEFINE q == [call[k] EXCEPT !.pc = "store", !.r = 0]
    <2>0. 0 \in MaybeReset
      BY BoundAssumption DEF MaybeReset
    <2>1. q \in Call
      BY <2>0, CallFields DEF Call
    <2>2. call' \in [Calls -> Call]
      BY <1>2, <2>1 DEF RequestSupersede, TypeOK
    <2>3. reset' \in [Resets -> State]
      BY <1>2 DEF RequestSupersede, TypeOK, State
    <2> QED  BY <1>2, <2>2, <2>3 DEF RequestSupersede, TypeOK
  <1>3. ASSUME NEW k \in Calls, RequestStore(k)  PROVE  TypeOK'
    <2>1. issued + 1 \in 0..MaxResets
      BY <1>3, BoundAssumption DEF RequestStore, TypeOK
    <2>2. [call[k] EXCEPT !.pc = "activate", !.r = issued + 1] \in Call
      BY <2>1, CallFields DEF Call, MaybeReset
    <2>3. call' \in [Calls -> Call]
      BY <1>3, <2>2 DEF RequestStore, TypeOK
    <2>4. Fresh \in State
      BY AttemptsAssumption DEF Fresh, State
    <2>5. reset' \in [Resets -> State]
      BY <1>3, <2>4 DEF RequestStore, TypeOK
    <2> QED  BY <1>3, <2>1, <2>3, <2>5 DEF RequestStore, TypeOK
  <1>4. ASSUME NEW k \in Calls, NEW D \in SUBSET Devices, RequestActivate(k, D)
        PROVE  TypeOK'
    <2>1. call[k].r \in MaybeReset /\ 0 \in MaybeReset
      BY CallFields, BoundAssumption DEF MaybeReset
    <2>2. call' \in [Calls -> Call]
      BY <1>4, IdleType, CallsType DEF RequestActivate, TypeOK
    <2>3. prompt' \in [Devices -> MaybeReset]
      BY <1>4, <2>1 DEF RequestActivate, TypeOK
    <2>4. page' \in [step : {"menu", "code", "reset", "done"},
                     reset : MaybeReset, sealed : MaybeReset] /\ poll' \in MaybeReset
      BY <1>4, <2>1 DEF RequestActivate, TypeOK
    <2> QED  BY <1>4, <2>1, <2>2, <2>3, <2>4 DEF RequestActivate, TypeOK
  <1>5. ASSUME NEW k \in Calls, Save(k)  PROVE  TypeOK'
    <2>1. call[k].r \in Resets
      <3>1. call[k].r \in 1..issued /\ issued \in 0..MaxResets
        BY <1>5 DEF Save, HandlersKnow, TypeOK
      <3> QED  BY <3>1, BoundAssumption DEF Resets
    <2>2. call' \in [Calls -> Call]
      BY <1>5, IdleType, CallsType DEF Save, TypeOK
    <2>3. reset' \in [Resets -> State]
      BY <1>5, StoredType DEF Save, TypeOK
    <2>4. stale' \subseteq Resets
      BY <1>5, <2>1 DEF Save, TypeOK
    <2>5. prompt' \in [Devices -> MaybeReset]
      BY <1>5, BoundAssumption DEF Save, TypeOK, MaybeReset
    <2>6. refusals' \in [Resets -> 0..MaxOtpAttempts + 1]
      BY <1>5, RefusalsType DEF Save
    <2> QED  BY <1>5, <2>2, <2>3, <2>4, <2>5, <2>6 DEF Save, TypeOK
  <1>6. ASSUME NEW k \in Calls, DelReset(k)  PROVE  TypeOK'
    <2>1. call' \in [Calls -> Call]
      BY <1>6, GotoType DEF DelReset
    <2>2. reset' \in [Resets -> State]
      BY <1>6 DEF DelReset, TypeOK, State
    <2> QED  BY <1>6, <2>1, <2>2 DEF DelReset, TypeOK
  <1>7. ASSUME NEW k \in Calls, DelActive(k)  PROVE  TypeOK'
    <2>1. call' \in [Calls -> Call]
      <3>1. CASE Goto(k, "revoke")
        BY <3>1, GotoType
      <3>2. CASE Finish(k)
        BY <3>2, IdleType, CallsType DEF TypeOK
      <3> QED  BY <1>7, <3>1, <3>2 DEF DelActive
    <2>2. prompt' \in [Devices -> MaybeReset] /\ active' \in MaybeReset
      BY <1>7, BoundAssumption DEF DelActive, TypeOK, MaybeReset
    <2>3. refusals' \in [Resets -> 0..MaxOtpAttempts + 1]
      BY <1>7, RefusalsType DEF DelActive
    <2> QED  BY <1>7, <2>1, <2>2, <2>3 DEF DelActive, TypeOK
  <1>8. ASSUME NEW k \in Calls, NEW d \in Devices, ApproveLoad(k, d) \/ DenyLoad(k, d)
        PROVE  TypeOK'
    <2>1. prompt[d] \in Resets
      BY <1>8, BoundAssumption DEF ApproveLoad, DenyLoad, TypeOK, MaybeReset, Resets
    <2>2. /\ [Idle EXCEPT !.op = "approve", !.pc = "save", !.r = prompt[d],
                          !.seen = reset[prompt[d]], !.device = d] \in Call
          /\ [Idle EXCEPT !.op = "deny", !.pc = "del", !.r = prompt[d],
                          !.device = d] \in Call
      BY <2>1, IdleType DEF Call, TypeOK
    <2>3. call' \in [Calls -> Call]
      BY <1>8, <2>2, CallsType DEF ApproveLoad, DenyLoad, TypeOK
    <2> QED  BY <1>8, <2>3 DEF ApproveLoad, DenyLoad, TypeOK
  <1>9. ASSUME NEW d \in Devices, Dismiss(d) \/ Login(d)  PROVE  TypeOK'
    BY <1>9, BoundAssumption DEF Dismiss, Login, TypeOK, MaybeReset
  <1>10. CASE StatusRead \/ PollAnswer \/ ConfirmCode \/ BackToMenu
    BY <1>10, BoundAssumption
       DEF StatusRead, PollAnswer, ConfirmCode, BackToMenu, TypeOK, MaybeReset
  <1>11. CASE Reopen
    <2>1. ASSUME NEW k \in Calls PROVE [call[k] EXCEPT !.heard = FALSE] \in Call
      BY CallFields DEF Call
    <2>2. call' \in [Calls -> Call]
      BY <1>11, <2>1 DEF Reopen
    <2> QED  BY <1>11, <2>2, BoundAssumption DEF Reopen, TypeOK, Blank, MaybeReset
  <1>12. ASSUME NEW k \in Calls, NEW ok \in BOOLEAN, CompleteLoad(k, ok)
         PROVE  TypeOK'
    <2>1. page.reset \in Resets
      BY <1>12, BoundAssumption DEF CompleteLoad, Opens, TypeOK, MaybeReset, Resets
    <2>2. [Idle EXCEPT !.op = "complete",
             !.pc = IF ok THEN "write"
                    ELSE IF LastTry(reset[page.reset]) THEN "del" ELSE "save",
             !.r = page.reset, !.seen = reset[page.reset], !.ok = ok,
             !.mk = (page.sealed = page.reset), !.heard = TRUE] \in Call
      BY <2>1, IdleType DEF Call, TypeOK
    <2>3. call' \in [Calls -> Call]
      BY <1>12, <2>2, CallsType DEF CompleteLoad, TypeOK
    <2> QED  BY <1>12, <2>3 DEF CompleteLoad, TypeOK
  <1>13. ASSUME NEW k \in Calls, CompleteWrite(k)  PROVE  TypeOK'
    <2>1. call' \in [Calls -> Call]
      BY <1>13, GotoType DEF CompleteWrite
    <2> QED  BY <1>13, <2>1, CallFields DEF CompleteWrite, TypeOK
  <1>14. ASSUME NEW k \in Calls, CompleteRevoke(k) \/ Drop(k)  PROVE  TypeOK'
    <2>1. call' \in [Calls -> Call]
      BY <1>14, IdleType, CallsType DEF CompleteRevoke, Drop, TypeOK
    <2> QED  BY <1>14, <2>1 DEF CompleteRevoke, Drop, TypeOK
  <1>15. ASSUME NEW r \in Resets, ExpireReset(r)  PROVE  TypeOK'
    BY <1>15 DEF ExpireReset, TypeOK, State
  <1>16. CASE ExpireActive
    BY <1>16, BoundAssumption DEF ExpireActive, TypeOK, MaybeReset
  <1>17. CASE UNCHANGED vars
    BY <1>17 DEF vars, TypeOK
  <1> QED
    BY <1>1, <1>2, <1>3, <1>4, <1>5, <1>6, <1>7, <1>8, <1>9, <1>10, <1>11, <1>12,
       <1>13, <1>14, <1>15, <1>16, <1>17 DEF Next, Serve

(* What one handler has established, when n ids are generated.             *)
Knows(q, n) ==
  /\ q.pc \in {"save", "write", "del", "delActive", "revoke"} =>
       q.op # "request" /\ q.r \in 1..n
  /\ q.pc = "save" =>
       /\ q.seen # Gone
       /\ q.seen.attempts < MaxOtpAttempts
       /\ q.op # "approve" => q.op = "complete" /\ ~LastTry(q.seen)
  /\ q.pc = "write" => q.mk

LEMMA KnowsOfOne == HandlersKnow <=> \A k \in Calls : Knows(call[k], issued)
  BY DEF HandlersKnow, Knows

(* A reset that is there has an id that was generated.                     *)
LEMMA LiveIsIssued ==
  ASSUME TypeOK, UnissuedUntouched, NEW r \in 0..MaxResets, r # 0, reset[r] # Gone
  PROVE  r \in 1..issued
  <1>1. r \in Resets /\ issued \in 0..MaxResets
    BY BoundAssumption DEF Resets, TypeOK
  <1>2. ~(r > issued)
    BY <1>1 DEF UnissuedUntouched
  <1> QED  BY <1>1, <1>2, BoundAssumption DEF Resets

LEMMA IssuedGrows ==
  ASSUME TypeOK, [Next]_vars
  PROVE  issued \in 0..MaxResets /\ (issued' = issued \/ issued' = issued + 1)
  BY DEF TypeOK, Next, Serve, vars, server, device, ghosts, RequestLookup, RequestSupersede, RequestStore,
         RequestActivate, Save, DelReset, DelActive, ApproveLoad, DenyLoad, Dismiss,
         Login, StatusRead, PollAnswer, ConfirmCode, BackToMenu, Reopen, CompleteLoad,
         CompleteWrite, CompleteRevoke, Drop, ExpireReset, ExpireActive

(* More ids do not harm.                                                   *)
LEMMA KnowsMonotone ==
  ASSUME NEW q, NEW n \in Nat, NEW m \in Nat, n <= m, Knows(q, n)
  PROVE  Knows(q, m)
  <1>1. q.r \in 1..n => q.r \in 1..m
    OBVIOUS
  <1> QED  BY <1>1 DEF Knows

(* One step leaves every handler with what it needs.                       *)
LEMMA HandlersStep ==
  ASSUME TypeOK, HandlersKnow, UnissuedUntouched, RefusalsAreCounted, [Next]_vars
  PROVE  HandlersKnow'
  <1> USE DEF ghosts, server, device
  <1>1. /\ issued \in Nat /\ issued' \in Nat /\ issued <= issued'
    BY IssuedGrows, BoundAssumption
  <1>2. \A k \in Calls : Knows(call[k], issued')
    BY <1>1, KnowsOfOne, KnowsMonotone
  <1>3. Knows(Idle, issued')
    BY DEF Knows, Idle
  <1>4. ASSUME NEW k \in Calls, NEW q,
               call' = [call EXCEPT ![k] = q], Knows(q, issued')
        PROVE  HandlersKnow'
    <2>1. \A j \in Calls : Knows(call'[j], issued')
      BY <1>2, <1>4 DEF TypeOK
    <2> QED  BY <2>1 DEF HandlersKnow, Knows
  <1>5. ASSUME NEW k \in Calls, Finish(k)  PROVE  HandlersKnow'
    BY <1>3, <1>4, <1>5 DEF Finish
  <1>6. CASE UNCHANGED call
    BY <1>2, <1>6 DEF HandlersKnow, Knows
  <1>7. ASSUME NEW k \in Calls,
               RequestLookup(k) \/ RequestSupersede(k) \/ RequestStore(k)
        PROVE  HandlersKnow'
    <2>1. CASE RequestLookup(k)
      <3> DEFINE q == [Idle EXCEPT !.op = "request", !.pc = "supersede", !.r = active,
                                   !.heard = TRUE]
      <3>1. Knows(q, issued')
        BY DEF Knows, Idle
      <3> QED  BY <2>1, <3>1, <1>4 DEF RequestLookup, Begin
    <2>2. CASE RequestSupersede(k)
      <3> DEFINE q == [call[k] EXCEPT !.pc = "store", !.r = 0]
      <3>1. Knows(q, issued')
        BY CallFields DEF Knows, Call
      <3> QED  BY <2>2, <3>1, <1>4 DEF RequestSupersede
    <2>3. CASE RequestStore(k)
      <3> DEFINE q == [call[k] EXCEPT !.pc = "activate", !.r = issued + 1]
      <3>1. Knows(q, issued')
        BY CallFields DEF Knows, Call
      <3> QED  BY <2>3, <3>1, <1>4 DEF RequestStore
    <2> QED  BY <1>7, <2>1, <2>2, <2>3
  <1>8. ASSUME NEW k \in Calls, DelReset(k) \/ DelActive(k) \/ CompleteWrite(k)
        PROVE  HandlersKnow'
    <2>1. ASSUME NEW pc \in {"del", "delActive", "revoke"}, Goto(k, pc)
          PROVE  HandlersKnow'
      <3> DEFINE q == [call[k] EXCEPT !.pc = pc]
      <3>1. /\ q.pc = pc /\ q.op = call[k].op /\ q.r = call[k].r
        BY CallFields DEF Call
      <3>2. call[k].op # "request" /\ call[k].r \in 1..issued'
        BY <1>2, <1>8 DEF Knows, DelReset, DelActive, CompleteWrite
      <3>3. Knows(q, issued')
        BY <3>1, <3>2 DEF Knows
      <3> QED  BY <2>1, <3>3, <1>4 DEF Goto
    <2> QED  BY <1>5, <1>8, <2>1 DEF DelReset, DelActive, CompleteWrite
  <1>9. ASSUME NEW k \in Calls, NEW d \in Devices, ApproveLoad(k, d)
        PROVE  HandlersKnow'
    <2> DEFINE r == prompt[d]
               q == [Idle EXCEPT !.op = "approve", !.pc = "save", !.r = r,
                                 !.seen = reset[r], !.device = d]
    <2>1. r \in 0..MaxResets /\ r # 0 /\ reset[r] # Gone
      BY <1>9 DEF ApproveLoad, Approvable, Gone, TypeOK, MaybeReset
    <2>2. r \in 1..issued
      BY <2>1, LiveIsIssued
    <2>3. r \in Resets
      BY <2>1, BoundAssumption DEF Resets
    <2>4. reset[r].attempts < MaxOtpAttempts
      BY <2>3 DEF RefusalsAreCounted
    <2>5. q.op = "approve" /\ q.pc = "save" /\ q.r = r /\ q.seen = reset[r]
      BY DEF Idle
    <2>6. Knows(q, issued)
      BY <2>1, <2>2, <2>4, <2>5 DEF Knows
    <2> QED  BY <1>9, <2>6, <1>1, <1>4, KnowsMonotone DEF ApproveLoad, Begin
  <1>10. ASSUME NEW k \in Calls, NEW d \in Devices, DenyLoad(k, d)
         PROVE  HandlersKnow'
    <2> DEFINE r == prompt[d]
               q == [Idle EXCEPT !.op = "deny", !.pc = "del", !.r = r, !.device = d]
    <2>1. r \in 0..MaxResets /\ r # 0 /\ reset[r] # Gone
      BY <1>10 DEF DenyLoad, TypeOK, MaybeReset
    <2>2. r \in 1..issued
      BY <2>1, LiveIsIssued
    <2>3. q.op = "deny" /\ q.pc = "del" /\ q.r = r
      BY DEF Idle
    <2>4. Knows(q, issued)
      BY <2>2, <2>3 DEF Knows
    <2> QED  BY <1>10, <2>4, <1>1, <1>4, KnowsMonotone DEF DenyLoad, Begin
  <1>11. ASSUME NEW k \in Calls, NEW ok \in BOOLEAN, CompleteLoad(k, ok)
         PROVE  HandlersKnow'
    <2> DEFINE r == page.reset
               q == [Idle EXCEPT !.op = "complete",
                       !.pc = IF ok THEN "write"
                              ELSE IF LastTry(reset[r]) THEN "del" ELSE "save",
                       !.r = r, !.seen = reset[r], !.ok = ok,
                       !.mk = (page.sealed = r), !.heard = TRUE]
    <2>1. r \in 0..MaxResets /\ r # 0 /\ reset[r] # Gone /\ page.sealed = r
      BY <1>11 DEF CompleteLoad, Opens, Gone, TypeOK, MaybeReset
    <2>2. r \in 1..issued
      BY <2>1, LiveIsIssued
    <2>3. r \in Resets
      BY <2>1, BoundAssumption DEF Resets
    <2>4. reset[r].attempts < MaxOtpAttempts
      BY <2>3 DEF RefusalsAreCounted
    <2>5. /\ q.op = "complete" /\ q.r = r /\ q.seen = reset[r]
          /\ q.mk = (page.sealed = r)
          /\ q.pc \in {"write", "del", "save"}
          /\ q.pc = "save" => ~LastTry(reset[r])
      BY DEF Idle
    <2>6. Knows(q, issued)
      BY <2>1, <2>2, <2>4, <2>5 DEF Knows
    <2> QED  BY <1>11, <2>6, <1>1, <1>4, KnowsMonotone DEF CompleteLoad, Begin
  <1>12. CASE Reopen
    <2>1. ASSUME NEW k \in Calls  PROVE  Knows(call'[k], issued')
      <3>1. /\ call'[k].op = call[k].op /\ call'[k].pc = call[k].pc
            /\ call'[k].r = call[k].r /\ call'[k].seen = call[k].seen
            /\ call'[k].mk = call[k].mk
        BY <1>12, CallFields DEF Reopen, Call
      <3> QED  BY <1>2, <3>1 DEF Knows
    <2> QED  BY <2>1 DEF HandlersKnow, Knows
  <1>13. ASSUME NEW k \in Calls, NEW D \in SUBSET Devices,
                RequestActivate(k, D) \/ Save(k) \/ CompleteRevoke(k) \/ Drop(k)
         PROVE  HandlersKnow'
    BY <1>5, <1>13 DEF RequestActivate, Save, CompleteRevoke, Drop
  <1>14. ASSUME NEW d \in Devices, Dismiss(d) \/ Login(d)  PROVE  HandlersKnow'
    BY <1>6, <1>14 DEF Dismiss, Login
  <1>15. CASE StatusRead \/ PollAnswer \/ ConfirmCode \/ BackToMenu \/ ExpireActive
    BY <1>6, <1>15 DEF StatusRead, PollAnswer, ConfirmCode, BackToMenu, ExpireActive
  <1>16. ASSUME NEW r \in Resets, ExpireReset(r)  PROVE  HandlersKnow'
    BY <1>6, <1>16 DEF ExpireReset
  <1>17. CASE UNCHANGED vars
    BY <1>6, <1>17 DEF vars
  <1> QED
    BY <1>7, <1>8, <1>9, <1>10, <1>11, <1>12, <1>13, <1>14, <1>15, <1>16, <1>17
       DEF Next, Serve

-------------------------------------------------------------------------------
(* What a step may do to one reset: nothing, remove it, create it under a  *)
(* new id, or store it from a handler that holds it.                       *)
LEMMA ResetStep ==
  ASSUME TypeOK, HandlersKnow, [Next]_vars, NEW r \in Resets
  PROVE  \/ reset'[r] = reset[r]
         \/ reset'[r] = Gone
         \/ /\ r = issued + 1 /\ issued' = r /\ reset'[r] = Fresh
            /\ UNCHANGED <<refusals, stale>>
         \/ \E k \in Calls : Save(k) /\ call[k].r = r
  <1> USE DEF ghosts, server, device
  <1>1. ASSUME NEW k \in Calls, RequestSupersede(k) \/ DelReset(k)
        PROVE  reset'[r] = reset[r] \/ reset'[r] = Gone
    BY <1>1 DEF RequestSupersede, DelReset, TypeOK
  <1>2. ASSUME NEW k \in Calls, RequestStore(k)
        PROVE  \/ reset'[r] = reset[r]
               \/ /\ r = issued + 1 /\ issued' = r /\ reset'[r] = Fresh
                  /\ UNCHANGED <<refusals, stale>>
    BY <1>2 DEF RequestStore, TypeOK
  <1>3. ASSUME NEW k \in Calls, Save(k)
        PROVE  reset'[r] = reset[r] \/ call[k].r = r
    BY <1>3 DEF Save, TypeOK
  <1>4. ASSUME NEW x \in Resets, ExpireReset(x)
        PROVE  reset'[r] = reset[r] \/ reset'[r] = Gone
    BY <1>4 DEF ExpireReset, TypeOK
  <1> QED
    BY <1>1, <1>2, <1>3, <1>4
       DEF Next, Serve, vars, RequestLookup, RequestActivate, DelActive, ApproveLoad,
           DenyLoad, Dismiss, Login, StatusRead, PollAnswer, ConfirmCode, BackToMenu,
           Reopen, CompleteLoad, CompleteWrite, CompleteRevoke, Drop, ExpireActive

(* Refusals and stale marks are noted only by handlers that hold the reset.*)
LEMMA CountersStep ==
  ASSUME TypeOK, [Next]_vars, NEW r \in Resets
  PROVE  \/ refusals'[r] = refusals[r] /\ (r \in stale' <=> r \in stale)
         \/ \E k \in Calls : Save(k) /\ call[k].r = r
         \/ \E k \in Calls : DelActive(k) /\ call[k].r = r /\ UNCHANGED <<reset, stale>>
  <1> USE DEF ghosts, server, device
  <1>1. ASSUME NEW k \in Calls, Save(k), call[k].r # r
        PROVE  refusals'[r] = refusals[r] /\ (r \in stale' <=> r \in stale)
    BY <1>1 DEF Save, NoteRefusal, TypeOK
  <1>2. ASSUME NEW k \in Calls, DelActive(k), call[k].r # r
        PROVE  refusals'[r] = refusals[r] /\ (r \in stale' <=> r \in stale)
    BY <1>2 DEF DelActive, NoteRefusal, TypeOK
  <1>3. ASSUME NEW k \in Calls, DelActive(k)
        PROVE  UNCHANGED <<reset, stale>>
    BY <1>3 DEF DelActive
  <1> QED
    BY <1>1, <1>2, <1>3
       DEF Next, Serve, vars, RequestLookup, RequestSupersede, RequestStore,
           RequestActivate, DelReset, ApproveLoad, DenyLoad, Dismiss, Login, StatusRead,
           PollAnswer, ConfirmCode, BackToMenu, Reopen, CompleteLoad, CompleteWrite,
           CompleteRevoke, Drop, ExpireReset, ExpireActive

(* The handler of a store or of the end of a deletion, and its reset.      *)
LEMMA HandlerHolds ==
  ASSUME TypeOK, HandlersKnow, NEW k \in Calls,
         call[k].pc \in {"save", "write", "del", "delActive", "revoke"}
  PROVE  /\ call[k].r \in 1..issued
         /\ call[k].r \in Resets
         /\ Holds(k, call[k].r)
  <1>1. call[k].r \in 1..issued /\ call[k].op # "request" /\ issued \in 0..MaxResets
    BY DEF HandlersKnow, TypeOK
  <1> QED  BY <1>1, BoundAssumption DEF Holds, Resets

LEMMA UnissuedStep ==
  ASSUME TypeOK, HandlersKnow, UnissuedUntouched, [Next]_vars
  PROVE  UnissuedUntouched'
  <1> SUFFICES ASSUME NEW r \in Resets, r > issued'
               PROVE  reset'[r] = Gone /\ refusals'[r] = 0 /\ r \notin stale'
    BY DEF UnissuedUntouched
  <1>1. r > issued /\ r # issued'
    BY IssuedGrows, BoundAssumption DEF Resets
  <1>2. ASSUME NEW k \in Calls, Save(k) \/ DelActive(k)
        PROVE  call[k].r # r
    <2>1. call[k].r \in 1..issued
      BY <1>2, HandlerHolds DEF Save, DelActive
    <2> QED  BY <1>1, <2>1, BoundAssumption DEF Resets, TypeOK
  <1>3. reset'[r] = Gone
    BY <1>1, <1>2, ResetStep DEF UnissuedUntouched
  <1>4. refusals'[r] = 0 /\ r \notin stale'
    BY <1>1, <1>2, CountersStep DEF UnissuedUntouched
  <1> QED  BY <1>3, <1>4

(* A store over a value that had changed is noted; any other store         *)
(* replaces the state that the handler loaded.                             *)
LEMMA SaveEffect ==
  ASSUME TypeOK, HandlersKnow, NEW k \in Calls, Save(k)
  PROVE  LET r == call[k].r IN
         /\ r \in Resets
         /\ reset'[r] = Stored(call[k])
         /\ r \notin stale' => reset[r] = call[k].seen /\ r \notin stale
         /\ call[k].op = "approve" => refusals' = refusals
         /\ call[k].op # "approve" /\ refusals[r] <= MaxOtpAttempts =>
              refusals'[r] = refusals[r] + 1
  <1>1. call[k].r \in Resets
    BY HandlerHolds DEF Save
  <1>2. call[k].op # "approve" => call[k].op = "complete"
    BY DEF Save, HandlersKnow
  <1> QED  BY <1>1, <1>2 DEF Save, NoteRefusal, TypeOK

LEMMA DeletedStep ==
  ASSUME TypeOK, HandlersKnow, DeletedUnlessStale, [Next]_vars
  PROVE  DeletedUnlessStale'
  <1> USE DEF ghosts, server, device
  <1> SUFFICES ASSUME NEW k \in Calls, call'[k].pc = "delActive"
               PROVE  reset'[call'[k].r] = Gone \/ call'[k].r \in stale'
    BY DEF DeletedUnlessStale
  <1>1. CASE DelReset(k)
    <2>1. call[k].r \in Resets
      BY <1>1, HandlerHolds DEF DelReset
    <2>2. call'[k].r = call[k].r
      BY <1>1, CallFields DEF DelReset, Goto, TypeOK, Call
    <2> QED  BY <1>1, <2>1, <2>2 DEF DelReset, TypeOK
  <1>2. CASE call[k].pc = "delActive" /\ call'[k].r = call[k].r
    <2> DEFINE r == call[k].r
    <2>1. r \in Resets /\ r \in 1..issued
      BY <1>2, HandlerHolds
    <2>2. r # issued + 1
      BY <2>1, BoundAssumption DEF TypeOK
    <2>3. CASE r \in stale
      BY <1>2, <2>1, <2>3, CountersStep DEF Save
    <2>4. CASE r \notin stale /\ reset[r] = Gone
      <3>1. ASSUME NEW j \in Calls, Save(j), call[j].r = r
            PROVE  r \in stale'
        <4>1. call[j].seen # Gone
          BY <3>1 DEF Save, HandlersKnow
        <4> QED  BY <2>4, <3>1, <4>1, SaveEffect
      <3> QED  BY <1>2, <2>1, <2>2, <2>4, <3>1, ResetStep
    <2> QED  BY <1>2, <2>3, <2>4 DEF DeletedUnlessStale
  <1>3. \/ DelReset(k)
        \/ call[k].pc = "delActive" /\ call'[k].r = call[k].r
    <2>1. call \in [Calls -> Call]
      BY DEF TypeOK
    <2> USE <2>1
    <2>2. ASSUME NEW j \in Calls, Finish(j)
          PROVE  call[k].pc = "delActive" /\ call'[k].r = call[k].r
      BY <2>2 DEF Finish, Idle
    <2>3. CASE UNCHANGED call
      BY <2>3
    <2>4. ASSUME NEW j \in Calls,
                 RequestLookup(j) \/ RequestSupersede(j) \/ RequestStore(j)
          PROVE  call[k].pc = "delActive" /\ call'[k].r = call[k].r
      <3>1. j # k
        <4>1. ASSUME j = k
              PROVE  call'[k].pc # "delActive"
          <5>1. CASE RequestLookup(k)
            BY <5>1 DEF RequestLookup, Begin, Idle
          <5>2. CASE RequestSupersede(k)
            BY <5>2 DEF RequestSupersede
          <5>3. CASE RequestStore(k)
            BY <5>3 DEF RequestStore
          <5> QED  BY <2>4, <4>1, <5>1, <5>2, <5>3
        <4> QED  BY <4>1
      <3> QED  BY <2>4, <3>1 DEF RequestLookup, RequestSupersede, RequestStore, Begin
    <2>5. ASSUME NEW j \in Calls, NEW d \in Devices,
                 ApproveLoad(j, d) \/ DenyLoad(j, d)
          PROVE  call[k].pc = "delActive" /\ call'[k].r = call[k].r
      <3>1. ApproveLoad(j, d) => call'[j].pc = "save"
        BY DEF ApproveLoad, Begin, Idle
      <3>2. DenyLoad(j, d) => call'[j].pc = "del"
        BY DEF DenyLoad, Begin, Idle
      <3>3. j # k
        BY <2>5, <3>1, <3>2
      <3> QED  BY <2>5, <3>3 DEF ApproveLoad, DenyLoad, Begin
    <2>6. ASSUME NEW j \in Calls, NEW pc \in {"del", "revoke"}, Goto(j, pc)
          PROVE  call[k].pc = "delActive" /\ call'[k].r = call[k].r
      <3>1. j # k
        BY <2>6, CallFields DEF Goto, Call
      <3> QED  BY <2>6, <3>1 DEF Goto
    <2>7. ASSUME NEW j \in Calls, DelReset(j), j # k
          PROVE  call[k].pc = "delActive" /\ call'[k].r = call[k].r
      BY <2>7 DEF DelReset, Goto
    <2>8. CASE Reopen
      BY <2>8, CallFields DEF Reopen, Call
    <2>9. ASSUME NEW j \in Calls, NEW D \in SUBSET Devices,
                 \/ RequestActivate(j, D) \/ Save(j) \/ DelActive(j)
                 \/ CompleteWrite(j) \/ CompleteRevoke(j) \/ Drop(j)
          PROVE  call[k].pc = "delActive" /\ call'[k].r = call[k].r
      BY <2>2, <2>6, <2>9
         DEF RequestActivate, Save, DelActive, CompleteWrite, CompleteRevoke, Drop
    <2>11. CASE \E j \in Calls : Serve(j)
      <3> PICK j \in Calls : Serve(j)
        BY <2>11
      <3> QED  BY <2>4, <2>7, <2>9 DEF Serve
    <2>12. CASE StatusRead \/ PollAnswer \/ ConfirmCode \/ BackToMenu \/ ExpireActive
      BY <2>3, <2>12 DEF StatusRead, PollAnswer, ConfirmCode, BackToMenu, ExpireActive
    <2>13. CASE \E d \in Devices : Dismiss(d) \/ Login(d)
      BY <2>3, <2>13 DEF Dismiss, Login
    <2>14. CASE \E r \in Resets : ExpireReset(r)
      BY <2>3, <2>14 DEF ExpireReset
    <2>15. CASE UNCHANGED vars
      BY <2>3, <2>15 DEF vars
    <2>16. CASE \E j \in Calls : RequestLookup(j)
      BY <2>4, <2>16
    <2>17. CASE \E j \in Calls, d \in Devices : ApproveLoad(j, d) \/ DenyLoad(j, d)
      BY <2>5, <2>17
    <2>18. ASSUME NEW j \in Calls, NEW ok \in BOOLEAN, CompleteLoad(j, ok)
           PROVE  call[k].pc = "delActive" /\ call'[k].r = call[k].r
      <3>1. call'[j].pc \in {"write", "del", "save"}
        BY <2>18 DEF CompleteLoad, Begin, Idle
      <3> QED  BY <2>18, <3>1 DEF CompleteLoad, Begin
    <2> QED
      BY <2>8, <2>11, <2>12, <2>13, <2>14, <2>15, <2>16, <2>17, <2>18 DEF Next
  <1> QED  BY <1>1, <1>2, <1>3

(* A reset that is not stale keeps the count of its refusals.              *)
LEMMA RefusalsStep ==
  ASSUME TypeOK, HandlersKnow, UnissuedUntouched, DeletedUnlessStale,
         RefusalsAreCounted, [Next]_vars
  PROVE  RefusalsAreCounted'
  <1> SUFFICES ASSUME NEW r \in Resets
               PROVE  /\ reset'[r].attempts < MaxOtpAttempts
                      /\ r \notin stale' /\ reset'[r] # Gone =>
                           reset'[r].attempts = refusals'[r]
    BY DEF RefusalsAreCounted
  <1>1. ASSUME NEW k \in Calls, Save(k), call[k].r = r
        PROVE  /\ reset'[r].attempts < MaxOtpAttempts
               /\ r \notin stale' => reset'[r].attempts = refusals'[r]
    <2>1. reset'[r] = Stored(call[k]) /\ call[k].pc = "save"
      BY <1>1, SaveEffect DEF Save
    <2>2. reset'[r].attempts < MaxOtpAttempts
      BY <2>1, StoredType
    <2>3. ASSUME r \notin stale'
          PROVE  reset'[r].attempts = refusals'[r]
      <3>1. reset[r] = call[k].seen /\ r \notin stale
        BY <1>1, <2>3, SaveEffect
      <3>2. reset[r] # Gone
        BY <3>1, <2>1 DEF HandlersKnow
      <3>3. reset[r].attempts = refusals[r]
        BY <3>1, <3>2 DEF RefusalsAreCounted
      <3>4. CASE call[k].op = "approve"
        BY <1>1, <2>1, <3>1, <3>3, <3>4, StoredType, SaveEffect
      <3>5. CASE call[k].op # "approve"
        <4>1. refusals[r] <= MaxOtpAttempts
          <5>1. refusals[r] < MaxOtpAttempts
            BY <3>3 DEF RefusalsAreCounted
          <5>2. refusals[r] \in 0..MaxOtpAttempts + 1
            BY DEF TypeOK
          <5> QED  BY <5>1, <5>2, AttemptsAssumption
        <4>2. refusals'[r] = refusals[r] + 1
          BY <1>1, <3>5, <4>1, SaveEffect
        <4>3. reset'[r].attempts = call[k].seen.attempts + 1
          BY <2>1, <3>5, StoredType
        <4> QED  BY <3>1, <3>3, <4>2, <4>3
      <3> QED  BY <3>4, <3>5
    <2> QED  BY <2>2, <2>3
  <1>2. CASE reset'[r] = Gone
    BY <1>2, AttemptsAssumption DEF Gone
  <1>3. CASE r = issued + 1 /\ issued' = r /\ reset'[r] = Fresh /\ UNCHANGED <<refusals, stale>>
    <2>1. refusals[r] = 0
      <3>1. r > issued
        BY <1>3, BoundAssumption DEF TypeOK
      <3> QED  BY <3>1 DEF UnissuedUntouched
    <2> QED  BY <1>3, <2>1, AttemptsAssumption DEF Fresh
  <1>4. CASE reset'[r] = reset[r]
    <2>1. reset'[r].attempts < MaxOtpAttempts
      BY <1>4 DEF RefusalsAreCounted
    <2>2. ASSUME r \notin stale', reset'[r] # Gone
          PROVE  reset'[r].attempts = refusals'[r]
      <3>1. CASE refusals'[r] = refusals[r] /\ (r \in stale' <=> r \in stale)
        BY <1>4, <2>2, <3>1 DEF RefusalsAreCounted
      <3>2. ASSUME NEW k \in Calls, DelActive(k), call[k].r = r,
                   UNCHANGED <<reset, stale>>
            PROVE  FALSE
        BY <1>4, <2>2, <3>2 DEF DeletedUnlessStale, DelActive
      <3> QED  BY <1>1, <2>2, <3>1, <3>2, CountersStep
    <2> QED  BY <2>1, <2>2
  <1> QED  BY <1>1, <1>2, <1>3, <1>4, ResetStep

(* Only a handler with the MK stores one.                                  *)
LEMMA MasterKeyStep ==
  ASSUME TypeOK, HandlersKnow, MasterKeySurvives, [Next]_vars
  PROVE  MasterKeySurvives'
  <1>1. ASSUME NEW k \in Calls, CompleteWrite(k)
        PROVE  mkKept'
    BY <1>1 DEF CompleteWrite, HandlersKnow
  <1>2. (\E k \in Calls : CompleteWrite(k)) \/ UNCHANGED mkKept
    BY DEF Next, Serve, vars, server, device, ghosts, RequestLookup, RequestSupersede,
           RequestStore, RequestActivate, Save, DelReset, DelActive, ApproveLoad,
           DenyLoad, Dismiss, Login, StatusRead, PollAnswer, ConfirmCode, BackToMenu,
           Reopen, CompleteLoad, CompleteRevoke, Drop, ExpireReset, ExpireActive
  <1> QED  BY <1>1, <1>2 DEF MasterKeySurvives

-------------------------------------------------------------------------------
LEMMA InitIInv == Init => IInv
  <1> SUFFICES ASSUME Init PROVE IInv
    OBVIOUS
  <1>1. TypeOK
    BY InitType
  <1>2. HandlersKnow /\ DeletedUnlessStale
    BY DEF Init, HandlersKnow, DeletedUnlessStale, Idle
  <1>3. UnissuedUntouched /\ MasterKeySurvives
    BY DEF Init, UnissuedUntouched, MasterKeySurvives
  <1>4. RefusalsAreCounted
    BY AttemptsAssumption DEF Init, RefusalsAreCounted, Gone
  <1> QED  BY <1>1, <1>2, <1>3, <1>4 DEF IInv

LEMMA IInvStep == IInv /\ [Next]_vars => IInv'
  <1> SUFFICES ASSUME IInv, [Next]_vars PROVE IInv'
    OBVIOUS
  <1> USE DEF IInv
  <1>1. TypeOK'
    BY TypeStep
  <1>2. HandlersKnow'
    BY HandlersStep
  <1>3. UnissuedUntouched'
    BY UnissuedStep
  <1>4. DeletedUnlessStale'
    BY DeletedStep
  <1>5. RefusalsAreCounted'
    BY RefusalsStep
  <1>6. MasterKeySurvives'
    BY MasterKeyStep
  <1> QED  BY <1>1, <1>2, <1>3, <1>4, <1>5, <1>6

(* Every reachable state satisfies the invariant behind the results on     *)
(* flow C.                                                                 *)
THEOREM Invariance == Spec => []IInv
  BY InitIInv, IInvStep, PTL DEF Spec

(* Every variable of the handshake keeps its type.                         *)
THEOREM TypeCorrect == Spec => []TypeOK
  <1>1. IInv => TypeOK
    BY DEF IInv
  <1> QED  BY <1>1, Invariance, PTL

(* Stale polls, repeated completes and failed handlers never store a wrap  *)
(* of anything but the account's master key.                               *)
THEOREM MasterKeyIsKept == Spec => []MasterKeySurvives
  <1>1. IInv => MasterKeySurvives
    BY DEF IInv
  <1> QED  BY <1>1, Invariance, PTL

(* Without a stale store, a reset has as many attempts as wrong codes were *)
(* answered, and always fewer than the limit.                              *)
THEOREM RefusalsCount == Spec => []RefusalsAreCounted
  <1>1. IInv => RefusalsAreCounted
    BY DEF IInv
  <1> QED  BY <1>1, Invariance, PTL

-------------------------------------------------------------------------------
(* Nobody takes hold of a reset that is gone.                              *)
LEMMA HoldsStep ==
  ASSUME TypeOK, [Next]_vars, NEW r \in Resets, reset[r] = Gone,
         \A k \in Calls : ~Holds(k, r)
  PROVE  \A k \in Calls : ~Holds(k, r)'
  <1> USE DEF ghosts, server, device
  <1>1. call \in [Calls -> Call] /\ r # 0
    BY DEF TypeOK, Resets
  <1>2. ASSUME NEW k \in Calls, NEW q, call' = [call EXCEPT ![k] = q],
               q.op = "request" \/ q.r # r
        PROVE  \A j \in Calls : ~Holds(j, r)'
    BY <1>1, <1>2 DEF Holds
  <1>3. ASSUME NEW k \in Calls, Finish(k)  PROVE  \A j \in Calls : ~Holds(j, r)'
    BY <1>1, <1>2, <1>3 DEF Finish, Idle
  <1>4. CASE UNCHANGED call
    BY <1>4 DEF Holds
  <1>5. ASSUME NEW k \in Calls, NEW pc, Goto(k, pc)
        PROVE  \A j \in Calls : ~Holds(j, r)'
    <2> DEFINE q == [call[k] EXCEPT !.pc = pc]
    <2>1. q.op = call[k].op /\ q.r = call[k].r
      BY CallFields DEF Call
    <2> QED  BY <1>2, <1>5, <2>1 DEF Goto, Holds
  <1>6. ASSUME NEW k \in Calls,
               RequestLookup(k) \/ RequestSupersede(k) \/ RequestStore(k)
        PROVE  \A j \in Calls : ~Holds(j, r)'
    <2>1. CASE RequestLookup(k)
      <3> DEFINE q == [Idle EXCEPT !.op = "request", !.pc = "supersede", !.r = active,
                                   !.heard = TRUE]
      <3>1. q.op = "request"
        BY DEF Idle
      <3> QED  BY <2>1, <3>1, <1>2 DEF RequestLookup, Begin
    <2>2. CASE RequestSupersede(k)
      <3> DEFINE q == [call[k] EXCEPT !.pc = "store", !.r = 0]
      <3>1. q.op = "request"
        BY <2>2, CallFields DEF RequestSupersede, At, Call
      <3> QED  BY <2>2, <3>1, <1>2 DEF RequestSupersede
    <2>3. CASE RequestStore(k)
      <3> DEFINE q == [call[k] EXCEPT !.pc = "activate", !.r = issued + 1]
      <3>1. q.op = "request"
        BY <2>3, CallFields DEF RequestStore, At, Call
      <3> QED  BY <2>3, <3>1, <1>2 DEF RequestStore
    <2> QED  BY <1>6, <2>1, <2>2, <2>3
  <1>7. ASSUME NEW k \in Calls, NEW d \in Devices, ApproveLoad(k, d) \/ DenyLoad(k, d)
        PROVE  \A j \in Calls : ~Holds(j, r)'
    <2>1. prompt[d] # r
      BY <1>7 DEF ApproveLoad, DenyLoad, Approvable, Gone
    <2>2. CASE ApproveLoad(k, d)
      <3> DEFINE q == [Idle EXCEPT !.op = "approve", !.pc = "save", !.r = prompt[d],
                                   !.seen = reset[prompt[d]], !.device = d]
      <3>1. q.r # r
        BY <2>1 DEF Idle
      <3> QED  BY <2>2, <3>1, <1>2 DEF ApproveLoad, Begin
    <2>3. CASE DenyLoad(k, d)
      <3> DEFINE q == [Idle EXCEPT !.op = "deny", !.pc = "del", !.r = prompt[d],
                                   !.device = d]
      <3>1. q.r # r
        BY <2>1 DEF Idle
      <3> QED  BY <2>3, <3>1, <1>2 DEF DenyLoad, Begin
    <2> QED  BY <1>7, <2>2, <2>3
  <1>8. ASSUME NEW k \in Calls, NEW ok \in BOOLEAN, CompleteLoad(k, ok)
        PROVE  \A j \in Calls : ~Holds(j, r)'
    <2> DEFINE q == [Idle EXCEPT !.op = "complete",
                       !.pc = IF ok THEN "write"
                              ELSE IF LastTry(reset[page.reset]) THEN "del" ELSE "save",
                       !.r = page.reset, !.seen = reset[page.reset], !.ok = ok,
                       !.mk = (page.sealed = page.reset), !.heard = TRUE]
    <2>1. page.reset # r
      BY <1>8 DEF CompleteLoad, Gone
    <2>2. q.r # r
      BY <2>1 DEF Idle
    <2> QED  BY <1>8, <2>2, <1>2 DEF CompleteLoad, Begin
  <1>9. CASE Reopen
    <2> SUFFICES ASSUME NEW k \in Calls PROVE ~Holds(k, r)'
      OBVIOUS
    <2>1. call'[k].op = call[k].op /\ call'[k].r = call[k].r
      BY <1>9, CallFields DEF Reopen, Call
    <2> QED  BY <2>1 DEF Holds
  <1>10. ASSUME NEW k \in Calls, NEW D \in SUBSET Devices,
                \/ RequestActivate(k, D) \/ Save(k) \/ DelReset(k) \/ DelActive(k)
                \/ CompleteWrite(k) \/ CompleteRevoke(k) \/ Drop(k)
         PROVE  \A j \in Calls : ~Holds(j, r)'
    BY <1>3, <1>5, <1>10
       DEF RequestActivate, Save, DelReset, DelActive, CompleteWrite, CompleteRevoke, Drop
  <1>11. ASSUME NEW d \in Devices, Dismiss(d) \/ Login(d)
         PROVE  \A j \in Calls : ~Holds(j, r)'
    BY <1>4, <1>11 DEF Dismiss, Login
  <1>12. CASE StatusRead \/ PollAnswer \/ ConfirmCode \/ BackToMenu \/ ExpireActive
    BY <1>4, <1>12 DEF StatusRead, PollAnswer, ConfirmCode, BackToMenu, ExpireActive
  <1>13. ASSUME NEW x \in Resets, ExpireReset(x)  PROVE  \A j \in Calls : ~Holds(j, r)'
    BY <1>4, <1>13 DEF ExpireReset
  <1>14. CASE UNCHANGED vars
    BY <1>4, <1>14 DEF vars
  <1> QED
    BY <1>6, <1>7, <1>8, <1>9, <1>10, <1>11, <1>12, <1>13, <1>14 DEF Next, Serve

LEMMA SettledStep ==
  ASSUME IInv, [Next]_vars, NEW r \in Resets, Settled(r)
  PROVE  Settled(r)'
  <1> USE DEF IInv
  <1>1. r <= issued /\ reset[r] = Gone /\ \A k \in Calls : ~Holds(k, r)
    BY DEF Settled
  <1>2. \A k \in Calls : ~Holds(k, r)'
    BY <1>1, HoldsStep
  <1>3. r <= issued' /\ r # issued + 1
    BY <1>1, IssuedGrows, BoundAssumption DEF Resets
  <1>4. ASSUME NEW k \in Calls, Save(k)  PROVE  call[k].r # r
    <2>1. Holds(k, call[k].r)
      BY <1>4, HandlerHolds DEF Save
    <2> QED  BY <1>1, <2>1
  <1>5. reset'[r] = Gone
    BY <1>1, <1>3, <1>4, ResetStep
  <1> QED  BY <1>2, <1>3, <1>5 DEF Settled

(* A reset that is gone, and that no handler has a copy of, never comes    *)
(* back: denial, supersession, the attempt limit and completion are final  *)
(* once the handlers that were at work have returned.                      *)
THEOREM SettledIsFinal == Spec => SettledForGood
  <1>1. IInv /\ [Next]_vars =>
          [\A r \in Resets : Settled(r) => Settled(r)']_vars
    BY SettledStep
  <1> QED  BY <1>1, Invariance, PTL DEF Spec, SettledForGood

=============================================================================

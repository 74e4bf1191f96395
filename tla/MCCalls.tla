-------------------------------- MODULE MCCalls --------------------------------
(***************************************************************************)
(* What reaches a user live: the signalling of calls, the media of one     *)
(* client, the media server's room, presence and push.  A behaviour is one *)
(* of one part, so their state spaces add up.                              *)
(***************************************************************************)
EXTENDS CallSignals, CallSession, SfuRooms, Presence, Push, TLC

VARIABLE part   \* the part a behaviour is about

CallParts == {"signals", "session", "sfu", "presence", "push"}

Init ==
  /\ part \in CallParts
  /\ SignalsInit /\ (part # "signals" => direct)
  /\ SessionInit
  /\ SfuInit /\ PresenceInit /\ PushInit

Next ==
  /\ UNCHANGED part
  /\ \/ /\ part = "signals"
        /\ UNCHANGED <<sessionVars, sfuVars, presenceVars, pushVars>>
        /\ SignalsNext
     \/ /\ part = "session"
        /\ UNCHANGED <<callVars, sfuVars, presenceVars, pushVars>>
        /\ SessionNext
     \/ /\ part = "sfu"
        /\ UNCHANGED <<callVars, sessionVars, presenceVars, pushVars>>
        /\ SfuNext
     \/ /\ part = "presence"
        /\ UNCHANGED <<callVars, sessionVars, sfuVars, pushVars>>
        /\ PresenceNext
     \/ /\ part = "push"
        /\ UNCHANGED <<callVars, sessionVars, sfuVars, presenceVars>>
        /\ PushNext

Spec == Init /\ [][Next]_<<part, callVars, sessionVars, sfuVars, presenceVars, pushVars>>

(* The variables of the other parts never change.                          *)
CallsTypeOK ==
  CASE part = "signals" -> SignalsTypeOK
    [] part = "session" -> SessionTypeOK
    [] part = "sfu" -> SfuTypeOK
    [] part = "presence" -> PresenceTypeOK
    [] part = "push" -> PushTypeOK

(* Of a share that is not being produced only a running capture's listener *)
(* is left.                                                                *)
SessionState ==
  <<store, media, share, display, late, early, strayShare,
    [s \in Shares |-> IF share[s] = "producing" THEN shareOn[s]
                      ELSE IF s \in display /\ shareOn[s] # 0 THEN 1 ELSE 0]>>

View ==
  <<part, CASE part = "signals" -> callVars
            [] part = "session" -> SessionState
            [] part = "sfu" -> sfuVars
            [] part = "presence" -> presenceVars
            [] part = "push" -> pushVars>>

(* The parts share their model values, so that two permutations serve all: *)
(* Sockets is Users, and Shares is Handlers.                               *)
Symm == Permutations(Users) \union Permutations(Handlers)
=============================================================================

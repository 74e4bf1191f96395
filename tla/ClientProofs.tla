------------------------------ MODULE ClientProofs ------------------------------
(***************************************************************************)
(* Theorems about the chat client, for any number of messages, requests,   *)
(* takes, uploads, members and keys: direct chats, the row of a chat, the  *)
(* selection, the recorder, attachments, pins and the messages themselves; *)
(* at the end, that they hold of the combined specification too.           *)
(***************************************************************************)
EXTENDS MCClient, RatchetProofs, FiniteSetTheorems, SequenceTheorems, TLAPS

(***************************************************************************)
(* Direct chats.                                                           *)
(***************************************************************************)

LEMMA DirectInitHolds == DirectInit => DirectInv
  <1> SUFFICES ASSUME DirectInit
               PROVE  DirectInv
    OBVIOUS
  <1>1. NotOpening \in Opening /\ NotSending \in Sending /\ 0 \in 0..MaxCKs
    BY DirectBounds DEF NotOpening, Opening, NotSending, Sending
  <1>2. DirectTypeOK
    BY <1>1 DEF DirectInit, DirectTypeOK
  <1>3. OneKeyPerChat /\ NoMessageStaysHidden
    BY DEF DirectInit, OneKeyPerChat, NoMessageStaysHidden
  <1>4. KeysFresh
    BY DEF DirectInit, NotOpening, KeysFresh
  <1>5. MissedAreHidden
    BY DEF DirectInit, MissedAreHidden
  <1>6. KeysUsedOnce
    BY DEF DirectInit, NotOpening, KeysUsedOnce
  <1> QED
    BY <1>2, <1>3, <1>4, <1>5, <1>6 DEF DirectInv

LEMMA DirectTypeStep ==
  ASSUME DirectTypeOK, [DirectNext]_directVars
  PROVE  DirectTypeOK'
  <1>0. /\ dms \subseteq DMs /\ generated \in 0..MaxCKs
        /\ sealed \in [DMs -> 0..MaxCKs]
        /\ opening \in [Users -> Opening]
        /\ cached \in [Users -> [DMs -> 0..MaxCKs]]
        /\ hiddenFor \in [DMs -> SUBSET Users] /\ blockedBy \in [DMs -> SUBSET Users]
        /\ missed \in [DMs -> SUBSET Users] /\ forwarded \in [DMs -> SUBSET Users]
        /\ posting \in [Users -> Sending] /\ stopped \in BOOLEAN
    BY DEF DirectTypeOK
  <1>1. NotOpening \in Opening /\ NotSending \in Sending
    BY DirectBounds DEF NotOpening, Opening, NotSending, Sending
  <1>2. CASE UNCHANGED directVars
    BY <1>0, <1>2 DEF directVars, keyVars, sendVars, hidingVars, DirectTypeOK
  <1>3. ASSUME NEW u \in Users,
               OpenDM(u) \/ FindDM(u) \/ ReopenDM(u) \/ CreateDM(u) \/ Opened(u)
                 \/ OpenFails(u)
        PROVE  DirectTypeOK'
    <2>0. \A d \in DMs \union {NoDM}, k \in 0..MaxCKs,
             pc \in {"idle", "asked", "found", "absent", "existing", "created"} :
            /\ [opening[u] EXCEPT !.pc = pc] \in Opening
            /\ [opening[u] EXCEPT !.dm = d, !.pc = pc] \in Opening
            /\ [NotOpening EXCEPT !.pc = pc, !.ck = k] \in Opening
      BY <1>0, <1>1 DEF Opening, NotOpening
    <2>1. CASE OpenDM(u)
      <3>1. generated + 1 \in 0..MaxCKs
        BY <1>0, <2>1, DirectBounds DEF OpenDM
      <3> QED
        BY <1>0, <2>0, <2>1, <3>1 DEF OpenDM, sendVars, hidingVars, DirectTypeOK
    <2>2. CASE FindDM(u)
      <3>1. opening' \in [Users -> Opening]
        <4>1. CASE To(u, "absent")
          BY <1>0, <2>0, <4>1 DEF To
        <4>2. CASE ~To(u, "absent")
          <5>1. PICK d \in dms :
                  opening' = [opening EXCEPT ![u] = [@ EXCEPT !.dm = d,
                                !.pc = IF u \in hiddenFor[d] THEN "found"
                                       ELSE "existing"]]
            BY <2>2, <4>2 DEF FindDM
          <5>2. d \in DMs
            BY <1>0
          <5> QED
            BY <1>0, <2>0, <5>1, <5>2
        <4> QED
          BY <4>1, <4>2
      <3> QED
        BY <1>0, <2>2, <3>1 DEF FindDM, sendVars, hidingVars, DirectTypeOK
    <2>3. CASE ReopenDM(u)
      <3>1. opening' \in [Users -> Opening]
        <4>1. CASE To(u, "existing")
          BY <1>0, <2>0, <4>1 DEF To
        <4>2. CASE opening' = [opening EXCEPT ![u] = NotOpening]
          BY <1>0, <1>1, <4>2
        <4> QED
          BY <2>3, <4>1, <4>2 DEF ReopenDM
      <3>2. hiddenFor' \in [DMs -> SUBSET Users] /\ missed' \in [DMs -> SUBSET Users]
            /\ forwarded' \in [DMs -> SUBSET Users]
        <4>1. CASE opening[u].dm \in dms
          <5>1. PICK d \in DMs : d = opening[u].dm
            BY <1>0, <4>1
          <5>2. /\ hiddenFor' = [hiddenFor EXCEPT ![d] = @ \ {u}]
                /\ missed' = [missed EXCEPT ![d] = @ \ {u}]
                /\ forwarded' = [forwarded EXCEPT ![d] = @ \ {u}]
            BY <2>3, <4>1, <5>1 DEF ReopenDM
          <5> QED
            BY <1>0, <5>1, <5>2
        <4>2. CASE opening[u].dm \notin dms
          BY <1>0, <2>3, <4>2 DEF ReopenDM, hidingVars
        <4> QED
          BY <4>1, <4>2
      <3> QED
        BY <1>0, <2>3, <3>1, <3>2 DEF ReopenDM, sendVars, hidingVars, DirectTypeOK
    <2>4. CASE CreateDM(u)
      <3>1. PICK d \in DMs \ dms :
              /\ dms' = dms \union {d}
              /\ sealed' = [sealed EXCEPT ![d] = opening[u].ck]
              /\ opening' = [opening EXCEPT ![u] = [@ EXCEPT !.dm = d, !.pc = "created"]]
        BY <2>4 DEF CreateDM
      <3>2. opening[u].ck \in 0..MaxCKs
        BY <1>0 DEF Opening
      <3> QED
        BY <1>0, <2>0, <2>4, <3>1, <3>2 DEF CreateDM, sendVars, hidingVars, DirectTypeOK
    <2>5. CASE Opened(u)
      <3>1. opening[u].ck \in 0..MaxCKs
        BY <1>0 DEF Opening
      <3>2. cached' \in [Users -> [DMs -> 0..MaxCKs]]
        BY <1>0, <2>5, <3>1 DEF Opened
      <3> QED
        BY <1>0, <1>1, <2>5, <3>2 DEF Opened, sendVars, hidingVars, DirectTypeOK
    <2>6. CASE OpenFails(u)
      BY <1>0, <1>1, <2>6 DEF OpenFails, sendVars, hidingVars, DirectTypeOK
    <2> QED
      BY <1>3, <2>1, <2>2, <2>3, <2>4, <2>5, <2>6
  <1>4. ASSUME NEW u \in Users,
               SendAllowed(u) \/ StoreMessage(u) \/ Unhide(u) \/ SendStops(u)
        PROVE  DirectTypeOK'
    <2>1. \A pc \in {"idle", "asked", "allowed", "stored"} :
            [posting[u] EXCEPT !.pc = pc] \in Sending
      BY <1>0 DEF Sending
    <2>2. posting' \in [Users -> Sending]
      BY <1>0, <1>1, <1>4, <2>1 DEF SendAllowed, StoreMessage, Unhide, SendStops
    <2>3. missed' \in [DMs -> SUBSET Users] /\ hiddenFor' \in [DMs -> SUBSET Users]
          /\ forwarded' \in [DMs -> SUBSET Users]
      <3>1. CASE SendAllowed(u)
        BY <1>0, <3>1 DEF SendAllowed, hidingVars
      <3>2. CASE StoreMessage(u)
        BY <1>0, <3>2 DEF StoreMessage, hidingVars
      <3>3. CASE Unhide(u)
        BY <1>0, <3>3 DEF Unhide
      <3>4. CASE SendStops(u)
        BY <1>0, <3>4 DEF SendStops, hidingVars
      <3> QED
        BY <1>4, <3>1, <3>2, <3>3, <3>4
    <2>4. stopped' = stopped \/ stopped' = TRUE
      BY <1>4, Zenon DEF SendAllowed, StoreMessage, Unhide, SendStops
    <2>5. UNCHANGED keyVars /\ blockedBy' = blockedBy
      BY <1>4 DEF SendAllowed, StoreMessage, Unhide, SendStops
    <2> QED
      BY <1>0, <2>2, <2>3, <2>4, <2>5 DEF keyVars, DirectTypeOK
  <1>5. ASSUME NEW u \in Users, NEW d \in DMs,
               GetCK(u, d) \/ Send(u, d) \/ Hide(u, d) \/ HardDelete(d) \/ Block(u, d)
                 \/ Forward(d)
        PROVE  DirectTypeOK'
    <2>1. [pc |-> "asked", dm |-> d] \in Sending
      BY DEF Sending
    <2>2. CASE GetCK(u, d) \/ Send(u, d)
      <3>1. cached' \in [Users -> [DMs -> 0..MaxCKs]]
        <4>1. CASE GetCK(u, d)
          BY <1>0, <4>1 DEF GetCK
        <4>2. CASE Send(u, d)
          BY <1>0, <4>2 DEF Send, keyVars
        <4> QED
          BY <2>2, <4>1, <4>2
      <3> QED
        BY <1>0, <2>1, <2>2, <3>1 DEF GetCK, Send, keyVars, sendVars, hidingVars, DirectTypeOK
    <2>3. CASE Hide(u, d)
      BY <1>0, <2>3 DEF Hide, keyVars, sendVars, hidingVars, DirectTypeOK
    <2>4. CASE HardDelete(d)
      BY <1>0, <2>4 DEF HardDelete, sendVars, hidingVars, DirectTypeOK
    <2>5. CASE Block(u, d)
      BY <1>0, <2>5 DEF Block, keyVars, sendVars, hidingVars, DirectTypeOK
    <2>6. CASE Forward(d)
      BY <1>0, <2>6 DEF Forward, keyVars, sendVars, DirectTypeOK
    <2> QED
      BY <1>5, <2>2, <2>3, <2>4, <2>5, <2>6
  <1> QED
    BY <1>2, <1>3, <1>4, <1>5 DEF DirectNext

(***************************************************************************)
(* Keys.                                                                   *)
(***************************************************************************)

(* The wraps of a chat are written once, and a client keeps a key only of  *)
(* the chat it was stored for.                                             *)
LEMMA DirectKeyStep ==
  ASSUME DirectTypeOK, KeysFresh, OneKeyPerChat, [DirectNext]_directVars
  PROVE  KeysFresh' /\ OneKeyPerChat'
  <1>0. /\ sealed \in [DMs -> 0..MaxCKs] /\ opening \in [Users -> Opening]
        /\ cached \in [Users -> [DMs -> 0..MaxCKs]]
        /\ generated \in Nat
    BY DirectBounds DEF DirectTypeOK
  <1>1. CASE UNCHANGED <<sealed, opening, cached>>
    BY <1>1 DEF KeysFresh, OneKeyPerChat
  <1>2. ASSUME NEW u \in Users, UNCHANGED <<sealed, cached>>,
               \A v \in Users \ {u} : opening'[v] = opening[v],
               /\ opening'[u].pc # "created"
               /\ opening'[u].pc # "idle" => opening'[u].ck # 0
        PROVE  KeysFresh' /\ OneKeyPerChat'
    BY <1>2 DEF KeysFresh, OneKeyPerChat
  <1>3. ASSUME NEW u \in Users, OpenDM(u)
        PROVE  KeysFresh' /\ OneKeyPerChat'
    <2>1. generated + 1 # 0
      BY <1>0
    <2>2. opening'[u].pc = "asked" /\ opening'[u].ck # 0
      BY <1>0, <1>3, <2>1 DEF OpenDM, NotOpening
    <2> QED
      BY <1>0, <1>2, <1>3, <2>2 DEF OpenDM
  <1>4. ASSUME NEW u \in Users, FindDM(u)
        PROVE  KeysFresh' /\ OneKeyPerChat'
    <2>1. /\ opening'[u].pc \in {"absent", "found", "existing"}
          /\ opening'[u].ck = opening[u].ck
          /\ \A v \in Users \ {u} : opening'[v] = opening[v]
      <3>0. opening[u] \in Opening
        BY <1>0
      <3>1. CASE To(u, "absent")
        BY <1>0, <3>0, <3>1 DEF To, Opening
      <3>2. ASSUME NEW d \in dms, NEW pc \in {"found", "existing"},
                   opening' = [opening EXCEPT ![u] = [@ EXCEPT !.dm = d, !.pc = pc]]
            PROVE  /\ opening'[u].pc \in {"absent", "found", "existing"}
                   /\ opening'[u].ck = opening[u].ck
                   /\ \A v \in Users \ {u} : opening'[v] = opening[v]
        BY <1>0, <3>0, <3>2 DEF Opening
      <3> QED
        BY <1>4, <3>1, <3>2 DEF FindDM
    <2>2. opening[u].ck # 0
      BY <1>4 DEF FindDM, KeysFresh
    <2> QED
      BY <1>2, <1>4, <2>1, <2>2 DEF FindDM
  <1>5. ASSUME NEW u \in Users, ReopenDM(u) \/ OpenFails(u)
        PROVE  KeysFresh' /\ OneKeyPerChat'
    <2>1. \/ opening'[u] = NotOpening
          \/ opening[u].pc = "found" /\ opening'[u] = [opening[u] EXCEPT !.pc = "existing"]
      BY <1>0, <1>5 DEF ReopenDM, OpenFails, To
    <2>2. /\ opening'[u].pc # "created"
          /\ opening'[u].pc # "idle" => opening'[u].ck # 0
      BY <1>0, <2>1 DEF NotOpening, KeysFresh, Opening
    <2>3. \A v \in Users \ {u} : opening'[v] = opening[v]
      BY <1>0, <1>5 DEF ReopenDM, OpenFails, To
    <2> QED
      BY <1>2, <1>5, <2>2, <2>3 DEF ReopenDM, OpenFails
  <1>6. ASSUME NEW u \in Users, CreateDM(u)
        PROVE  KeysFresh' /\ OneKeyPerChat'
    <2>1. PICK d \in DMs \ dms :
            /\ sealed[d] = 0
            /\ sealed' = [sealed EXCEPT ![d] = opening[u].ck]
            /\ opening' = [opening EXCEPT ![u] = [@ EXCEPT !.dm = d, !.pc = "created"]]
      BY <1>6 DEF CreateDM
    <2>2. opening[u].ck # 0 /\ opening[u] \in Opening
      BY <1>0, <1>6 DEF CreateDM, KeysFresh
    <2>3. \A e \in DMs : sealed[e] # 0 => sealed'[e] = sealed[e]
      BY <1>0, <2>1
    <2>4. /\ opening'[u].dm = d /\ opening'[u].ck = opening[u].ck
          /\ sealed'[d] = opening[u].ck
          /\ \A v \in Users \ {u} : opening'[v] = opening[v]
      BY <1>0, <2>1, <2>2 DEF Opening
    <2>5. KeysFresh'
      <3> SUFFICES ASSUME NEW v \in Users
                   PROVE  /\ opening'[v].pc # "idle" => opening'[v].ck # 0
                          /\ opening'[v].pc = "created" =>
                               /\ opening'[v].dm \in DMs
                               /\ sealed'[opening'[v].dm] = opening'[v].ck
        BY DEF KeysFresh
      <3>1. CASE v = u
        BY <2>2, <2>4, <3>1
      <3>2. CASE v # u
        BY <2>3, <2>4, <3>2 DEF KeysFresh
      <3> QED
        BY <3>1, <3>2
    <2>6. OneKeyPerChat'
      BY <1>6, <2>3 DEF CreateDM, OneKeyPerChat
    <2> QED
      BY <2>5, <2>6
  <1>7. ASSUME NEW u \in Users, Opened(u)
        PROVE  KeysFresh' /\ OneKeyPerChat'
    <2>1. /\ opening'[u] = NotOpening /\ sealed' = sealed
          /\ \A v \in Users \ {u} : opening'[v] = opening[v]
      BY <1>0, <1>7 DEF Opened
    <2>2. KeysFresh'
      BY <2>1 DEF KeysFresh, NotOpening
    <2>3. Primes(u) => opening[u].dm \in DMs /\ sealed[opening[u].dm] = opening[u].ck
      BY DEF Primes, KeysFresh
    <2>4. OneKeyPerChat'
      <3> SUFFICES ASSUME NEW v \in Users, NEW e \in DMs
                   PROVE  cached'[v][e] \in {0, sealed[e]}
        BY <2>1 DEF OneKeyPerChat
      <3>1. CASE Primes(u) /\ v = u /\ e = opening[u].dm
        BY <1>0, <1>7, <2>3, <3>1 DEF Opened
      <3>2. CASE ~(Primes(u) /\ v = u /\ e = opening[u].dm)
        <4>1. cached'[v][e] = cached[v][e]
          BY <1>0, <1>7, <3>2 DEF Opened
        <4> QED
          BY <4>1 DEF OneKeyPerChat
      <3> QED
        BY <3>1, <3>2
    <2> QED
      BY <2>2, <2>4
  <1>8. ASSUME NEW u \in Users, NEW d \in DMs, GetCK(u, d)
        PROVE  KeysFresh' /\ OneKeyPerChat'
    BY <1>0, <1>8 DEF GetCK, KeysFresh, OneKeyPerChat
  <1> QED
    BY <1>1, <1>3, <1>4, <1>5, <1>6, <1>7, <1>8
       DEF DirectNext, directVars, keyVars, SendAllowed, StoreMessage, Unhide,
           SendStops, Send, Hide, HardDelete, Block, Forward

(* Each opening generates a key of its own, and only the one that creates  *)
(* the chat stores it.                                                     *)
LEMMA DirectUseStep ==
  ASSUME DirectTypeOK, KeysUsedOnce, [DirectNext]_directVars
  PROVE  KeysUsedOnce'
  <1>0. /\ sealed \in [DMs -> Nat] /\ opening \in [Users -> Opening]
        /\ generated \in Nat /\ \A v \in Users : opening[v].ck \in Nat
    BY DirectBounds DEF DirectTypeOK, Opening
  <1>1. CASE UNCHANGED <<sealed, generated, opening>>
    BY <1>1 DEF KeysUsedOnce
  <1>2. ASSUME NEW u \in Users, UNCHANGED <<sealed, generated>>,
               \A v \in Users \ {u} : opening'[v] = opening[v],
               \/ opening'[u].ck = 0
               \/ /\ opening'[u].ck = opening[u].ck
                  /\ opening[u].pc # "created"
        PROVE  KeysUsedOnce'
    <2>1. /\ \A v \in Users : opening'[v].ck \in {0, opening[v].ck}
          /\ \A v \in Users : \A d \in DMs :
               sealed[d] # 0 /\ sealed[d] = opening'[v].ck =>
                 opening'[v].pc = "created"
      BY <1>2 DEF KeysUsedOnce
    <2>2. \A v \in Users : opening'[v].ck <= generated
      BY <1>0, <2>1 DEF KeysUsedOnce
    <2>3. \A v, w \in Users :
            opening'[v].ck # 0 /\ opening'[v].ck = opening'[w].ck => v = w
      BY <2>1 DEF KeysUsedOnce
    <2> QED
      BY <1>2, <2>1, <2>2, <2>3 DEF KeysUsedOnce
  <1>3. ASSUME NEW u \in Users, FindDM(u)
        PROVE  KeysUsedOnce'
    <2>0. opening[u] \in Opening
      BY <1>0
    <2>1. ASSUME NEW o \in Opening, opening' = [opening EXCEPT ![u] = o],
                 o.ck = opening[u].ck
          PROVE  KeysUsedOnce'
      BY <1>0, <1>2, <1>3, <2>1 DEF FindDM
    <2>2. CASE To(u, "absent")
      <3>1. /\ [opening[u] EXCEPT !.pc = "absent"] \in Opening
            /\ [opening[u] EXCEPT !.pc = "absent"].ck = opening[u].ck
        BY <2>0 DEF Opening
      <3> QED
        BY <2>1, <2>2, <3>1 DEF To
    <2>3. ASSUME NEW d \in dms, NEW pc \in {"found", "existing"},
                 opening' = [opening EXCEPT ![u] = [@ EXCEPT !.dm = d, !.pc = pc]]
          PROVE  KeysUsedOnce'
      <3>1. /\ [opening[u] EXCEPT !.dm = d, !.pc = pc] \in Opening
            /\ [opening[u] EXCEPT !.dm = d, !.pc = pc].ck = opening[u].ck
        BY <2>0 DEF Opening, DirectTypeOK
      <3> QED
        BY <2>1, <2>3, <3>1
    <2> QED
      BY <1>3, <2>2, <2>3 DEF FindDM
  <1>4. ASSUME NEW u \in Users, ReopenDM(u) \/ Opened(u) \/ OpenFails(u)
        PROVE  KeysUsedOnce'
    <2>1. /\ UNCHANGED <<sealed, generated>>
          /\ \A v \in Users \ {u} : opening'[v] = opening[v]
          /\ \/ opening'[u] = NotOpening
             \/ opening[u].pc = "found" /\ opening'[u] = [opening[u] EXCEPT !.pc = "existing"]
      BY <1>0, <1>4 DEF ReopenDM, Opened, OpenFails, To
    <2>2. \/ opening'[u].ck = 0
          \/ opening'[u].ck = opening[u].ck /\ opening[u].pc # "created"
      BY <1>0, <2>1 DEF NotOpening, Opening
    <2> QED
      BY <1>2, <2>1, <2>2
  <1>5. ASSUME NEW u \in Users, OpenDM(u)
        PROVE  KeysUsedOnce'
    <2>1. /\ generated' = generated + 1 /\ sealed' = sealed
          /\ opening'[u].ck = generated + 1
          /\ \A v \in Users \ {u} : opening'[v] = opening[v]
      BY <1>0, <1>5 DEF OpenDM, NotOpening
    <2>2. /\ \A d \in DMs : sealed[d] <= generated
          /\ \A v \in Users : opening[v].ck <= generated
      BY DEF KeysUsedOnce
    <2>3. \A d \in DMs : sealed'[d] <= generated' /\ sealed'[d] # opening'[u].ck
      BY <1>0, <2>1, <2>2
    <2>4. \A v \in Users : opening'[v].ck <= generated'
      BY <1>0, <2>1, <2>2
    <2>5. \A v \in Users \ {u} : opening'[v].ck # opening'[u].ck
      BY <1>0, <2>1, <2>2
    <2>6. \A v, w \in Users :
            opening'[v].ck # 0 /\ opening'[v].ck = opening'[w].ck => v = w
      BY <2>1, <2>5 DEF KeysUsedOnce
    <2>7. \A v \in Users : \A d \in DMs :
            sealed'[d] # 0 /\ sealed'[d] = opening'[v].ck => opening'[v].pc = "created"
      BY <2>1, <2>3 DEF KeysUsedOnce
    <2> QED
      BY <2>3, <2>4, <2>6, <2>7 DEF KeysUsedOnce
  <1>6. ASSUME NEW u \in Users, CreateDM(u)
        PROVE  KeysUsedOnce'
    <2>1. PICK e \in DMs \ dms :
            /\ sealed' = [sealed EXCEPT ![e] = opening[u].ck]
            /\ opening' = [opening EXCEPT ![u] = [@ EXCEPT !.dm = e, !.pc = "created"]]
      BY <1>6 DEF CreateDM
    <2>2. opening[u] \in Opening /\ generated' = generated
      BY <1>0, <1>6 DEF CreateDM
    <2>3. /\ opening'[u].pc = "created"
          /\ \A v \in Users : opening'[v].ck = opening[v].ck
          /\ \A v \in Users \ {u} : opening'[v] = opening[v]
      BY <1>0, <2>1, <2>2 DEF Opening
    <2>4. \A d \in DMs : sealed'[d] \in {sealed[d], opening[u].ck}
      BY <1>0, <2>1
    <2>5. \A d \in DMs : sealed'[d] <= generated'
      BY <2>2, <2>4 DEF KeysUsedOnce
    <2>6. \A v \in Users : \A d \in DMs :
            sealed'[d] # 0 /\ sealed'[d] = opening'[v].ck => opening'[v].pc = "created"
      BY <2>3, <2>4 DEF KeysUsedOnce
    <2> QED
      BY <2>2, <2>3, <2>5, <2>6 DEF KeysUsedOnce
  <1> QED
    BY <1>1, <1>3, <1>4, <1>5, <1>6
       DEF DirectNext, directVars, keyVars, SendAllowed, StoreMessage, Unhide,
           SendStops, GetCK, Send, Hide, HardDelete, Block, Forward

(***************************************************************************)
(* Messages to hidden chats.                                               *)
(***************************************************************************)

LEMMA DirectMissedStep ==
  ASSUME DirectTypeOK, MissedAreHidden, [DirectNext]_directVars
  PROVE  MissedAreHidden'
  <1>0. /\ hiddenFor \in [DMs -> SUBSET Users] /\ missed \in [DMs -> SUBSET Users]
        /\ \A d \in DMs : missed[d] \subseteq hiddenFor[d]
        /\ \A d \in DMs \ dms : missed[d] = {}
    BY DEF DirectTypeOK, MissedAreHidden
  <1>1. CASE UNCHANGED <<missed, hiddenFor>> /\ dms \subseteq dms'
    BY <1>1 DEF MissedAreHidden
  <1>2. ASSUME NEW u \in Users, ReopenDM(u) \/ StoreMessage(u) \/ Unhide(u)
        PROVE  MissedAreHidden'
    BY <1>0, <1>2 DEF ReopenDM, StoreMessage, Unhide, keyVars, hidingVars, MissedAreHidden
  <1>3. ASSUME NEW u \in Users, NEW d \in DMs, Hide(u, d) \/ HardDelete(d) \/ Forward(d)
        PROVE  MissedAreHidden'
    BY <1>0, <1>3 DEF Hide, HardDelete, Forward, keyVars, MissedAreHidden
  <1> QED
    BY <1>1, <1>2, <1>3
       DEF DirectNext, directVars, keyVars, hidingVars, OpenDM, FindDM, CreateDM, Opened,
           OpenFails, GetCK, Send, SendAllowed, SendStops, Block

LEMMA DirectHiddenStep ==
  ASSUME DirectTypeOK, MissedAreHidden, NoMessageStaysHidden, [DirectNext]_directVars
  PROVE  NoMessageStaysHidden'
  <1> SUFFICES ASSUME NEW d \in dms', ~(missed'[d] \subseteq forwarded'[d]), ~stopped'
               PROVE  \E v \in Users : posting'[v] = [pc |-> "stored", dm |-> d]
    BY DEF NoMessageStaysHidden
  <1>0. /\ hiddenFor \in [DMs -> SUBSET Users] /\ missed \in [DMs -> SUBSET Users]
        /\ forwarded \in [DMs -> SUBSET Users]
        /\ posting \in [Users -> Sending] /\ dms \subseteq DMs
        /\ \A e \in DMs \ dms : missed[e] = {}
    BY DEF DirectTypeOK, MissedAreHidden
  <1>1. ASSUME d \in DMs, ~(missed[d] \subseteq forwarded[d]), ~stopped
        PROVE  \E v \in Users : posting[v] = [pc |-> "stored", dm |-> d]
    BY <1>0, <1>1 DEF NoMessageStaysHidden
  <1>2. CASE /\ UNCHANGED <<posting, stopped>> /\ d \in DMs
             /\ missed'[d] \ forwarded'[d] \subseteq missed[d] \ forwarded[d]
    BY <1>1, <1>2
  <1>3. ASSUME NEW u \in Users, NEW e \in DMs, Send(u, e)
        PROVE  \E v \in Users : posting'[v] = [pc |-> "stored", dm |-> d]
    <2>1. PICK v \in Users : posting[v] = [pc |-> "stored", dm |-> d]
      BY <1>0, <1>1, <1>3 DEF Send, keyVars, hidingVars
    <2>2. v # u
      BY <1>3, <2>1 DEF Send
    <2> QED
      BY <1>0, <1>3, <2>1, <2>2 DEF Send
  <1>4. ASSUME NEW u \in Users, SendAllowed(u)
        PROVE  \E v \in Users : posting'[v] = [pc |-> "stored", dm |-> d]
    <2>1. PICK v \in Users : posting[v] = [pc |-> "stored", dm |-> d]
      BY <1>0, <1>1, <1>4 DEF SendAllowed, keyVars, hidingVars
    <2>2. v # u
      BY <1>4, <2>1 DEF SendAllowed
    <2> QED
      BY <1>0, <1>4, <2>1, <2>2 DEF SendAllowed
  <1>5. ASSUME NEW u \in Users, StoreMessage(u)
        PROVE  \E v \in Users : posting'[v] = [pc |-> "stored", dm |-> d]
    <2>0. posting[u].pc = "allowed" /\ posting[u] \in Sending /\ dms' = dms /\ d \in DMs
          /\ stopped' = stopped
      BY <1>0, <1>5 DEF StoreMessage, keyVars
    <2>1. CASE posting[u].dm = d
      <3>1. posting'[u] = [posting[u] EXCEPT !.pc = "stored"]
        BY <1>0, <1>5, <2>0, <2>1 DEF StoreMessage
      <3> QED
        BY <2>0, <2>1, <3>1 DEF Sending
    <2>2. CASE posting[u].dm # d
      <3>1. missed'[d] = missed[d] /\ forwarded' = forwarded
        BY <1>0, <1>5, <2>0, <2>2 DEF StoreMessage
      <3>2. PICK v \in Users : posting[v] = [pc |-> "stored", dm |-> d]
        BY <1>1, <2>0, <3>1
      <3>3. v # u
        BY <2>0, <3>2
      <3> QED
        BY <1>0, <1>5, <3>2, <3>3 DEF StoreMessage
    <2> QED
      BY <2>1, <2>2
  <1>6. ASSUME NEW u \in Users, Unhide(u)
        PROVE  \E v \in Users : posting'[v] = [pc |-> "stored", dm |-> d]
    <2>0. posting[u].pc = "stored" /\ posting[u] \in Sending /\ dms' = dms /\ d \in DMs
          /\ stopped' = stopped
      BY <1>0, <1>6 DEF Unhide, keyVars
    <2>1. posting[u].dm # d /\ missed'[d] = missed[d] /\ forwarded'[d] = forwarded[d]
      BY <1>0, <1>6, <2>0 DEF Unhide, BackFor
    <2>2. PICK v \in Users : posting[v] = [pc |-> "stored", dm |-> d]
      BY <1>1, <2>0, <2>1
    <2>3. v # u
      BY <2>1, <2>2
    <2> QED
      BY <1>0, <1>6, <2>2, <2>3 DEF Unhide
  <1>7. ASSUME NEW u \in Users, SendStops(u)
        PROVE  FALSE
    BY <1>7 DEF SendStops
  <1>8. ASSUME NEW u \in Users, ReopenDM(u)
        PROVE  \E v \in Users : posting'[v] = [pc |-> "stored", dm |-> d]
    <2>1. /\ d \in DMs /\ UNCHANGED <<posting, stopped>>
          /\ missed'[d] \ forwarded'[d] \subseteq missed[d] \ forwarded[d]
      BY <1>0, <1>8 DEF ReopenDM, sendVars, hidingVars
    <2> QED
      BY <1>2, <2>1
  <1>9. ASSUME NEW u \in Users, NEW e \in DMs, Hide(u, e) \/ HardDelete(e)
        PROVE  \E v \in Users : posting'[v] = [pc |-> "stored", dm |-> d]
    <2>1. /\ d \in DMs /\ UNCHANGED <<posting, stopped>>
          /\ missed'[d] \ forwarded'[d] \subseteq missed[d] \ forwarded[d]
      BY <1>0, <1>9 DEF Hide, HardDelete, keyVars, sendVars, hidingVars
    <2> QED
      BY <1>2, <2>1
  <1>10. ASSUME NEW u \in Users, CreateDM(u)
         PROVE  \E v \in Users : posting'[v] = [pc |-> "stored", dm |-> d]
    <2>1. d \in DMs /\ UNCHANGED <<posting, stopped, missed, forwarded>>
      BY <1>0, <1>10 DEF CreateDM, sendVars, hidingVars
    <2> QED
      BY <1>2, <2>1
  <1>11. ASSUME NEW e \in DMs, Forward(e)
         PROVE  \E v \in Users : posting'[v] = [pc |-> "stored", dm |-> d]
    <2>0. missed'[e] = forwarded'[e]
      BY <1>0, <1>11 DEF Forward
    <2>1. d \in DMs /\ d # e /\ UNCHANGED <<posting, stopped>>
      BY <1>0, <1>11, <2>0 DEF Forward, keyVars, sendVars
    <2>2. missed'[d] = missed[d] /\ forwarded'[d] = forwarded[d]
      BY <1>0, <1>11, <2>1 DEF Forward
    <2> QED
      BY <1>2, <2>1, <2>2
  <1>12. CASE UNCHANGED <<posting, stopped, missed, forwarded, dms>>
    BY <1>0, <1>2, <1>12
  <1> QED
    BY <1>3, <1>4, <1>5, <1>6, <1>7, <1>8, <1>9, <1>10, <1>11, <1>12
       DEF DirectNext, directVars, keyVars, sendVars, hidingVars, OpenDM, FindDM, Opened,
           OpenFails, GetCK, Block

(* Keys are fresh and stored once; only hidden chats miss messages.        *)
THEOREM DirectInductive == DirectSpec => []DirectInv
  <1>1. DirectInv /\ [DirectNext]_directVars => DirectInv'
    BY DirectTypeStep, DirectKeyStep, DirectUseStep, DirectMissedStep, DirectHiddenStep
       DEF DirectInv
  <1> QED
    BY <1>1, DirectInitHolds, PTL DEF DirectSpec

(* However two clients race to open their chat, a cached key is the one    *)
(* the server keeps sealed to both.                                        *)
THEOREM KeysAgree == DirectSpec => []OneKeyPerChat
  BY DirectInductive, PTL DEF DirectInv

(***************************************************************************)
(* The keys of direct chats implement KeyAgreement: the chat's creation    *)
(* chooses, everything else takes or keeps copies.                         *)
(***************************************************************************)

(* What the clients cache are copies of the stored keys.                   *)
LEMMA CachedAreCopies == DirectInv => cached \in ChatKeys!Copies(sealed)
  BY DEF DirectInv, DirectTypeOK, OneKeyPerChat, ChatKeys!Copies

(* The stored key is new to the chat and to every other.                   *)
LEMMA CreateDMChooses ==
  ASSUME DirectInv, cached' \in ChatKeys!Copies(sealed'), NEW u \in Users, CreateDM(u)
  PROVE  \E d \in DMs, k \in 1..MaxCKs : ChatKeys!Choose(d, k)
  <1>1. PICK d \in DMs \ dms :
          sealed[d] = 0 /\ sealed' = [sealed EXCEPT ![d] = opening[u].ck]
    BY DEF CreateDM
  <1>2. opening[u].ck \in 1..MaxCKs /\ opening[u].ck # 0
    <2>1. opening[u].ck \in 0..MaxCKs /\ opening[u].ck # 0
      BY DEF CreateDM, DirectInv, DirectTypeOK, Opening, KeysFresh
    <2> QED
      BY <2>1, DirectBounds
  <1>3. \A e \in DMs : sealed[e] # opening[u].ck
    BY <1>2 DEF CreateDM, DirectInv, KeysUsedOnce
  <1> QED
    BY <1>1, <1>2, <1>3 DEF ChatKeys!Choose

LEMMA DirectAgreementStep ==
  ASSUME DirectInv, cached' \in ChatKeys!Copies(sealed'), [DirectNext]_directVars
  PROVE  [ChatKeys!AgreementNext]_ChatKeys!agreementVars
  <1>1. CASE sealed' = sealed
    BY <1>1 DEF ChatKeys!AgreementNext, ChatKeys!Copy
  <1>2. ASSUME NEW u \in Users, CreateDM(u)
        PROVE  ChatKeys!AgreementNext
    BY <1>2, CreateDMChooses DEF ChatKeys!AgreementNext
  <1> QED
    BY <1>1, <1>2
       DEF DirectNext, directVars, keyVars, OpenDM, FindDM, ReopenDM, Opened, OpenFails,
           GetCK, SendAllowed, StoreMessage, Unhide, SendStops, Send, Hide, HardDelete,
           Block, Forward

(* The clients and the server agree on the key of every direct chat: one   *)
(* key is stored, once, for this chat alone, and no other is ever kept.    *)
THEOREM ChatsAgreeOnKeys == DirectSpec => ChatKeysAreAgreed
  <1>1. DirectInit => ChatKeys!AgreementInit
    BY DEF DirectInit, ChatKeys!AgreementInit, ChatKeys!Nothing
  <1>2. DirectInv /\ (cached \in ChatKeys!Copies(sealed))' /\ [DirectNext]_directVars =>
          [ChatKeys!AgreementNext]_ChatKeys!agreementVars
    BY DirectAgreementStep
  <1> QED
    BY <1>1, <1>2, CachedAreCopies, DirectInductive, PTL
       DEF DirectSpec, ChatKeysAreAgreed, ChatKeys!AgreementSpec

(* A chat hidden for a member misses no message that was sent, but between *)
(* the two writes of a send.                                               *)
THEOREM HiddenChatsReturn == DirectSpec => []NoMessageStaysHidden
  BY DirectInductive, PTL DEF DirectInv

(***************************************************************************)
(* The row of a chat.                                                      *)
(***************************************************************************)

LEMMA RowsInitHolds == RowsInit => RowsInv
  <1> SUFFICES ASSUME RowsInit
               PROVE  RowsInv
    OBVIOUS
  <1>1. NoRow \in Row
    BY MaxUnreadAssumption DEF NoRow, Row
  <1>2. NoRefresh \in Refresh
    BY <1>1 DEF NoRefresh, Refresh
  <1>3. \A t \in Toggles : toggle[t] = NoToggle /\ toggle[t].pc = "idle"
    BY DEF RowsInit, NoToggle
  <1>4. toggle \in [Toggles -> [pc : {"idle", "asked", "stored"}, to : BOOLEAN]]
    BY DEF RowsInit, NoToggle
  <1>5. RowsTypeOK
    BY <1>1, <1>2, <1>4 DEF RowsInit, RowsTypeOK
  <1>6. OneToggle /\ RowShowsToggle
    BY <1>3 DEF OneToggle, RowShowsToggle, RowsInit, NoRow
  <1> QED
    BY <1>5, <1>6 DEF RowsInv

(* The refresh and row pieces of the type, action by action.               *)
LEMMA RowsTypeStep ==
  ASSUME RowsTypeOK, [RowsNext]_rowVars
  PROVE  RowsTypeOK'
  <1>0. /\ exists \in BOOLEAN /\ isHidden \in BOOLEAN /\ isFlagged \in BOOLEAN
        /\ row \in Row /\ active \in BOOLEAN
        /\ refresh \in [Refreshes -> Refresh]
        /\ toggle \in [Toggles -> [pc : {"idle", "asked", "stored"}, to : BOOLEAN]]
        /\ removing \in {"no", "here", "both"}
        /\ announced \in BOOLEAN /\ flagCrossed \in BOOLEAN
    BY DEF RowsTypeOK
  <1>1. NoRow \in Row /\ NoRefresh \in Refresh
    BY MaxUnreadAssumption DEF NoRow, Row, NoRefresh, Refresh
  <1>2. NoToggle \in [pc : {"idle", "asked", "stored"}, to : BOOLEAN]
    BY DEF NoToggle
  <1>3. 0 \in 0..MaxUnread
    BY MaxUnreadAssumption
  <1>4. CASE UNCHANGED rowVars
    BY <1>0, <1>4 DEF rowVars, RowsTypeOK
  <1>5. ASSUME NEW r \in Refreshes, Ask(r) \/ ListRead(r) \/ ListFails(r) \/ ListMapped(r)
        PROVE  RowsTypeOK'
    <2>1. refresh' \in [Refreshes -> Refresh]
      <3>1. CASE Ask(r)
        BY <1>0, <3>1 DEF Ask, Refresh
      <3>2. CASE ListRead(r)
        <4>1. [here |-> Listed, flag |-> isFlagged, unread |-> 0] \in Row
          BY <1>0, <1>3 DEF Row, Listed
        <4> QED
          BY <1>0, <3>2, <4>1 DEF ListRead, Refresh
      <3>3. CASE ListFails(r)
        BY <1>0, <1>1, <3>3 DEF ListFails
      <3>4. CASE ListMapped(r)
        <4>1. (IF row.here THEN row.unread ELSE 0) \in 0..MaxUnread
          BY <1>0, <1>3 DEF Row
        <4>2. PICK n \in 0..MaxUnread :
                refresh' = [refresh EXCEPT ![r] =
                              [pc |-> "mapped", row |-> [@.row EXCEPT !.unread = n]]]
          BY <4>1, <3>4 DEF ListMapped
        <4>3. [refresh[r].row EXCEPT !.unread = n] \in Row
          BY <1>0 DEF Refresh, Row
        <4>4. [pc |-> "mapped", row |-> [refresh[r].row EXCEPT !.unread = n]] \in Refresh
          BY <4>3 DEF Refresh
        <4> QED
          BY <1>0, <4>2, <4>4
      <3> QED
        BY <1>5, <3>1, <3>2, <3>3, <3>4
    <2> QED
      BY <1>0, <1>5, <2>1 DEF Ask, ListRead, ListFails, ListMapped, RowsTypeOK
  <1>6. ASSUME NEW r \in Refreshes, SetChats(r) \/ Message(r) \/ StartDirectMessage(r)
        PROVE  RowsTypeOK'
    <2>1. refresh' \in [Refreshes -> Refresh]
      BY <1>0, <1>1, <1>6 DEF SetChats, Message, StartDirectMessage, Refresh
    <2>2. row' \in Row
      <3>1. CASE SetChats(r)
        BY <1>0, <3>1 DEF SetChats, Refresh
      <3>2. CASE Message(r)
        <4>1. row.here /\ ~active => row.unread + 1 \in 0..MaxUnread
          BY <1>0, <3>2, MaxUnreadAssumption DEF Message, Row
        <4> QED
          BY <1>0, <3>2, <4>1 DEF Message, Row
      <3>3. CASE StartDirectMessage(r)
        BY <1>3, <3>3 DEF StartDirectMessage, Row
      <3> QED
        BY <1>6, <3>1, <3>2, <3>3
    <2>3. flagCrossed' \in BOOLEAN
      BY <1>0, <1>6 DEF SetChats, Message, StartDirectMessage, Toggling
    <2> QED
      BY <1>0, <1>6, <2>1, <2>2, <2>3 DEF SetChats, Message, StartDirectMessage, RowsTypeOK
  <1>7. ASSUME NEW t \in Toggles, Flip(t) \/ FlagStored(t) \/ FlagAnswered(t) \/ FlagFails(t)
        PROVE  RowsTypeOK'
    <2>1. toggle' \in [Toggles -> [pc : {"idle", "asked", "stored"}, to : BOOLEAN]]
      <3>1. CASE Flip(t)
        <4>1. [pc |-> "asked", to |-> ~row.flag] \in
                [pc : {"idle", "asked", "stored"}, to : BOOLEAN]
          OBVIOUS
        <4> QED
          BY <1>0, <3>1, <4>1 DEF Flip
      <3>2. CASE FlagStored(t)
        BY <1>0, <3>2 DEF FlagStored
      <3>3. CASE FlagAnswered(t) \/ FlagFails(t)
        BY <1>0, <1>2, <3>3 DEF FlagAnswered, FlagFails
      <3> QED
        BY <1>7, <3>1, <3>2, <3>3
    <2>2. row' \in Row
      BY <1>0, <1>7 DEF Flip, FlagStored, FlagAnswered, FlagFails, TakenBack, Row
    <2>3. isFlagged' \in BOOLEAN /\ flagCrossed' \in BOOLEAN
      BY <1>0, <1>7 DEF Flip, FlagStored, FlagAnswered, FlagFails, Toggling
    <2> QED
      BY <1>0, <1>7, <2>1, <2>2, <2>3
         DEF Flip, FlagStored, FlagAnswered, FlagFails, RowsTypeOK
  <1>8. CASE FlippedElsewhere \/ RemoveStored \/ RemoveFails \/ PeerRemoves
    BY <1>0, <1>8 DEF FlippedElsewhere, RemoveStored, RemoveFails, PeerRemoves, RowsTypeOK
  <1>9. CASE \/ \E both \in BOOLEAN : RemoveChat(both)
             \/ OnConversationDeleted \/ SetActive \/ SetInactive
    <2>1. row' \in Row
      BY <1>0, <1>1, <1>3, <1>9 DEF RemoveChat, OnConversationDeleted, SetActive,
                                    SetInactive, Row
    <2> QED
      BY <1>0, <1>9, <2>1 DEF RemoveChat, OnConversationDeleted, SetActive, SetInactive,
                              RowsTypeOK
  <1> QED
    BY <1>4, <1>5, <1>6, <1>7, <1>8, <1>9 DEF RowsNext

LEMMA RowsToggleStep ==
  ASSUME RowsInv, [RowsNext]_rowVars, ~flagCrossed'
  PROVE  OneToggle' /\ RowShowsToggle'
  <1>0. /\ isFlagged \in BOOLEAN /\ row \in Row
        /\ refresh \in [Refreshes -> Refresh]
        /\ toggle \in [Toggles -> [pc : {"idle", "asked", "stored"}, to : BOOLEAN]]
    BY DEF RowsInv, RowsTypeOK
  <1>1. ASSUME NEW r \in Refreshes, SetChats(r), refresh[r].row.here
        PROVE  OneToggle' /\ RowShowsToggle'
    <2>1. ~Toggling /\ row'.flag = isFlagged /\ toggle' = toggle /\ isFlagged' = isFlagged
      BY <1>1 DEF SetChats
    <2> QED
      BY <2>1 DEF Toggling, OneToggle, RowShowsToggle
  <1>2. ASSUME flagCrossed' = flagCrossed => OneToggle /\ RowShowsToggle,
               flagCrossed' = flagCrossed, UNCHANGED <<toggle, isFlagged>>,
               row'.here /\ exists' => row.here /\ exists /\ row'.flag = row.flag
        PROVE  OneToggle' /\ RowShowsToggle'
    BY <1>2 DEF OneToggle, RowShowsToggle, Toggling
  <1>3. ~flagCrossed => OneToggle /\ RowShowsToggle
    BY DEF RowsInv
  <1>4. CASE UNCHANGED rowVars
    BY <1>2, <1>3, <1>4 DEF rowVars
  <1>5. ASSUME NEW r \in Refreshes, Ask(r) \/ ListRead(r) \/ ListFails(r) \/ ListMapped(r)
        PROVE  OneToggle' /\ RowShowsToggle'
    BY <1>2, <1>3, <1>5 DEF Ask, ListRead, ListFails, ListMapped
  <1>6. ASSUME NEW r \in Refreshes, SetChats(r) \/ Message(r) \/ StartDirectMessage(r)
        PROVE  OneToggle' /\ RowShowsToggle'
    <2>1. CASE SetChats(r)
      BY <1>1, <1>2, <1>3, <2>1 DEF SetChats
    <2>2. CASE Message(r)
      <3>1. row'.here = row.here /\ row'.flag = row.flag
        BY <1>0, <2>2 DEF Message, Row
      <3> QED
        BY <1>2, <1>3, <2>2, <3>1 DEF Message
    <2>3. CASE StartDirectMessage(r)
      BY <2>3 DEF StartDirectMessage
    <2> QED
      BY <1>6, <2>1, <2>2, <2>3
  <1>7. ASSUME NEW t \in Toggles, Flip(t)
        PROVE  OneToggle' /\ RowShowsToggle'
    <2>1. ~flagCrossed /\ ~Toggling /\ OneToggle /\ RowShowsToggle
      BY <1>3, <1>7 DEF Flip
    <2>2. \A s \in Toggles \ {t} : toggle'[s].pc = "idle"
      BY <1>0, <1>7, <2>1 DEF Flip, Toggling
    <2>3. toggle'[t].pc = "asked" /\ toggle'[t].to = ~row.flag
      BY <1>0, <1>7 DEF Flip
    <2>4. row'.here /\ row.here /\ row'.flag = ~row.flag /\ exists' = exists /\ isFlagged' = isFlagged
      BY <1>0, <1>7 DEF Flip, Row
    <2>5. OneToggle'
      BY <2>2 DEF OneToggle
    <2>6. exists => row.flag = isFlagged
      BY <2>1, <2>4 DEF RowShowsToggle
    <2>7. Toggling'
      BY <2>3 DEF Toggling
    <2>8. RowShowsToggle'
      BY <1>0, <2>2, <2>3, <2>4, <2>6, <2>7 DEF RowShowsToggle, Row
    <2> QED
      BY <2>5, <2>8
  <1>8. ASSUME NEW t \in Toggles, FlagStored(t) \/ FlagAnswered(t) \/ FlagFails(t)
        PROVE  OneToggle' /\ RowShowsToggle'
    <2>1. ~flagCrossed /\ OneToggle /\ RowShowsToggle
      <3>1. ~flagCrossed
        BY <1>8, Zenon DEF FlagStored, FlagAnswered, FlagFails
      <3> QED
        BY <1>3, <3>1
    <2>2. toggle[t].pc # "idle"
      BY <1>8 DEF FlagStored, FlagAnswered, FlagFails
    <2>3. \A s \in Toggles \ {t} : toggle[s].pc = "idle" /\ toggle'[s] = toggle[s]
      BY <1>0, <1>8, <2>1, <2>2 DEF OneToggle, FlagStored, FlagAnswered, FlagFails
    <2>4. OneToggle'
      BY <2>3 DEF OneToggle
    <2>5. CASE FlagStored(t)
      <3>1. toggle'[t].pc = "stored" /\ toggle'[t].to = toggle[t].to /\ isFlagged' = toggle[t].to
            /\ row' = row /\ exists' = exists
        BY <1>0, <2>5 DEF FlagStored
      <3>2. row.here /\ exists => row.flag = toggle[t].to
        BY <2>1, <2>2 DEF RowShowsToggle
      <3>3. Toggling'
        BY <3>1 DEF Toggling
      <3> QED
        BY <2>3, <2>4, <3>1, <3>2, <3>3 DEF RowShowsToggle
    <2>6. CASE FlagAnswered(t)
      <3>1. toggle'[t].pc = "idle" /\ UNCHANGED <<row, exists, isFlagged>> /\ toggle[t].pc = "stored"
        BY <1>0, <2>6 DEF FlagAnswered, NoToggle
      <3>2. row.here /\ exists => row.flag = isFlagged
        BY <2>1, <2>2, <3>1 DEF RowShowsToggle
      <3> QED
        BY <2>3, <2>4, <3>1, <3>2 DEF RowShowsToggle
    <2>7. CASE FlagFails(t)
      <3>1. toggle'[t].pc = "idle" /\ UNCHANGED <<exists, isFlagged>> /\ toggle[t].pc = "asked"
        BY <1>0, <2>7 DEF FlagFails, NoToggle
      <3>2. row'.here = row.here /\ (row.here => row'.flag = ~toggle[t].to)
        BY <1>0, <2>7 DEF FlagFails, TakenBack, Row
      <3>3. row.here /\ exists => row.flag = toggle[t].to /\ isFlagged = ~row.flag
        BY <2>1, <2>2, <3>1 DEF RowShowsToggle
      <3> QED
        BY <2>3, <2>4, <3>1, <3>2, <3>3 DEF RowShowsToggle
    <2> QED
      BY <1>8, <2>5, <2>6, <2>7
  <1>9. CASE FlippedElsewhere
    BY <1>9 DEF FlippedElsewhere
  <1>10. CASE \/ \E both \in BOOLEAN : RemoveChat(both)
              \/ RemoveStored \/ RemoveFails \/ PeerRemoves \/ OnConversationDeleted
              \/ SetActive \/ SetInactive
    <2>1. row'.here => row.here /\ row'.flag = row.flag
      BY <1>0, <1>10 DEF RemoveChat, RemoveStored, RemoveFails, PeerRemoves,
                         OnConversationDeleted, SetActive, SetInactive, NoRow, Row
    <2>2. exists' => exists
      BY <1>10 DEF RemoveChat, RemoveStored, RemoveFails, PeerRemoves,
                   OnConversationDeleted, SetActive, SetInactive
    <2>3. UNCHANGED <<toggle, isFlagged, flagCrossed>>
      BY <1>10 DEF RemoveChat, RemoveStored, RemoveFails, PeerRemoves,
                   OnConversationDeleted, SetActive, SetInactive
    <2> QED
      BY <1>2, <1>3, <2>1, <2>2, <2>3
  <1> QED
    BY <1>4, <1>5, <1>6, <1>7, <1>8, <1>9, <1>10 DEF RowsNext

(* However refreshes, toggles and events interleave, the row shows what    *)
(* the toggle under way asks for, and the server has the opposite until    *)
(* that is stored.                                                         *)
THEOREM RowsInductive == RowsSpec => []RowsInv
  <1>1. RowsInv /\ [RowsNext]_rowVars => RowsInv'
    BY RowsTypeStep, RowsToggleStep DEF RowsInv
  <1> QED
    BY <1>1, RowsInitHolds, PTL DEF RowsSpec

(* However mute and block requests, list refreshes, live messages and      *)
(* deletions interleave, a row at rest shows the flag the server has, but  *)
(* for the crossings that are recorded.                                    *)
THEOREM FlagsFollow == RowsSpec => []FlagIsServers
  <1>1. RowsInv => FlagIsServers
    BY DEF RowsInv, RowShowsToggle, FlagIsServers
  <1> QED
    BY <1>1, RowsInductive, PTL

(***************************************************************************)
(* The selection.                                                          *)
(***************************************************************************)

LEMMA SelectionInitHolds == SelectionInit => SelectionInv
  <1> SUFFICES ASSUME SelectionInit
               PROVE  SelectionInv
    OBVIOUS
  <1>1. SelectionTypeOK
    <2>1. NoDeletion \in [busy : BOOLEAN, left : SUBSET Items, local : SUBSET Items]
      BY DEF NoDeletion
    <2>2. confirm \in [Confirms -> [busy : BOOLEAN, left : SUBSET Items, local : SUBSET Items]]
      BY <2>1 DEF SelectionInit
    <2>3. items \in Seq(Items)
      BY DEF SelectionInit
    <2> QED
      BY <2>2, <2>3 DEF SelectionInit, SelectionTypeOK
  <1>2. \A c \in Confirms : ~confirm[c].busy
    BY DEF SelectionInit, NoDeletion
  <1> QED
    BY <1>1, <1>2 DEF SelectionInit, SelectionInv, OneDeletion, ChosenAreGone

(* A deletion after one more of its messages.                              *)
LEMMA DeletionFields ==
  ASSUME SelectionTypeOK, NEW c \in Confirms, NEW i \in Items,
         ServerDeletes(c, i) \/ FallBack(c, i)
  PROVE  /\ \A d \in Confirms \ {c} : confirm'[d] = confirm[d]
         /\ \E l \in SUBSET Items :
              /\ confirm' = [confirm EXCEPT ![c] =
                               [busy |-> TRUE, left |-> confirm[c].left \ {i}, local |-> l]]
              /\ \/ deletedHere' = deletedHere \union {i} /\ l = confirm[c].local
                 \/ deletedHere' = deletedHere /\ l = confirm[c].local \union {i}
  <1>0. confirm \in [Confirms -> [busy : BOOLEAN, left : SUBSET Items, local : SUBSET Items]]
    BY DEF SelectionTypeOK
  <1>1. PICK x \in [busy : BOOLEAN, left : SUBSET Items, local : SUBSET Items] : x = confirm[c]
    BY <1>0
  <1>2. CASE ServerDeletes(c, i)
    <2>1. x.busy = TRUE
      BY <1>1, <1>2 DEF ServerDeletes
    <2>2. [x EXCEPT !.left = x.left \ {i}]
            = [busy |-> x.busy, left |-> x.left \ {i}, local |-> x.local]
      BY <1>1
    <2>3. confirm' = [confirm EXCEPT ![c] = [x EXCEPT !.left = x.left \ {i}]]
      BY <1>0, <1>1, <1>2 DEF ServerDeletes
    <2> QED
      BY <1>0, <1>1, <1>2, <2>1, <2>2, <2>3 DEF ServerDeletes
  <1>3. CASE FallBack(c, i)
    BY <1>0, <1>3 DEF FallBack
  <1> QED
    BY <1>2, <1>3

LEMMA SelectionTypeStep ==
  ASSUME SelectionTypeOK, [SelectionNext]_selectionVars
  PROVE  SelectionTypeOK'
  <1> DEFINE Deletions == [busy : BOOLEAN, left : SUBSET Items, local : SUBSET Items]
  <1>0. /\ items \in Seq(Items)
        /\ selected \subseteq Items /\ single \in Items \union {NoItem}
        /\ asking \in BOOLEAN /\ tick \in BOOLEAN
        /\ kept \subseteq Items /\ hidden \subseteq Items
        /\ confirm \in [Confirms -> Deletions]
        /\ deletedHere \subseteq Items /\ chosen \subseteq Items /\ overlapped \in BOOLEAN
    BY DEF SelectionTypeOK
  <1>1. CASE UNCHANGED selectionVars
    BY <1>0, <1>1 DEF selectionVars, SelectionTypeOK
  <1>2. CASE ItemsChange
    <2>1. items' \in Seq(Items)
      <3>1. CASE \E i \in Items \ ToSet(items) : items' = Append(items, i)
        BY <1>0, <3>1
      <3>2. CASE items' = <<>>
        BY <3>2
      <3> QED
        BY <1>2, <3>1, <3>2 DEF ItemsChange
    <2> QED
      BY <1>0, <1>2, <2>1 DEF ItemsChange, SelectionTypeOK
  <1>3. CASE Reopen
    BY <1>0, <1>3 DEF Reopen, SelectionTypeOK
  <1>4. ASSUME NEW m, NEW n, DragSelection(m, n)
        PROVE  SelectionTypeOK'
    <2>1. selected' \subseteq Items
      BY <1>0, <1>4 DEF DragSelection
    <2> QED
      BY <1>0, <1>4, <2>1 DEF DragSelection, SelectionTypeOK
  <1>5. CASE AskSelected \/ TickBox \/ CancelDialog \/ DropSelection
    BY <1>0, <1>5 DEF AskSelected, TickBox, CancelDialog, DropSelection, SelectionTypeOK
  <1>6. ASSUME NEW i \in Items, AskOne(i) \/ LongPress(i)
        PROVE  SelectionTypeOK'
    BY <1>0, <1>6 DEF AskOne, LongPress, SelectionTypeOK
  <1>7. ASSUME NEW c \in Confirms, ConfirmDelete(c)
        PROVE  SelectionTypeOK'
    <2> DEFINE ids == IF single # NoItem THEN {single} ELSE selected
    <2>1. ids \subseteq Items
      BY <1>0
    <2>2. confirm' \in [Confirms -> Deletions]
      <3>1. [busy |-> TRUE, left |-> ids, local |-> ReadKept] \in Deletions
        BY <1>0, <2>1 DEF ReadKept
      <3> HIDE DEF ids, Deletions
      <3>2. CASE tick
        BY <1>0, <1>7, <3>1, <3>2 DEF ConfirmDelete, ids
      <3>3. CASE ~tick
        BY <1>0, <1>7, <3>3 DEF ConfirmDelete
      <3> QED
        BY <3>2, <3>3
    <2>3. kept' \subseteq Items /\ hidden' \subseteq Items /\ tick' \in BOOLEAN
      BY <1>0, <1>7, <2>1 DEF ConfirmDelete, ReadKept
    <2>4. chosen' \subseteq Items /\ overlapped' \in BOOLEAN
      BY <1>0, <1>7, <2>1 DEF ConfirmDelete
    <2> QED
      BY <1>0, <1>7, <2>2, <2>3, <2>4 DEF ConfirmDelete, SelectionTypeOK
  <1>8. ASSUME NEW c \in Confirms, NEW i \in Items, ServerDeletes(c, i) \/ FallBack(c, i)
        PROVE  SelectionTypeOK'
    <2>1. \A l \in SUBSET Items :
            [busy |-> TRUE, left |-> confirm[c].left \ {i}, local |-> l] \in Deletions
      BY <1>0
    <2> HIDE DEF Deletions
    <2>2. confirm' \in [Confirms -> Deletions]
      BY <1>0, <1>8, <2>1, DeletionFields
    <2> QED
      BY <1>0, <1>8, <2>2 DEF ServerDeletes, FallBack, SelectionTypeOK, Deletions
  <1>9. ASSUME NEW c \in Confirms, ConfirmEnds(c)
        PROVE  SelectionTypeOK'
    <2>1. confirm' \in [Confirms -> Deletions]
      BY <1>0, <1>9 DEF ConfirmEnds, NoDeletion
    <2> QED
      BY <1>0, <1>9, <2>1 DEF ConfirmEnds, SelectionTypeOK
  <1> QED
    BY <1>1, <1>2, <1>3, <1>4, <1>5, <1>6, <1>7, <1>8, <1>9 DEF SelectionNext

LEMMA DeletionStep ==
  ASSUME SelectionInv, [SelectionNext]_selectionVars, ~overlapped'
  PROVE  /\ OneDeletion'
         /\ \A c \in Confirms : confirm'[c].busy => DeletionHasAll(c)'
         /\ ChosenAreGone'
  <1> DEFINE Deletions == [busy : BOOLEAN, left : SUBSET Items, local : SUBSET Items]
  <1>0. /\ confirm \in [Confirms -> Deletions]
        /\ SelectionTypeOK
    BY DEF SelectionInv, SelectionTypeOK
  <1>1. ~overlapped => /\ OneDeletion
                       /\ \A c \in Confirms : confirm[c].busy => DeletionHasAll(c)
                       /\ ChosenAreGone
    BY DEF SelectionInv
  <1>2. CASE UNCHANGED <<confirm, kept, chosen, deletedHere, overlapped>>
    BY <1>1, <1>2 DEF OneDeletion, DeletionHasAll, ChosenAreGone
  <1>3. ASSUME NEW c \in Confirms, ConfirmDelete(c)
        PROVE  /\ OneDeletion'
               /\ \A d \in Confirms : confirm'[d].busy => DeletionHasAll(d)'
               /\ ChosenAreGone'
    <2> DEFINE ids == IF single # NoItem THEN {single} ELSE selected
    <2>1. ~overlapped /\ \A d \in Confirms : ~confirm[d].busy
      BY <1>3 DEF ConfirmDelete
    <2>2. chosen \subseteq deletedHere \union kept
      BY <1>1, <2>1 DEF ChosenAreGone
    <2>3. chosen' = chosen \union ids /\ deletedHere' = deletedHere
      BY <1>3 DEF ConfirmDelete
    <2>4. CASE tick
      <3>1. confirm' = [confirm EXCEPT ![c] = [busy |-> TRUE, left |-> ids, local |-> kept]]
            /\ kept' = kept
        BY <1>3, <2>4 DEF ConfirmDelete, ReadKept
      <3>2. confirm'[c] = [busy |-> TRUE, left |-> ids, local |-> kept]
            /\ \A d \in Confirms \ {c} : confirm'[d] = confirm[d]
        BY <1>0, <3>1
      <3> HIDE DEF ids
      <3>3. OneDeletion'
        BY <2>1, <3>2 DEF OneDeletion
      <3>4. DeletionHasAll(c)'
        BY <2>2, <2>3, <3>1, <3>2 DEF DeletionHasAll
      <3> QED
        BY <2>1, <3>2, <3>3, <3>4 DEF ChosenAreGone
    <2>5. CASE ~tick
      <3>1. confirm' = confirm /\ kept' = kept \union ids
        BY <1>3, <2>5 DEF ConfirmDelete, ReadKept
      <3> QED
        BY <2>1, <2>2, <2>3, <3>1 DEF OneDeletion, ChosenAreGone
    <2> QED
      BY <2>4, <2>5
  <1>4. ASSUME NEW c \in Confirms, NEW i \in Items, ServerDeletes(c, i) \/ FallBack(c, i)
        PROVE  /\ OneDeletion'
               /\ \A d \in Confirms : confirm'[d].busy => DeletionHasAll(d)'
               /\ ChosenAreGone'
    <2>1. ~overlapped /\ confirm[c].busy /\ kept' = kept /\ chosen' = chosen
      BY <1>4 DEF ServerDeletes, FallBack
    <2>2. /\ \A d \in Confirms \ {c} : confirm'[d] = confirm[d]
          /\ confirm'[c].busy /\ confirm'[c].left = confirm[c].left \ {i}
      BY <1>0, <1>4, DeletionFields
    <2>3. \/ /\ deletedHere' = deletedHere \union {i}
             /\ confirm'[c].local = confirm[c].local
          \/ /\ deletedHere' = deletedHere
             /\ confirm'[c].local = confirm[c].local \union {i}
      BY <1>0, <1>4, DeletionFields
    <2>4. \A d \in Confirms : confirm'[d].busy => d = c
      BY <1>1, <2>1, <2>2 DEF OneDeletion
    <2>5. DeletionHasAll(c)'
      BY <1>1, <2>1, <2>2, <2>3 DEF DeletionHasAll
    <2> QED
      BY <2>2, <2>4, <2>5 DEF OneDeletion, ChosenAreGone
  <1>5. ASSUME NEW c \in Confirms, ConfirmEnds(c)
        PROVE  /\ OneDeletion'
               /\ \A d \in Confirms : confirm'[d].busy => DeletionHasAll(d)'
               /\ ChosenAreGone'
    <2>1. /\ ~overlapped /\ confirm[c].busy /\ confirm[c].left = {}
          /\ kept' = confirm[c].local /\ chosen' = chosen /\ deletedHere' = deletedHere
      BY <1>5 DEF ConfirmEnds
    <2>2. ~confirm'[c].busy /\ \A d \in Confirms \ {c} : confirm'[d] = confirm[d]
      BY <1>0, <1>5 DEF ConfirmEnds, NoDeletion
    <2>3. \A d \in Confirms : ~confirm'[d].busy
      BY <1>1, <2>1, <2>2 DEF OneDeletion
    <2> QED
      BY <1>1, <2>1, <2>3 DEF DeletionHasAll, OneDeletion, ChosenAreGone
  <1>6. CASE \/ ItemsChange \/ Reopen \/ UNCHANGED selectionVars
             \/ \E m, n \in 1..Len(items) : DragSelection(m, n)
             \/ AskSelected \/ TickBox \/ CancelDialog \/ DropSelection
             \/ \E i \in Items : AskOne(i) \/ LongPress(i)
    BY <1>2, <1>6 DEF ItemsChange, Reopen, selectionVars, DragSelection, AskSelected,
                      TickBox, CancelDialog, DropSelection, AskOne, LongPress
  <1> QED
    BY <1>3, <1>4, <1>5, <1>6 DEF SelectionNext

(* While one deletion runs, its own list has what localStorage has, and    *)
(* what it has left covers the rest.                                       *)
THEOREM SelectionInductive == SelectionSpec => []SelectionInv
  <1>1. SelectionInv /\ [SelectionNext]_selectionVars => SelectionInv'
    <2> SUFFICES ASSUME SelectionInv, [SelectionNext]_selectionVars
                 PROVE  SelectionInv'
      OBVIOUS
    <2>1. SelectionTypeOK'
      BY SelectionTypeStep DEF SelectionInv
    <2>2. CASE overlapped'
      BY <2>1, <2>2 DEF SelectionInv, ChosenAreGone
    <2>3. CASE ~overlapped'
      BY <2>1, <2>3, DeletionStep DEF SelectionInv
    <2> QED
      BY <2>2, <2>3
  <1> QED
    BY <1>1, SelectionInitHolds, PTL DEF SelectionSpec

(* Whatever is selected, ticked, refused or fallen back on, a message the  *)
(* user confirmed the deletion of is deleted or hidden for good, unless    *)
(* two deletions ran at once.                                              *)
THEOREM DeletionsAreKept == SelectionSpec => []ChosenAreGone
  BY SelectionInductive, PTL DEF SelectionInv

(***************************************************************************)
(* The recorder.                                                           *)
(***************************************************************************)

LEMMA RecorderInitHolds == RecorderInit => RecorderInv
  <1> SUFFICES ASSUME RecorderInit
               PROVE  RecorderInv
    OBVIOUS
  <1>1. \A t \in TakeIds : take[t] = [pc |-> "none", video |-> FALSE,
                                      cancelled |-> FALSE, open |-> FALSE]
    BY DEF RecorderInit
  <1>2. take \in [TakeIds -> Take]
    BY DEF RecorderInit, Take
  <1>3. 0 \in Refs
    BY MaxTakesAssumption DEF Refs
  <1>4. RecorderTypeOK
    BY <1>2, <1>3 DEF RecorderInit, RecorderTypeOK, NoRec
  <1>5. TakesInOrder
    BY <1>1 DEF TakesInOrder, TakeAt
  <1>6. OnlyTheLastIsOnScreen
    <2>1. \A t \in TakeIds : take[t].pc = "none" /\ t \notin Unfinished(take)
      BY <1>1 DEF Unfinished
    <2>2. holdTimer = FALSE /\ rec.on = FALSE
      BY DEF RecorderInit, NoRec
    <2>3. Unfinished(take) = {}
      BY <2>1 DEF Unfinished
    <2> QED
      BY <2>1, <2>2, <2>3 DEF OnlyTheLastIsOnScreen, TakeAt
  <1>7. TakesAreTheUsers
    BY <1>1 DEF TakesAreTheUsers, OpenStreamIsSeen, SentAsWanted, RecorderInit
  <1> QED
    BY <1>4, <1>5, <1>6, <1>7 DEF RecorderInv

(* What stopStream does to each take, and what is left under way.          *)
LEMMA StreamIsStopped ==
  ASSUME NEW tk \in [TakeIds -> Take]
  PROVE  /\ StreamStopped(tk) \in [TakeIds -> Take]
         /\ \A t \in TakeIds : t # streamRef => StreamStopped(tk)[t] = tk[t]
         /\ \A t \in TakeIds : t = streamRef =>
              /\ StreamStopped(tk)[t].open = FALSE
              /\ StreamStopped(tk)[t].pc = (IF tk[t].pc = "recording" THEN "stopping"
                                                                    ELSE tk[t].pc)
  <1> DEFINE Stopped(x) == [x EXCEPT !.open = FALSE,
                                     !.pc = IF x.pc = "recording" THEN "stopping" ELSE x.pc]
  <1>1. \A x \in Take : /\ Stopped(x) \in Take
                        /\ Stopped(x).open = FALSE
                        /\ Stopped(x).pc = (IF x.pc = "recording" THEN "stopping" ELSE x.pc)
    BY DEF Take
  <1>2. StreamStopped(tk) = [t \in TakeIds |-> IF t # streamRef THEN tk[t] ELSE Stopped(tk[t])]
    BY DEF StreamStopped
  <1> HIDE DEF Stopped
  <1> QED
    BY <1>1, <1>2

(* The two ways of stopping: the recorder's, while it records, and the     *)
(* stream's, when nothing records.                                         *)
LEMMA RecordingStops ==
  ASSUME RecorderTypeOK, TakesInOrder, rec.on => takes \in TakeIds, rec.on,
         NEW send \in BOOLEAN, StopRec(send)
  PROVE  /\ take' \in [TakeIds -> Take]
         /\ streamRef' \in Refs /\ recorderRef' \in Refs
         /\ sendOnStop' \in BOOLEAN
         /\ wanted' = (IF send THEN wanted \union {takes} ELSE wanted)
         /\ wanted' \subseteq TakeIds
         /\ stray' = stray \union Unfinished(take') /\ stray' \subseteq TakeIds
         /\ rec' = NoRec /\ moving' = FALSE
         /\ \A t \in TakeIds : take'[t].pc # "recording"
         /\ \/ /\ recorderRef \in TakeIds /\ TakeAt(recorderRef, "recording")
               /\ sendOnStop' = send
               /\ streamRef' = streamRef
               /\ take'[recorderRef].pc = "stopping"
               /\ take'[recorderRef].open = take[recorderRef].open
               /\ \A t \in TakeIds \ {recorderRef} : take'[t] = take[t]
            \/ /\ \A t \in TakeIds : ~TakeAt(t, "recording")
               /\ sendOnStop' = sendOnStop
               /\ \A t \in TakeIds : /\ take'[t].pc = take[t].pc
                                     /\ take'[t].open => take[t].open /\ t # streamRef
  <1>0. /\ take \in [TakeIds -> Take] /\ streamRef \in Refs /\ recorderRef \in Refs
        /\ takes \in TakeIds /\ wanted \subseteq TakeIds /\ stray \subseteq TakeIds
        /\ sendOnStop \in BOOLEAN
    BY DEF RecorderTypeOK
  <1>1. 0 \in Refs /\ (recorderRef # 0 => recorderRef \in TakeIds)
    BY <1>0, MaxTakesAssumption DEF Refs, TakeIds
  <1>2. Unfinished(take') \subseteq TakeIds
    BY DEF Unfinished
  <1>3. CASE recorderRef # 0 /\ TakeAt(recorderRef, "recording")
    <2>1. take' = [take EXCEPT ![recorderRef].pc = "stopping"]
          /\ sendOnStop' = send /\ recorderRef' = 0 /\ streamRef' = streamRef
      BY <1>3 DEF StopRec
    <2>2. /\ take' \in [TakeIds -> Take]
          /\ take'[recorderRef].pc = "stopping"
          /\ take'[recorderRef].open = take[recorderRef].open
          /\ \A t \in TakeIds \ {recorderRef} : take'[t] = take[t]
      BY <1>0, <1>1, <1>3, <2>1 DEF Take
    <2>3. \A t \in TakeIds : take'[t].pc # "recording"
      BY <2>2 DEF TakesInOrder, TakeAt
    <2> QED
      BY <1>0, <1>1, <1>2, <1>3, <2>1, <2>2, <2>3 DEF StopRec
  <1>4. CASE ~(recorderRef # 0 /\ TakeAt(recorderRef, "recording"))
    <2>1. take' = StreamStopped(take) /\ streamRef' = 0
          /\ UNCHANGED <<sendOnStop, recorderRef>>
      BY <1>4 DEF StopRec
    <2>2. \A t \in TakeIds : ~TakeAt(t, "recording")
      BY <1>4, MaxTakesAssumption DEF TakesInOrder, TakeIds
    <2>3. /\ take' \in [TakeIds -> Take]
          /\ \A t \in TakeIds : /\ take'[t].pc = take[t].pc
                                /\ take'[t].open => take[t].open /\ t # streamRef
      BY <1>0, <2>1, <2>2, StreamIsStopped DEF TakeAt
    <2>4. /\ wanted' = (IF send THEN wanted \union {takes} ELSE wanted)
          /\ stray' = stray \union Unfinished(take')
          /\ rec' = NoRec /\ moving' = FALSE
      BY DEF StopRec
    <2>5. wanted' \subseteq TakeIds /\ stray' \subseteq TakeIds
      BY <1>0, <1>2, <2>4
    <2>6. streamRef' \in Refs /\ recorderRef' \in Refs /\ sendOnStop' \in BOOLEAN
      BY <1>0, <1>1, <2>1
    <2>7. \A t \in TakeIds : take'[t].pc # "recording"
      BY <2>2, <2>3 DEF TakeAt
    <2> QED
      BY <2>1, <2>2, <2>3, <2>4, <2>5, <2>6, <2>7
  <1> QED
    BY <1>3, <1>4

LEMMA RecorderTypeStep ==
  ASSUME RecorderTypeOK, TakesInOrder, rec.on => takes \in TakeIds,
         [RecorderNext]_recorderVars
  PROVE  RecorderTypeOK'
  <1>0. /\ mounted \in BOOLEAN /\ draft \in BOOLEAN /\ down \in BOOLEAN
        /\ holdTimer \in BOOLEAN /\ held \in BOOLEAN /\ modeVideo \in BOOLEAN
        /\ rec \in [on : BOOLEAN, video : BOOLEAN, locked : BOOLEAN]
        /\ takes \in Refs /\ take \in [TakeIds -> Take]
        /\ sessRef \in Refs /\ recorderRef \in Refs /\ streamRef \in Refs
        /\ sendOnStop \in BOOLEAN /\ moving \in BOOLEAN /\ chunks \subseteq TakeIds
        /\ sent \subseteq [take : TakeIds, data : SUBSET TakeIds]
        /\ wanted \subseteq TakeIds /\ stray \subseteq TakeIds
    BY DEF RecorderTypeOK
  <1>1. 0 \in Refs /\ TakeIds \subseteq Refs
    BY MaxTakesAssumption DEF Refs, TakeIds
  <1>2. NoRec \in [on : BOOLEAN, video : BOOLEAN, locked : BOOLEAN]
    BY DEF NoRec
  <1>3. Unfinished(take') \subseteq TakeIds /\ Unfinished(take) \subseteq TakeIds
        /\ CutOff \subseteq TakeIds
    BY <1>0 DEF Unfinished, CutOff
  <1>4. StreamStopped(take) \in [TakeIds -> Take]
    BY <1>0, StreamIsStopped
  <1>5. CASE UNCHANGED recorderVars
    BY <1>0, <1>5 DEF recorderVars, RecorderTypeOK
  <1>6. CASE Press \/ ReleaseElsewhere \/ Write \/ Submit
    BY <1>0, <1>6 DEF Press, ReleaseElsewhere, Write, Submit, refs, RecorderTypeOK
  <1>7. CASE HoldTimer
    <2>1. takes + 1 \in TakeIds
      BY <1>0, <1>7, MaxTakesAssumption DEF HoldTimer, TakeIds, Refs
    <2>2. take' \in [TakeIds -> Take]
      <3>1. /\ "asking" \in {"none", "asking", "recording", "stopping", "over"}
            /\ modeVideo \in BOOLEAN
        BY <1>0
      <3>2. \A x \in Take : [x EXCEPT !.pc = "asking", !.video = modeVideo] \in Take
        BY <3>1 DEF Take
      <3>3. take' = [take EXCEPT ![takes + 1] = [take[takes + 1] EXCEPT !.pc = "asking",
                                                                       !.video = modeVideo]]
        BY <1>0, <1>7, <2>1 DEF HoldTimer
      <3> QED
        BY <1>0, <2>1, <3>2, <3>3
    <2>3. rec' \in [on : BOOLEAN, video : BOOLEAN, locked : BOOLEAN]
      BY <1>0, <1>7 DEF HoldTimer
    <2> QED
      BY <1>0, <1>1, <1>7, <2>1, <2>2, <2>3 DEF HoldTimer, RecorderTypeOK
  <1>8. CASE Release
    <2>1. CASE rec.on /\ ~rec.locked /\ StopRec(TRUE) /\ UNCHANGED modeVideo
      <3>1. /\ take' \in [TakeIds -> Take]
            /\ streamRef' \in Refs /\ recorderRef' \in Refs
            /\ sendOnStop' \in BOOLEAN /\ moving' = FALSE /\ rec' = NoRec
            /\ wanted' \subseteq TakeIds /\ stray' \subseteq TakeIds
        BY <2>1, RecordingStops
      <3> QED
        BY <1>0, <1>2, <1>8, <2>1, <3>1 DEF Release, RecorderTypeOK
    <2>2. CASE UNCHANGED <<rec, moving, wanted, sendOnStop, take, recorderRef, streamRef,
                           stray, modeVideo>>
      BY <1>0, <1>8, <2>2 DEF Release, RecorderTypeOK
    <2>3. CASE /\ take' = IF sessRef = 0 THEN take
                          ELSE [take EXCEPT ![sessRef].cancelled = TRUE]
               /\ modeVideo' = IF held THEN modeVideo ELSE ~modeVideo
               /\ UNCHANGED <<rec, moving, wanted, sendOnStop, recorderRef, streamRef, stray>>
      <3>1. take' \in [TakeIds -> Take]
        BY <1>0, <2>3 DEF Take
      <3>2. modeVideo' \in BOOLEAN
        BY <1>0, <2>3
      <3> QED
        BY <1>0, <1>8, <2>3, <3>1, <3>2 DEF Release, RecorderTypeOK
    <2> QED
      BY <1>8, <2>1, <2>2, <2>3 DEF Release
  <1>9. CASE SlideToLock
    <2>1. rec' \in [on : BOOLEAN, video : BOOLEAN, locked : BOOLEAN]
      BY <1>0, <1>9 DEF SlideToLock
    <2> QED
      BY <1>0, <1>9, <2>1 DEF SlideToLock, refs, RecorderTypeOK
  <1>10. ASSUME NEW send \in BOOLEAN, Buttons(send)
         PROVE  RecorderTypeOK'
    <2>1. rec.on /\ StopRec(send)
      BY <1>10 DEF Buttons
    <2>2. /\ take' \in [TakeIds -> Take]
          /\ streamRef' \in Refs /\ recorderRef' \in Refs
          /\ sendOnStop' \in BOOLEAN /\ moving' = FALSE /\ rec' = NoRec
          /\ wanted' \subseteq TakeIds /\ stray' \subseteq TakeIds
      BY <2>1, RecordingStops
    <2> QED
      BY <1>0, <1>2, <1>10, <2>2 DEF Buttons, RecorderTypeOK
  <1>11. ASSUME NEW t \in TakeIds, AskFails(t) \/ AskCancelled(t)
         PROVE  RecorderTypeOK'
    <2>1. take' \in [TakeIds -> Take]
      BY <1>0, <1>11 DEF AskFails, AskCancelled, Take
    <2> QED
      BY <1>0, <1>1, <1>2, <1>3, <1>11, <2>1 DEF AskFails, AskCancelled, RecorderTypeOK
  <1>12. ASSUME NEW t \in TakeIds, Granted(t) \/ NoRecorder(t)
         PROVE  RecorderTypeOK'
    <2>1. take' \in [TakeIds -> Take]
      <3>1. \A x \in Take : /\ [x EXCEPT !.pc = "recording", !.open = TRUE] \in Take
                            /\ [x EXCEPT !.pc = "over"] \in Take
        BY DEF Take
      <3>2. \/ take' = [StreamStopped(take) EXCEPT ![t] = [StreamStopped(take)[t] EXCEPT
                                                            !.pc = "recording", !.open = TRUE]]
            \/ take' = [StreamStopped(take) EXCEPT ![t] = [StreamStopped(take)[t] EXCEPT
                                                            !.pc = "over"]]
        BY <1>4, <1>12 DEF Granted, NoRecorder, OthersStopped
      <3>3. PICK x \in Take : x = StreamStopped(take)[t]
        BY <1>4
      <3>4. \E y \in Take : take' = [StreamStopped(take) EXCEPT ![t] = y]
        BY <3>1, <3>2, <3>3
      <3> QED
        BY <1>4, <3>4
    <2> QED
      BY <1>0, <1>1, <1>2, <1>3, <1>12, <2>1 DEF Granted, NoRecorder, RecorderTypeOK
  <1>13. ASSUME NEW t \in TakeIds, DataAvailable(t) \/ OnStop(t)
         PROVE  RecorderTypeOK'
    <2>1. take' \in [TakeIds -> Take]
      <3>1. \A x \in Take : [x EXCEPT !.pc = "over", !.open = FALSE] \in Take
        BY DEF Take
      <3>2. CASE OnStop(t)
        <4>1. take' = [take EXCEPT ![t] = [take[t] EXCEPT !.pc = "over", !.open = FALSE]]
          BY <1>0, <3>2 DEF OnStop
        <4> QED
          BY <1>0, <3>1, <4>1
      <3> QED
        BY <1>0, <1>13, <3>2 DEF DataAvailable
    <2>2. chunks' \subseteq TakeIds
      BY <1>0, <1>13 DEF DataAvailable, OnStop
    <2>3. sent' \subseteq [take : TakeIds, data : SUBSET TakeIds]
      BY <1>0, <1>13, <2>2 DEF DataAvailable, OnStop
    <2>4. streamRef' \in Refs
      BY <1>0, <1>1, <1>13 DEF DataAvailable, OnStop, refs
    <2> QED
      BY <1>0, <1>13, <2>1, <2>2, <2>3, <2>4 DEF DataAvailable, OnStop, refs, RecorderTypeOK
  <1>14. CASE Unmount
    BY <1>0, <1>1, <1>2, <1>3, <1>4, <1>14 DEF Unmount, RecorderTypeOK
  <1> QED
    BY <1>5, <1>6, <1>7, <1>8, <1>9, <1>10, <1>11, <1>12, <1>13, <1>14 DEF RecorderNext

(* What an action does to the takes, the refs and the screen.              *)
LEMMA OthersAreStopped ==
  ASSUME RecorderTypeOK, NEW t \in TakeIds, Granted(t) \/ NoRecorder(t)
  PROVE  /\ TakeAt(t, "asking")
         /\ take'[t].pc = (IF Granted(t) THEN "recording" ELSE "over")
         /\ Granted(t) => take'[t].open
         /\ \A u \in TakeIds \ {t} :
              /\ u # streamRef => take'[u] = take[u]
              /\ u = streamRef => ~take'[u].open
              /\ u = streamRef => take'[u].pc = (IF take[u].pc = "recording" THEN "stopping"
                                                                            ELSE take[u].pc)
         /\ ~Granted(t) /\ t # streamRef => take'[t].open = take[t].open
         /\ ~Granted(t) /\ t = streamRef => ~take'[t].open
  <1>1. take \in [TakeIds -> Take]
    BY DEF RecorderTypeOK
  <1>2. PICK x \in Take : x = StreamStopped(take)[t]
    BY <1>1, StreamIsStopped
  <1>3. StreamStopped(take) \in [TakeIds -> Take]
    BY <1>1, StreamIsStopped
  <1>4. /\ \A u \in TakeIds : u # streamRef => StreamStopped(take)[u] = take[u]
        /\ \A u \in TakeIds : u = streamRef =>
             /\ StreamStopped(take)[u].open = FALSE
             /\ StreamStopped(take)[u].pc = (IF take[u].pc = "recording" THEN "stopping"
                                                                       ELSE take[u].pc)
    BY <1>1, StreamIsStopped
  <1>5. CASE Granted(t)
    <2>1. take' = [StreamStopped(take) EXCEPT ![t] = [x EXCEPT !.pc = "recording", !.open = TRUE]]
      BY <1>2, <1>3, <1>5 DEF Granted, OthersStopped
    <2>2. /\ [x EXCEPT !.pc = "recording", !.open = TRUE].pc = "recording"
          /\ [x EXCEPT !.pc = "recording", !.open = TRUE].open
      BY <1>2 DEF Take
    <2>3. /\ take'[t].pc = "recording" /\ take'[t].open
          /\ \A u \in TakeIds \ {t} : take'[u] = StreamStopped(take)[u]
      BY <1>3, <2>1, <2>2
    <2> QED
      BY <1>4, <1>5, <2>3 DEF Granted
  <1>6. CASE ~Granted(t)
    <2>1. take' = [StreamStopped(take) EXCEPT ![t] = [x EXCEPT !.pc = "over"]]
      BY <1>2, <1>3, <1>6 DEF NoRecorder, OthersStopped
    <2>2. /\ [x EXCEPT !.pc = "over"].pc = "over"
          /\ [x EXCEPT !.pc = "over"].open = x.open
      BY <1>2 DEF Take
    <2>3. /\ take'[t].pc = "over" /\ take'[t].open = x.open
          /\ \A u \in TakeIds \ {t} : take'[u] = StreamStopped(take)[u]
      BY <1>3, <2>1, <2>2
    <2> QED
      BY <1>2, <1>4, <1>6, <2>3 DEF NoRecorder
  <1> QED
    BY <1>5, <1>6

(* A step of a take's own that stops nothing else.                         *)
LEMMA OneTakeMoves ==
  ASSUME RecorderTypeOK
  PROVE  /\ \A t \in TakeIds : AskFails(t) \/ AskCancelled(t) =>
              /\ take'[t].pc = "over" /\ take'[t].open = take[t].open
              /\ \A u \in TakeIds \ {t} : take'[u] = take[u]
         /\ \A t \in TakeIds : OnStop(t) =>
              /\ take'[t].pc = "over" /\ ~take'[t].open
              /\ \A u \in TakeIds \ {t} : take'[u] = take[u]
         /\ HoldTimer =>
              /\ takes + 1 \in TakeIds
              /\ take'[takes + 1].pc = "asking" /\ take'[takes + 1].open = take[takes + 1].open
              /\ \A u \in TakeIds \ {takes + 1} : take'[u] = take[u]
         /\ take' = (IF sessRef = 0 THEN take ELSE [take EXCEPT ![sessRef].cancelled = TRUE]) =>
              \A u \in TakeIds : take'[u].pc = take[u].pc /\ take'[u].open = take[u].open
  <1>0. take \in [TakeIds -> Take] /\ takes \in Refs /\ sessRef \in Refs
    BY DEF RecorderTypeOK
  <1>1. ASSUME NEW t \in TakeIds, AskFails(t) \/ AskCancelled(t)
        PROVE  /\ take'[t].pc = "over" /\ take'[t].open = take[t].open
               /\ \A u \in TakeIds \ {t} : take'[u] = take[u]
    BY <1>0, <1>1 DEF AskFails, AskCancelled, Take
  <1>2. ASSUME NEW t \in TakeIds, OnStop(t)
        PROVE  /\ take'[t].pc = "over" /\ ~take'[t].open
               /\ \A u \in TakeIds \ {t} : take'[u] = take[u]
    <2>1. take' = [take EXCEPT ![t] = [take[t] EXCEPT !.pc = "over", !.open = FALSE]]
      BY <1>0, <1>2 DEF OnStop
    <2>2. \A x \in Take : /\ [x EXCEPT !.pc = "over", !.open = FALSE].pc = "over"
                          /\ ~[x EXCEPT !.pc = "over", !.open = FALSE].open
      BY DEF Take
    <2> QED
      BY <1>0, <2>1, <2>2
  <1>3. ASSUME HoldTimer
        PROVE  /\ takes + 1 \in TakeIds
               /\ take'[takes + 1].pc = "asking" /\ take'[takes + 1].open = take[takes + 1].open
               /\ \A u \in TakeIds \ {takes + 1} : take'[u] = take[u]
    <2>1. takes + 1 \in TakeIds
      BY <1>0, <1>3, MaxTakesAssumption DEF HoldTimer, TakeIds, Refs
    <2>2. take' = [take EXCEPT ![takes + 1] = [take[takes + 1] EXCEPT !.pc = "asking",
                                                                     !.video = modeVideo]]
      BY <1>0, <1>3, <2>1 DEF HoldTimer
    <2>3. \A x \in Take : /\ [x EXCEPT !.pc = "asking", !.video = modeVideo].pc = "asking"
                          /\ [x EXCEPT !.pc = "asking", !.video = modeVideo].open = x.open
      BY DEF Take
    <2> QED
      BY <1>0, <2>1, <2>2, <2>3
  <1>4. ASSUME take' = (IF sessRef = 0 THEN take ELSE [take EXCEPT ![sessRef].cancelled = TRUE])
        PROVE  \A u \in TakeIds : take'[u].pc = take[u].pc /\ take'[u].open = take[u].open
    BY <1>0, <1>4 DEF Take
  <1> QED
    BY <1>1, <1>2, <1>3, <1>4

(* A step that moves no take and no ref.                                   *)
LEMMA TakesStay ==
  ASSUME RecorderInv, RecorderTypeOK',
         \A t \in TakeIds : take'[t].pc = take[t].pc /\ take'[t].open = take[t].open,
         UNCHANGED <<takes, streamRef, recorderRef, stray, wanted, sent, chunks, sendOnStop>>,
         rec'.on = rec.on, holdTimer' => holdTimer \/ ~rec.on
  PROVE  RecorderInv'
  <1>1. TakesInOrder'
    BY DEF RecorderInv, TakesInOrder, TakeAt
  <1>2. Unfinished(take') = Unfinished(take)
    BY DEF Unfinished
  <1>3. OnlyTheLastIsOnScreen'
    BY <1>2 DEF RecorderInv, OnlyTheLastIsOnScreen, TakeAt
  <1>4. OpenStreamIsSeen'
    BY DEF RecorderInv, TakesAreTheUsers, OpenStreamIsSeen, TakeAt
  <1>5. SentAsWanted'
    BY DEF RecorderInv, TakesAreTheUsers, SentAsWanted
  <1> QED
    BY <1>1, <1>3, <1>4, <1>5 DEF RecorderInv, TakesAreTheUsers

(* The user ends the take on the screen.                                   *)
LEMMA EndedByUser ==
  ASSUME RecorderInv, NEW send \in BOOLEAN, rec.on, StopRec(send), ~holdTimer',
         UNCHANGED <<takes, chunks, sent>>
  PROVE  TakesInOrder' /\ OnlyTheLastIsOnScreen' /\ OpenStreamIsSeen' /\ SentAsWanted'
  <1>0. /\ RecorderTypeOK /\ TakesInOrder /\ (rec.on => takes \in TakeIds)
        /\ \A t \in Unfinished(take) : rec.on \/ t \in stray
        /\ \A t \in TakeIds \ stray :
             /\ take[t].pc \in {"asking", "recording"} => t = takes
             /\ TakeAt(t, "stopping") =>
                  /\ sendOnStop => t \in wanted
                  /\ \A u \in TakeIds : ~TakeAt(u, "recording")
                  /\ \A u \in TakeIds \ stray : TakeAt(u, "stopping") => u = t
             /\ take[t].pc \in {"recording", "stopping"} => chunks \subseteq {t} \union stray
        /\ OpenStreamIsSeen /\ SentAsWanted /\ stray \subseteq TakeIds
    BY DEF RecorderInv, OnlyTheLastIsOnScreen, TakesAreTheUsers, RecorderTypeOK
  <1>1. /\ wanted' = (IF send THEN wanted \union {takes} ELSE wanted)
        /\ stray' = stray \union Unfinished(take')
        /\ rec'.on = FALSE
        /\ \A t \in TakeIds : take'[t].pc # "recording"
    <2>1. rec' = NoRec
      BY <1>0, RecordingStops
    <2>2. rec'.on = FALSE
      BY <2>1 DEF NoRec
    <2> QED
      BY <1>0, <2>2, RecordingStops
  <1>2. \A t \in TakeIds : \/ take'[t].pc = take[t].pc
                           \/ TakeAt(t, "recording") /\ take'[t].pc = "stopping"
    BY <1>0, RecordingStops DEF TakeAt
  <1>3. \A t \in TakeIds \ stray : take'[t].pc = "stopping" =>
          /\ sendOnStop' => t \in wanted'
          /\ take[t].pc \in {"recording", "stopping"}
          /\ \A u \in TakeIds \ stray : take'[u].pc = "stopping" => u = t
    <2> SUFFICES ASSUME NEW t \in TakeIds \ stray, take'[t].pc = "stopping"
                 PROVE  /\ sendOnStop' => t \in wanted'
                        /\ take[t].pc \in {"recording", "stopping"}
                        /\ \A u \in TakeIds \ stray : take'[u].pc = "stopping" => u = t
      OBVIOUS
    <2>1. CASE TakeAt(t, "recording")
      <3>1. t = takes
        BY <1>0, <2>1 DEF TakeAt
      <3>2. sendOnStop' = send
        BY <1>0, <2>1, RecordingStops
      <3>3. \A u \in TakeIds \ stray : take'[u].pc = "stopping" => u = t
        <4> SUFFICES ASSUME NEW u \in TakeIds \ stray, take'[u].pc = "stopping"
                     PROVE  u = t
          OBVIOUS
        <4>1. TakeAt(u, "recording") \/ TakeAt(u, "stopping")
          BY <1>2 DEF TakeAt
        <4>2. ~TakeAt(u, "stopping")
          BY <1>0, <2>1
        <4> QED
          BY <1>0, <3>1, <4>1, <4>2 DEF TakeAt
      <3> QED
        BY <1>1, <2>1, <3>1, <3>2, <3>3 DEF TakeAt
    <2>2. CASE TakeAt(t, "stopping")
      <3>1. \A u \in TakeIds : ~TakeAt(u, "recording")
        BY <1>0, <2>2
      <3>2. sendOnStop' = sendOnStop
        BY <1>0, <3>1, RecordingStops
      <3>3. \A u \in TakeIds \ stray : take'[u].pc = "stopping" => TakeAt(u, "stopping")
        BY <1>2, <3>1 DEF TakeAt
      <3>4. sendOnStop => t \in wanted'
        BY <1>0, <1>1, <2>2
      <3> QED
        BY <1>0, <2>2, <3>2, <3>3, <3>4 DEF TakeAt
    <2> QED
      BY <1>2, <2>1, <2>2 DEF TakeAt
  <1>4. TakesInOrder'
    <2>1. \A t \in TakeIds : t > takes => take'[t].pc = "none"
      BY <1>0, <1>2 DEF TakesInOrder, TakeAt
    <2>2. \A t \in TakeIds : take'[t].open => take'[t].pc = "stopping"
      <3> SUFFICES ASSUME NEW t \in TakeIds, take'[t].open
                   PROVE  take'[t].pc = "stopping"
        OBVIOUS
      <3>1. take[t].open
        BY <1>0, RecordingStops
      <3> QED
        BY <1>0, <1>1, <1>2, <3>1 DEF TakesInOrder, TakeAt
    <2> QED
      BY <1>1, <2>1, <2>2 DEF TakesInOrder, TakeAt
  <1>5. OnlyTheLastIsOnScreen'
    <2>1. stray \subseteq stray' /\ \A t \in Unfinished(take') : t \in stray'
      BY <1>1
    <2>2. \A t \in TakeIds \ stray' : take'[t].pc \in {"asking", "recording", "stopping"} =>
            take'[t].pc = "stopping"
      BY <1>1 DEF Unfinished
    <2>3. \A t \in TakeIds \ stray' : take'[t].pc = "stopping" =>
            chunks \subseteq {t} \union stray'
      BY <1>0, <1>3, <2>1
    <2> QED
      BY <1>1, <1>3, <2>1, <2>2, <2>3 DEF OnlyTheLastIsOnScreen, TakeAt
  <1>6. OpenStreamIsSeen'
    <2> SUFFICES ASSUME NEW t \in TakeIds, take'[t].open
                 PROVE  streamRef' = t /\ TakeAt(t, "stopping")'
      BY DEF OpenStreamIsSeen
    <2>1. take'[t].pc = "stopping"
      BY <1>1, <1>4 DEF TakesInOrder
    <2>2. take[t].open /\ streamRef = t
      BY <1>0, RecordingStops DEF OpenStreamIsSeen
    <2>3. streamRef' = streamRef
      BY <1>0, <2>2, RecordingStops
    <2> QED
      BY <2>1, <2>2, <2>3 DEF TakeAt
  <1>7. SentAsWanted'
    BY <1>0, <1>1 DEF SentAsWanted
  <1> QED
    BY <1>4, <1>5, <1>6, <1>7

(* A take begins, or what was asked for is refused.                        *)
LEMMA TakeBegins ==
  ASSUME RecorderInv, HoldTimer
  PROVE  TakesInOrder' /\ OnlyTheLastIsOnScreen' /\ OpenStreamIsSeen' /\ SentAsWanted'
  <1>0. /\ RecorderTypeOK /\ TakesInOrder /\ OnlyTheLastIsOnScreen
        /\ OpenStreamIsSeen /\ SentAsWanted /\ takes \in Nat
    BY MaxTakesAssumption DEF RecorderInv, TakesAreTheUsers, RecorderTypeOK, Refs
  <1>1. /\ takes + 1 \in TakeIds
        /\ take'[takes + 1].pc = "asking" /\ take'[takes + 1].open = take[takes + 1].open
        /\ \A u \in TakeIds \ {takes + 1} : take'[u] = take[u]
    BY <1>0, OneTakeMoves
  <1>2. /\ takes' = takes + 1 /\ rec'.on /\ holdTimer /\ ~holdTimer'
        /\ UNCHANGED <<recorderRef, streamRef, sendOnStop, chunks, sent, wanted, stray>>
    BY DEF HoldTimer
  <1>3. take[takes + 1].pc = "none" /\ ~take[takes + 1].open
    BY <1>0, <1>1 DEF TakesInOrder, TakeAt
  <1>4. TakesInOrder'
    <2>1. \A t \in TakeIds : t > takes + 1 => take'[t].pc = "none"
      BY <1>0, <1>1 DEF TakesInOrder, TakeAt, TakeIds
    <2> QED
      BY <1>0, <1>1, <1>2, <1>3, <2>1 DEF TakesInOrder, TakeAt
  <1>5. OnlyTheLastIsOnScreen'
    <2>1. \A t \in TakeIds \ stray : take[t].pc \notin {"asking", "recording"}
      BY <1>0, <1>2 DEF OnlyTheLastIsOnScreen, Unfinished
    <2>2. \A t \in TakeIds \ stray : take'[t].pc \in {"asking", "recording"} => t = takes + 1
      BY <1>1, <2>1
    <2>3. \A t \in TakeIds : /\ take'[t].pc = "stopping" <=> take[t].pc = "stopping"
                             /\ take'[t].pc = "recording" <=> take[t].pc = "recording"
      BY <1>1, <1>3
    <2>4. \A t \in TakeIds \ stray : take'[t].pc = "stopping" =>
            /\ sendOnStop' => t \in wanted'
            /\ \A u \in TakeIds : take'[u].pc # "recording"
            /\ \A u \in TakeIds \ stray : take'[u].pc = "stopping" => u = t
      BY <1>0, <1>2, <2>3 DEF OnlyTheLastIsOnScreen, TakeAt
    <2>5. \A t \in TakeIds \ stray : take'[t].pc \in {"recording", "stopping"} =>
            chunks' \subseteq {t} \union stray
      BY <1>0, <1>2, <2>3 DEF OnlyTheLastIsOnScreen
    <2> QED
      BY <1>1, <1>2, <2>2, <2>4, <2>5 DEF OnlyTheLastIsOnScreen, TakeAt
  <1>6. OpenStreamIsSeen'
    BY <1>0, <1>1, <1>2, <1>3 DEF OpenStreamIsSeen, TakeAt
  <1>7. SentAsWanted'
    BY <1>0, <1>2 DEF SentAsWanted
  <1> QED
    BY <1>4, <1>5, <1>6, <1>7

LEMMA TakeIsRefused ==
  ASSUME RecorderInv, NEW t \in TakeIds, AskFails(t) \/ AskCancelled(t)
  PROVE  TakesInOrder' /\ OnlyTheLastIsOnScreen' /\ OpenStreamIsSeen' /\ SentAsWanted'
  <1>0. /\ RecorderTypeOK /\ TakesInOrder /\ OnlyTheLastIsOnScreen
        /\ OpenStreamIsSeen /\ SentAsWanted /\ stray \subseteq TakeIds
    BY DEF RecorderInv, TakesAreTheUsers, RecorderTypeOK
  <1>1. /\ take'[t].pc = "over" /\ take'[t].open = take[t].open
        /\ \A u \in TakeIds \ {t} : take'[u] = take[u]
    BY <1>0, OneTakeMoves
  <1>2. /\ TakeAt(t, "asking") /\ ~rec'.on /\ stray' = stray \union Unfinished(take')
        /\ UNCHANGED <<takes, holdTimer, recorderRef, streamRef, sendOnStop, chunks, sent,
                       wanted>>
    BY DEF AskFails, AskCancelled, NoRec
  <1>3. ~take[t].open /\ t <= takes
    BY <1>0, <1>2, MaxTakesAssumption
       DEF TakesInOrder, TakeAt, RecorderTypeOK, TakeIds, Refs
  <1>4. TakesInOrder'
    BY <1>0, <1>1, <1>2, <1>3, MaxTakesAssumption
       DEF TakesInOrder, TakeAt, RecorderTypeOK, TakeIds, Refs
  <1>5. OnlyTheLastIsOnScreen'
    <2>1. \A u \in TakeIds \ stray' : take'[u].pc \notin {"asking", "recording"}
      BY <1>2 DEF Unfinished
    <2>2. \A u \in TakeIds \ stray' : take'[u].pc = "stopping" =>
            /\ u \notin stray /\ take[u].pc = "stopping"
            /\ sendOnStop => u \in wanted
            /\ chunks \subseteq {u} \union stray
            /\ \A v \in TakeIds : take'[v].pc # "recording"
            /\ \A v \in TakeIds \ stray' : take'[v].pc = "stopping" => v = u
      BY <1>0, <1>1, <1>2 DEF OnlyTheLastIsOnScreen, TakeAt
    <2> QED
      BY <1>2, <2>1, <2>2 DEF OnlyTheLastIsOnScreen, TakeAt
  <1>6. OpenStreamIsSeen'
    <2> SUFFICES ASSUME NEW u \in TakeIds, take'[u].open
                 PROVE  streamRef = u /\ (take'[u].pc = "stopping" \/ u \in stray')
      BY <1>2 DEF OpenStreamIsSeen, TakeAt
    <2>1. take[u].open /\ take'[u] = take[u]
      BY <1>1, <1>3
    <2> QED
      BY <1>0, <1>2, <2>1 DEF OpenStreamIsSeen, TakesInOrder, Unfinished
  <1>7. SentAsWanted'
    BY <1>0, <1>2 DEF SentAsWanted
  <1> QED
    BY <1>4, <1>5, <1>6, <1>7

(* The microphone is granted; whichever take had the stream loses it.      *)
LEMMA TakeIsGranted ==
  ASSUME RecorderInv, NEW t \in TakeIds, Granted(t) \/ NoRecorder(t)
  PROVE  TakesInOrder' /\ OnlyTheLastIsOnScreen' /\ OpenStreamIsSeen' /\ SentAsWanted'
  <1>0. /\ RecorderTypeOK /\ TakesInOrder /\ OnlyTheLastIsOnScreen
        /\ OpenStreamIsSeen /\ SentAsWanted /\ stray \subseteq TakeIds
        /\ streamRef \in Refs
    BY DEF RecorderInv, TakesAreTheUsers, RecorderTypeOK
  <1>1. /\ TakeAt(t, "asking")
        /\ take'[t].pc = (IF Granted(t) THEN "recording" ELSE "over")
        /\ \A u \in TakeIds \ {t} :
             /\ u # streamRef => take'[u] = take[u]
             /\ u = streamRef => ~take'[u].open
             /\ u = streamRef => take'[u].pc = (IF take[u].pc = "recording" THEN "stopping"
                                                                           ELSE take[u].pc)
        /\ ~Granted(t) /\ t # streamRef => take'[t].open = take[t].open
        /\ ~Granted(t) /\ t = streamRef => ~take'[t].open
    BY <1>0, OthersAreStopped
  <1>2. /\ chunks' = {}
        /\ UNCHANGED <<takes, holdTimer, sendOnStop, sent, wanted>>
        /\ CutOff \subseteq stray' /\ stray \subseteq stray'
        /\ Granted(t) => streamRef' = t /\ recorderRef' = t /\ rec' = rec /\ stray' = CutOff
        /\ ~Granted(t) => /\ streamRef' = 0 /\ ~rec'.on
                          /\ stray' = CutOff \union Unfinished(take')
    BY DEF Granted, NoRecorder, CutOff, NoRec
  <1>3. ~take[t].open /\ t <= takes /\ (rec.on \/ t \in stray)
    BY <1>0, <1>1, MaxTakesAssumption
       DEF TakesInOrder, OnlyTheLastIsOnScreen, Unfinished, TakeAt, RecorderTypeOK, TakeIds, Refs
  <1>4. \A u \in TakeIds \ {t} : ~take'[u].open /\ take'[u].pc # "recording"
    <2> SUFFICES ASSUME NEW u \in TakeIds \ {t}
                 PROVE  ~take'[u].open /\ take'[u].pc # "recording"
      OBVIOUS
    <2>1. u # streamRef => ~take[u].open /\ take[u].pc # "recording"
      BY <1>0 DEF TakesInOrder, OpenStreamIsSeen, TakeAt
    <2> QED
      BY <1>1, <2>1
  <1>5. \A u \in TakeIds \ {t} : u \notin stray' => take'[u].pc = take[u].pc
    BY <1>1, <1>2 DEF CutOff, TakeAt
  <1>6. TakesInOrder'
    <2>1. \A u \in TakeIds : u > takes => take'[u].pc = "none"
      BY <1>0, <1>1, <1>3, MaxTakesAssumption
         DEF TakesInOrder, TakeAt, RecorderTypeOK, TakeIds, Refs
    <2>2. CASE Granted(t)
      BY <1>1, <1>2, <1>4, <2>1, <2>2 DEF TakesInOrder, TakeAt
    <2>3. CASE ~Granted(t)
      BY <1>1, <1>2, <1>3, <1>4, <2>1, <2>3 DEF TakesInOrder, TakeAt
    <2> QED
      BY <2>2, <2>3
  <1>7. OnlyTheLastIsOnScreen'
    <2>1. CASE Granted(t)
      <3>1. Unfinished(take') \subseteq Unfinished(take)
        BY <1>1, <1>5, <1>4 DEF Unfinished, TakeAt
      <3>2. (holdTimer' => ~rec'.on) /\ (rec'.on => takes' \in TakeIds)
            /\ \A u \in Unfinished(take') : rec'.on \/ u \in stray'
        BY <1>0, <1>2, <2>1, <3>1 DEF OnlyTheLastIsOnScreen
      <3>3. \A u \in TakeIds \ stray' :
              /\ take'[u].pc \in {"asking", "recording"} => u = takes'
              /\ take'[u].pc # "stopping"
        BY <1>0, <1>1, <1>2, <1>5, <2>1 DEF OnlyTheLastIsOnScreen, CutOff, TakeAt
      <3> QED
        BY <1>2, <3>2, <3>3 DEF OnlyTheLastIsOnScreen, TakeAt
    <2>2. CASE ~Granted(t)
      <3>1. \A u \in TakeIds \ stray' : take'[u].pc \notin {"asking", "recording"}
        BY <1>2, <2>2 DEF Unfinished
      <3>2. \A u \in TakeIds \ stray' : take'[u].pc # "stopping"
        BY <1>1, <1>2, <1>5, <2>2 DEF CutOff, TakeAt
      <3> QED
        BY <1>2, <2>2, <3>1, <3>2 DEF OnlyTheLastIsOnScreen, TakeAt
    <2> QED
      BY <2>1, <2>2
  <1>8. OpenStreamIsSeen'
    <2>1. CASE Granted(t)
      BY <1>2, <1>3, <1>4, <2>1 DEF OpenStreamIsSeen, TakeAt
    <2>2. CASE ~Granted(t)
      BY <1>1, <1>3, <1>4, <2>2 DEF OpenStreamIsSeen
    <2> QED
      BY <2>1, <2>2
  <1>9. SentAsWanted'
    BY <1>0, <1>2 DEF SentAsWanted
  <1> QED
    BY <1>6, <1>7, <1>8, <1>9

(* A recorder hands over its data.                                         *)
LEMMA DataArrives ==
  ASSUME RecorderInv, NEW t \in TakeIds, DataAvailable(t) \/ OnStop(t)
  PROVE  TakesInOrder' /\ OnlyTheLastIsOnScreen' /\ OpenStreamIsSeen' /\ SentAsWanted'
  <1>0. /\ RecorderTypeOK /\ TakesInOrder /\ OnlyTheLastIsOnScreen
        /\ OpenStreamIsSeen /\ SentAsWanted /\ stray \subseteq TakeIds
    BY DEF RecorderInv, TakesAreTheUsers, RecorderTypeOK
  <1>1. /\ take[t].pc \in {"recording", "stopping"}
        /\ chunks' = chunks \union {t}
        /\ UNCHANGED <<takes, holdTimer, sendOnStop, wanted, stray, rec, recorderRef>>
    BY DEF DataAvailable, OnStop, TakeAt, refs
  <1>2. \A u \in TakeIds \ stray : take[u].pc \in {"recording", "stopping"} =>
          chunks' \subseteq {u} \union stray
    <2> SUFFICES ASSUME NEW u \in TakeIds \ stray, take[u].pc \in {"recording", "stopping"}
                 PROVE  t = u \/ t \in stray
      BY <1>0, <1>1 DEF OnlyTheLastIsOnScreen
    <2>1. CASE TakeAt(t, "stopping") /\ t \notin stray
      BY <1>0, <2>1 DEF OnlyTheLastIsOnScreen, TakeAt
    <2>2. CASE TakeAt(t, "recording")
      <3>1. TakeAt(u, "recording")
        BY <1>0, <2>2 DEF OnlyTheLastIsOnScreen, TakeAt
      <3> QED
        BY <1>0, <2>2, <3>1 DEF TakesInOrder
    <2> QED
      BY <1>1, <2>1, <2>2 DEF TakeAt
  <1>3. CASE DataAvailable(t)
    <2>1. UNCHANGED <<take, streamRef, sent>>
      BY <1>3 DEF DataAvailable, refs
    <2>2. Unfinished(take') = Unfinished(take)
      BY <2>1
    <2>3. OnlyTheLastIsOnScreen'
      BY <1>0, <1>1, <1>2, <2>1, <2>2 DEF OnlyTheLastIsOnScreen, TakeAt
    <2> QED
      BY <1>0, <1>1, <2>1, <2>3 DEF TakesInOrder, OpenStreamIsSeen, SentAsWanted, TakeAt
  <1>4. CASE OnStop(t)
    <2>1. /\ take'[t].pc = "over" /\ ~take'[t].open
          /\ \A u \in TakeIds \ {t} : take'[u] = take[u]
      BY <1>0, <1>4, OneTakeMoves
    <2>2. /\ TakeAt(t, "stopping")
          /\ sent' = IF sendOnStop THEN sent \union {[take |-> t, data |-> chunks']} ELSE sent
          /\ streamRef' = IF streamRef = t THEN 0 ELSE streamRef
      BY <1>4 DEF OnStop
    <2>3. TakesInOrder'
      <3>1. \A u \in TakeIds : take'[u].open => u # t /\ take[u].open
        BY <2>1
      <3>2. \A u \in TakeIds : take'[u].pc = "recording" => u # t /\ TakeAt(u, "recording")
        BY <2>1 DEF TakeAt
      <3>3. t <= takes
        BY <1>0, <2>2, MaxTakesAssumption
           DEF TakesInOrder, TakeAt, RecorderTypeOK, TakeIds, Refs
      <3>4. \A u \in TakeIds : u > takes => take'[u].pc = "none"
        BY <1>0, <2>1, <3>3, MaxTakesAssumption
           DEF TakesInOrder, TakeAt, RecorderTypeOK, TakeIds, Refs
      <3> QED
        BY <1>0, <1>1, <2>1, <2>2, <3>1, <3>2, <3>4 DEF TakesInOrder, TakeAt
    <2>4. OnlyTheLastIsOnScreen'
      <3>1. Unfinished(take') = Unfinished(take)
        BY <2>1, <2>2 DEF Unfinished, TakeAt
      <3>2. \A u \in TakeIds : take'[u].pc \in {"asking", "recording", "stopping"} =>
              take'[u].pc = take[u].pc
        BY <2>1
      <3>3. \A u \in TakeIds \ stray : take'[u].pc = "stopping" =>
              /\ sendOnStop' => u \in wanted'
              /\ \A v \in TakeIds : take'[v].pc # "recording"
              /\ \A v \in TakeIds \ stray : take'[v].pc = "stopping" => v = u
        BY <1>0, <1>1, <3>2 DEF OnlyTheLastIsOnScreen, TakeAt
      <3> QED
        BY <1>0, <1>1, <1>2, <3>1, <3>2, <3>3 DEF OnlyTheLastIsOnScreen, TakeAt
    <2>5. OpenStreamIsSeen'
      BY <1>0, <1>1, <2>1, <2>2 DEF OpenStreamIsSeen, TakeAt
    <2>6. SentAsWanted'
      <3>1. t \notin stray /\ sendOnStop => t \in wanted /\ chunks' \subseteq {t} \union stray
        BY <1>0, <1>1, <1>2, <2>2 DEF OnlyTheLastIsOnScreen
      <3> QED
        BY <1>0, <1>1, <2>2, <3>1 DEF SentAsWanted
    <2> QED
      BY <2>3, <2>4, <2>5, <2>6
  <1> QED
    BY <1>3, <1>4

LEMMA ComposerGoes ==
  ASSUME RecorderInv, Unmount
  PROVE  TakesInOrder' /\ OnlyTheLastIsOnScreen' /\ OpenStreamIsSeen' /\ SentAsWanted'
  <1>0. /\ RecorderTypeOK /\ TakesInOrder /\ OnlyTheLastIsOnScreen
        /\ OpenStreamIsSeen /\ SentAsWanted /\ stray \subseteq TakeIds
        /\ take \in [TakeIds -> Take]
    BY DEF RecorderInv, TakesAreTheUsers, RecorderTypeOK
  <1>1. /\ ~holdTimer' /\ ~rec'.on /\ stray' = stray \union Unfinished(take)
        /\ UNCHANGED <<takes, sendOnStop, chunks, sent, wanted>>
    BY DEF Unmount, NoRec
  <1>2. \A u \in TakeIds : /\ ~take'[u].open
                           /\ take'[u].pc = (IF TakeAt(u, "recording") THEN "stopping"
                                                                      ELSE take[u].pc)
    <2> SUFFICES ASSUME NEW u \in TakeIds
                 PROVE  /\ ~take'[u].open
                        /\ take'[u].pc = (IF TakeAt(u, "recording") THEN "stopping"
                                                                   ELSE take[u].pc)
      OBVIOUS
    <2>1. take' = StreamStopped(take)
      BY DEF Unmount
    <2>2. u # streamRef => ~take[u].open /\ ~TakeAt(u, "recording")
      BY <1>0 DEF TakesInOrder, OpenStreamIsSeen
    <2>3. u # streamRef => take'[u] = take[u]
      BY <1>0, <2>1, StreamIsStopped
    <2>4. u = streamRef => /\ take'[u].open = FALSE
                           /\ take'[u].pc = (IF take[u].pc = "recording" THEN "stopping"
                                                                        ELSE take[u].pc)
      BY <1>0, <2>1, StreamIsStopped
    <2> QED
      BY <2>2, <2>3, <2>4 DEF TakeAt
  <1>3. TakesInOrder'
    BY <1>0, <1>1, <1>2 DEF TakesInOrder, TakeAt
  <1>4. OnlyTheLastIsOnScreen'
    <2>1. Unfinished(take') \subseteq Unfinished(take)
      BY <1>2 DEF Unfinished, TakeAt
    <2>2. \A u \in TakeIds \ stray' : take'[u].pc \in {"asking", "recording", "stopping"} =>
            take'[u].pc = "stopping" /\ TakeAt(u, "stopping")
      BY <1>1, <1>2 DEF Unfinished, TakeAt
    <2>3. \A u \in TakeIds : take'[u].pc # "recording"
      BY <1>2 DEF TakeAt
    <2> QED
      BY <1>0, <1>1, <2>1, <2>2, <2>3 DEF OnlyTheLastIsOnScreen, TakeAt
  <1>5. OpenStreamIsSeen'
    BY <1>2 DEF OpenStreamIsSeen
  <1>6. SentAsWanted'
    BY <1>0, <1>1 DEF SentAsWanted
  <1> QED
    BY <1>3, <1>4, <1>5, <1>6

LEMMA RecorderStep ==
  ASSUME RecorderInv, [RecorderNext]_recorderVars
  PROVE  RecorderInv'
  <1>0. /\ RecorderTypeOK /\ TakesInOrder /\ (rec.on => takes \in TakeIds)
        /\ holdTimer \in BOOLEAN
    BY DEF RecorderInv, OnlyTheLastIsOnScreen, RecorderTypeOK
  <1>1. RecorderTypeOK'
    BY <1>0, RecorderTypeStep
  <1>2. TakesInOrder' /\ OnlyTheLastIsOnScreen' /\ OpenStreamIsSeen' /\ SentAsWanted'
          => RecorderInv'
    BY <1>1 DEF RecorderInv, TakesAreTheUsers
  <1>3. CASE Press \/ ReleaseElsewhere \/ SlideToLock \/ Write \/ Submit
             \/ UNCHANGED recorderVars
    <2>1. /\ UNCHANGED <<take, takes, streamRef, recorderRef, stray, wanted, sent, chunks,
                         sendOnStop>>
          /\ holdTimer' => holdTimer \/ ~rec.on
      BY <1>3 DEF Press, ReleaseElsewhere, SlideToLock, Write, Submit, recorderVars, refs
    <2>2. rec'.on = rec.on
      <3>1. CASE SlideToLock
        BY <3>1 DEF SlideToLock, RecorderInv, RecorderTypeOK
      <3> QED
        BY <1>3, <3>1 DEF Press, ReleaseElsewhere, Write, Submit, recorderVars
    <2> QED
      BY <1>1, <2>1, <2>2, TakesStay
  <1>4. CASE Release
    <2>1. ~holdTimer' /\ UNCHANGED <<takes, chunks, sent>>
      BY <1>4 DEF Release
    <2>2. CASE rec.on /\ StopRec(TRUE)
      BY <1>2, <2>1, <2>2, EndedByUser
    <2>3. CASE UNCHANGED <<rec, wanted, sendOnStop, take, recorderRef, streamRef, stray>>
      BY <1>1, <2>1, <2>3, TakesStay
    <2>4. CASE /\ take' = IF sessRef = 0 THEN take
                          ELSE [take EXCEPT ![sessRef].cancelled = TRUE]
               /\ UNCHANGED <<rec, wanted, sendOnStop, recorderRef, streamRef, stray>>
      <3>1. \A u \in TakeIds : take'[u].pc = take[u].pc /\ take'[u].open = take[u].open
        BY <1>0, <2>4, OneTakeMoves
      <3> QED
        BY <1>1, <2>1, <2>4, <3>1, TakesStay
    <2> QED
      BY <1>4, <2>2, <2>3, <2>4 DEF Release
  <1>5. ASSUME NEW send \in BOOLEAN, Buttons(send)
        PROVE  RecorderInv'
    <2>1. rec.on /\ StopRec(send) /\ UNCHANGED <<takes, chunks, sent, holdTimer>>
      BY <1>5 DEF Buttons
    <2>2. ~holdTimer'
      BY <2>1 DEF RecorderInv, OnlyTheLastIsOnScreen
    <2> QED
      BY <1>2, <2>1, <2>2, EndedByUser
  <1> QED
    BY <1>2, <1>3, <1>4, <1>5, TakeBegins, TakeIsRefused, TakeIsGranted, DataArrives,
       ComposerGoes DEF RecorderNext

(* A take that was not lost is the last one or awaits its stop event, and  *)
(* the refs of the recorder are its.                                       *)
THEOREM RecorderInductive == RecorderSpec => []RecorderInv
  BY RecorderInitHolds, RecorderStep, PTL DEF RecorderSpec

(* However presses, the answers of getMediaStream, stop events and the     *)
(* unmount interleave, an open microphone is the one stopStream reaches    *)
(* and is shown, and a clip that is sent is a take the user sent, but for  *)
(* the takes that lost their screen, their stream or their chunks.         *)
THEOREM RecordingsAreTheUsers == RecorderSpec => []TakesAreTheUsers
  BY RecorderInductive, PTL DEF RecorderInv

(***************************************************************************)
(* Attachments: the quota.                                                 *)
(***************************************************************************)

LEMMA StorageInitHolds == StorageInit => StorageInv
  <1> SUFFICES ASSUME StorageInit
               PROVE  StorageInv
    OBVIOUS
  <1>1. upload \in [Uploads -> Upload] /\ \A u \in Uploads : upload[u].pc = "none"
    BY DEF StorageInit, NoUpload, Upload
  <1>2. UploadsCounted = {}
    BY <1>1 DEF UploadsCounted, In
  <1>3. {u \in UploadsCounted : upload[u].thumbnail} = {}
    BY <1>2
  <1>4. IsFiniteSet({}) /\ Cardinality({}) = 0
    BY FS_EmptySet
  <1>5. UsedIsSum
    BY <1>2, <1>3, <1>4 DEF UsedIsSum, UploadsCounted, StorageInit
  <1>6. CheckedAlone /\ CheckedFits
    BY <1>1, StorageBound DEF CheckedAlone, CheckedFits, UnderWay, In, StorageInit
  <1>7. /\ storageUsed \in Nat /\ storageLimit \in Nat
        /\ quotaRaced \in BOOLEAN /\ limitCut \in BOOLEAN
    <2>1. 0..MaxStorage \subseteq Nat
      BY StorageBound
    <2> QED
      BY <2>1 DEF StorageInit
  <1> QED
    BY <1>1, <1>2, <1>4, <1>5, <1>6, <1>7 DEF StorageInv

(* What an action writes of an upload; the others stay.                    *)
LEMMA OneUploadMoves ==
  ASSUME StorageInv, NEW u \in Uploads,
         \/ Receive(u) \/ CheckQuota(u) \/ CreateAttachment(u)
         \/ CountUpload(u) \/ LinkToMessage(u) \/ UploadFails(u)
  PROVE  /\ upload' \in [Uploads -> Upload]
         /\ \A v \in Uploads \ {u} : upload'[v] = upload[v]
         /\ ~Receive(u) => upload'[u].thumbnail = upload[u].thumbnail
         /\ Receive(u) => upload'[u].pc = "received"
         /\ CheckQuota(u) => upload'[u].pc = (IF Checked(u) THEN "checked" ELSE "refused")
         /\ CreateAttachment(u) => upload'[u].pc = "created"
         /\ CountUpload(u) => upload'[u].pc = "counted"
         /\ LinkToMessage(u) => upload'[u].pc = "linked"
         /\ UploadFails(u) => upload'[u].pc = "dropped"
  <1>0. upload \in [Uploads -> Upload] /\ storageUsed \in Nat
    BY DEF StorageInv
  <1>1. CASE Receive(u)
    <2>1. \A t \in BOOLEAN : /\ [NoUpload EXCEPT !.pc = "received", !.thumbnail = t] \in Upload
                             /\ [NoUpload EXCEPT !.pc = "received", !.thumbnail = t].pc = "received"
      BY DEF NoUpload, Upload
    <2>2. PICK x \in Upload : x.pc = "received" /\ upload' = [upload EXCEPT ![u] = x]
      BY <1>1, <2>1 DEF Receive
    <2> QED
      BY <1>0, <1>1, <2>2 DEF Receive, CheckQuota, CreateAttachment, CountUpload,
                              LinkToMessage, UploadFails, In
  <1>2. CASE CheckQuota(u)
    <2>1. PICK pc \in {"checked", "refused"} : pc = (IF Checked(u) THEN "checked" ELSE "refused")
      OBVIOUS
    <2>2. upload' = [upload EXCEPT ![u] = [upload[u] EXCEPT !.pc = pc, !.seen = storageUsed]]
      BY <1>0, <1>2, <2>1 DEF CheckQuota
    <2>3. \A x \in Upload : /\ [x EXCEPT !.pc = pc, !.seen = storageUsed] \in Upload
                            /\ [x EXCEPT !.pc = pc, !.seen = storageUsed].pc = pc
                            /\ [x EXCEPT !.pc = pc, !.seen = storageUsed].thumbnail = x.thumbnail
      BY <1>0 DEF Upload
    <2>4. /\ ~Receive(u) /\ ~CreateAttachment(u) /\ ~CountUpload(u) /\ ~LinkToMessage(u)
          /\ ~UploadFails(u)
      <3>1. upload[u].pc = "received"
        BY <1>2 DEF CheckQuota, In
      <3>2. upload'[u].pc = pc
        BY <1>0, <2>2, <2>3
      <3>3. ~UploadFails(u)
        <4>1. UploadFails(u) => upload'[u].pc = "dropped"
          BY <1>0 DEF UploadFails, Upload
        <4> QED
          BY <2>1, <3>2, <4>1
      <3> QED
        BY <3>1, <3>3 DEF Receive, CreateAttachment, CountUpload, LinkToMessage, In
    <2> QED
      BY <1>0, <2>1, <2>2, <2>3, <2>4
  <1>3. CASE CreateAttachment(u) \/ CountUpload(u) \/ LinkToMessage(u) \/ UploadFails(u)
    <2>1. \A pc \in {"created", "counted", "linked", "dropped"} :
            upload' = [upload EXCEPT ![u].pc = pc] =>
              /\ upload' \in [Uploads -> Upload]
              /\ \A v \in Uploads \ {u} : upload'[v] = upload[v]
              /\ upload'[u].pc = pc /\ upload'[u].thumbnail = upload[u].thumbnail
      BY <1>0 DEF Upload
    <2>2. /\ CreateAttachment(u) => upload' = [upload EXCEPT ![u].pc = "created"]
          /\ CountUpload(u) => upload' = [upload EXCEPT ![u].pc = "counted"]
          /\ LinkToMessage(u) => upload' = [upload EXCEPT ![u].pc = "linked"]
          /\ UploadFails(u) => upload' = [upload EXCEPT ![u].pc = "dropped"]
      BY DEF CreateAttachment, CountUpload, LinkToMessage, UploadFails
    <2>3. CASE ~Receive(u) /\ ~CheckQuota(u)
      BY <1>3, <2>1, <2>2, <2>3
    <2> QED
      BY <1>1, <1>2, <2>3
  <1> QED
    BY <1>1, <1>2, <1>3

LEMMA StorageStep ==
  ASSUME StorageInv, [StorageNext]_storageVars
  PROVE  StorageInv'
  <1>0. /\ storageUsed \in Nat /\ storageLimit \in Nat
        /\ quotaRaced \in BOOLEAN /\ limitCut \in BOOLEAN
        /\ upload \in [Uploads -> Upload]
        /\ IsFiniteSet(UploadsCounted) /\ UsedIsSum /\ CheckedAlone /\ CheckedFits
    BY DEF StorageInv
  <1>1. CASE UNCHANGED storageVars
    BY <1>0, <1>1 DEF storageVars, StorageInv, UploadsCounted, UsedIsSum, CheckedAlone,
                      CheckedFits, UnderWay, In, Checked, TotalSize
  <1>2. ASSUME NEW u \in Uploads,
               \/ Receive(u) \/ CheckQuota(u) \/ CreateAttachment(u)
               \/ CountUpload(u) \/ LinkToMessage(u) \/ UploadFails(u)
        PROVE  StorageInv'
    <2> DEFINE Thumbs == {v \in UploadsCounted : upload[v].thumbnail}
    <2>1. /\ upload' \in [Uploads -> Upload]
          /\ \A v \in Uploads \ {u} : upload'[v] = upload[v]
          /\ storageLimit' = storageLimit /\ quotaRaced' \in BOOLEAN /\ limitCut' \in BOOLEAN
          /\ storageLimit' \in Nat
      BY <1>0, <1>2, OneUploadMoves DEF Receive, CheckQuota, CreateAttachment, CountUpload,
                                        LinkToMessage, UploadFails
    <2>2. CASE ~CountUpload(u)
      <3>1. storageUsed' = storageUsed
        BY <1>2, <2>2 DEF Receive, CheckQuota, CreateAttachment, LinkToMessage, UploadFails
      <3>2. In(u, {"counted", "linked"})' <=> In(u, {"counted", "linked"})
        BY <1>2, <2>2, OneUploadMoves DEF Receive, CheckQuota, CreateAttachment, LinkToMessage,
                                          UploadFails, In
      <3>3. UploadsCounted' = UploadsCounted
        BY <2>1, <3>2 DEF UploadsCounted, In
      <3>4. \A v \in UploadsCounted : upload'[v].thumbnail = upload[v].thumbnail
        BY <1>2, <2>1, OneUploadMoves DEF UploadsCounted, In, Receive
      <3>5. {v \in UploadsCounted' : upload'[v].thumbnail} = Thumbs
        BY <3>3, <3>4
      <3>6. UsedIsSum'
        BY <1>0, <3>1, <3>3, <3>5 DEF UsedIsSum, UploadsCounted
      <3>7. CheckedAlone' /\ CheckedFits'
        <4>1. \A v \in Uploads \ {u} : UnderWay(v)' <=> UnderWay(v)
          BY <2>1 DEF UnderWay, In
        <4>2. \A v \in Uploads : v # u => (Checked(v)' <=> Checked(v))
          BY <2>1, <3>1 DEF Checked, TotalSize
        <4>3. CASE CheckQuota(u) /\ Checked(u)
          <5>1. /\ quotaRaced' = (\E v \in Uploads \ {u} : UnderWay(v))
                /\ Checked(u)
            BY <4>3 DEF CheckQuota
          <5>2. Checked(u)' /\ storageUsed' <= storageLimit'
            <6>1. upload'[u].thumbnail = upload[u].thumbnail
              <7>1. ~Receive(u)
                BY <4>3 DEF Receive, CheckQuota, In
              <7> QED
                BY <1>2, <7>1, OneUploadMoves
            <6>2. TotalSize(u)' = TotalSize(u) /\ TotalSize(u) \in {1, 2}
              BY <6>1 DEF TotalSize
            <6> QED
              BY <1>0, <2>1, <3>1, <4>3, <6>2 DEF Checked
          <5>3. ~quotaRaced' => \A v \in Uploads \ {u} : ~UnderWay(v)'
            BY <4>1, <5>1
          <5> QED
            BY <5>2, <5>3 DEF CheckedAlone, CheckedFits
        <4>4. CASE CreateAttachment(u)
          <5>1. /\ quotaRaced' = quotaRaced /\ limitCut' = limitCut
                /\ UnderWay(u) /\ UnderWay(u)'
            BY <1>2, <4>4, OneUploadMoves DEF CreateAttachment, UnderWay, In
          <5>2. Checked(u)' <=> Checked(u)
            BY <1>2, <2>1, <3>1, <4>4, OneUploadMoves DEF Checked, TotalSize, Receive, CreateAttachment, In
          <5> QED
            BY <1>0, <2>1, <3>1, <4>1, <4>2, <5>1, <5>2 DEF CheckedAlone, CheckedFits
        <4>5. CASE ~CreateAttachment(u) /\ ~(CheckQuota(u) /\ Checked(u))
          <5>1. ~UnderWay(u)'
            BY <1>2, <2>2, <4>5, OneUploadMoves DEF UnderWay, In
          <5>2. quotaRaced' = quotaRaced /\ limitCut' = limitCut
            BY <1>0, <1>2, <2>2, <4>5 DEF Receive, CheckQuota, LinkToMessage, UploadFails
          <5> QED
            BY <1>0, <2>1, <3>1, <4>1, <4>2, <5>1, <5>2 DEF CheckedAlone, CheckedFits
        <4> QED
          BY <4>3, <4>4, <4>5
      <3> QED
        BY <1>0, <2>1, <3>1, <3>3, <3>6, <3>7 DEF StorageInv
    <2>3. CASE CountUpload(u)
      <3>1. /\ storageUsed' = storageUsed + TotalSize(u)
            /\ quotaRaced' = quotaRaced /\ limitCut' = limitCut
            /\ In(u, {"created"})
            /\ upload'[u].pc = "counted" /\ upload'[u].thumbnail = upload[u].thumbnail
        <4>1. ~Receive(u)
          BY <2>3 DEF CountUpload, Receive, In
        <4> QED
          BY <1>2, <2>3, <4>1, OneUploadMoves DEF CountUpload, Incremented
      <3>2. TotalSize(u) \in {1, 2} /\ (TotalSize(u) = 2 <=> upload[u].thumbnail)
        BY <1>0 DEF TotalSize, Upload
      <3>3. storageUsed' \in Nat
        BY <1>0, <3>1, <3>2
      <3>4. UploadsCounted' = UploadsCounted \union {u} /\ u \notin UploadsCounted
        BY <2>1, <3>1 DEF UploadsCounted, In
      <3>5. /\ IsFiniteSet(UploadsCounted')
            /\ Cardinality(UploadsCounted') = Cardinality(UploadsCounted) + 1
        BY <1>0, <3>4, FS_AddElement
      <3>6. /\ IsFiniteSet(Thumbs) /\ Thumbs \in SUBSET UploadsCounted
            /\ Cardinality(Thumbs) \in Nat /\ Cardinality(UploadsCounted) \in Nat
        BY <1>0, FS_Subset, FS_CardinalityType
      <3>7. Cardinality({v \in UploadsCounted' : upload'[v].thumbnail})
              = Cardinality(Thumbs) + (IF upload[u].thumbnail THEN 1 ELSE 0)
        <4>1. \A v \in UploadsCounted : upload'[v].thumbnail = upload[v].thumbnail
          BY <2>1, <3>4 DEF UploadsCounted
        <4>2. CASE upload[u].thumbnail
          <5>1. {v \in UploadsCounted' : upload'[v].thumbnail} = Thumbs \union {u}
            BY <3>1, <3>4, <4>1, <4>2
          <5> QED
            BY <3>4, <3>6, <4>2, <5>1, FS_AddElement
        <4>3. CASE ~upload[u].thumbnail
          <5>1. {v \in UploadsCounted' : upload'[v].thumbnail} = Thumbs
            BY <3>1, <3>4, <4>1, <4>3
          <5>2. Cardinality(Thumbs) \in Nat
            BY <3>6
          <5> HIDE DEF Thumbs
          <5>3. (IF upload[u].thumbnail THEN 1 ELSE 0) = 0
            BY <4>3
          <5>4. Cardinality(Thumbs) = Cardinality(Thumbs) + 0
            BY <5>2
          <5> QED
            BY <5>1, <5>3, <5>4, Zenon
        <4> QED
          BY <4>2, <4>3
      <3>8. storageUsed = Cardinality(UploadsCounted) + Cardinality(Thumbs)
        BY <1>0 DEF UsedIsSum, UploadsCounted
      <3>9. storageUsed' = Cardinality(UploadsCounted')
                           + Cardinality({v \in UploadsCounted' : upload'[v].thumbnail})
        BY <3>1, <3>2, <3>5, <3>6, <3>7, <3>8
      <3>10. UsedIsSum'
        BY <3>9 DEF UsedIsSum, UploadsCounted
      <3>11. CheckedAlone' /\ CheckedFits'
        <4>1. UnderWay(u) /\ ~UnderWay(u)' /\ \A v \in Uploads \ {u} : UnderWay(v)' <=> UnderWay(v)
          BY <2>1, <3>1 DEF UnderWay, In
        <4>2. CheckedAlone'
          BY <1>0, <3>1, <4>1 DEF CheckedAlone
        <4>3. CASE ~quotaRaced /\ ~limitCut
          <5>1. Checked(u) /\ \A v \in Uploads \ {u} : ~UnderWay(v)
            BY <1>0, <4>1, <4>3 DEF CheckedAlone, CheckedFits
          <5>2. storageUsed' <= storageLimit' /\ \A v \in Uploads : ~UnderWay(v)'
            BY <2>1, <3>1, <4>1, <5>1 DEF Checked
          <5> QED
            BY <4>2, <5>2 DEF CheckedFits
        <4>4. CASE quotaRaced \/ limitCut
          BY <3>1, <4>2, <4>4 DEF CheckedFits
        <4> QED
          BY <4>3, <4>4
      <3> QED
        BY <1>0, <2>1, <3>3, <3>5, <3>10, <3>11 DEF StorageInv
    <2> QED
      BY <2>2, <2>3
  <1>3. ASSUME NEW n \in 0..MaxStorage, SetStorageLimit(n)
        PROVE  StorageInv'
    <2>1. /\ storageLimit' = n /\ n \in Nat
          /\ storageUsed' = storageUsed /\ upload' = upload /\ quotaRaced' = quotaRaced
          /\ limitCut' = (\/ n < storageUsed
                          \/ \E u \in Uploads : UnderWay(u) /\ n < storageUsed + TotalSize(u))
      BY <1>3, StorageBound DEF SetStorageLimit
    <2>2. UploadsCounted' = UploadsCounted /\ UsedIsSum'
      BY <1>0, <2>1 DEF UploadsCounted, UsedIsSum, In
    <2>3. \A u \in Uploads : (UnderWay(u)' <=> UnderWay(u)) /\ TotalSize(u)' = TotalSize(u)
      BY <2>1 DEF UnderWay, In, TotalSize
    <2>4. CheckedAlone'
      BY <1>0, <2>1, <2>3 DEF CheckedAlone
    <2>5. CheckedFits'
      <3> SUFFICES ASSUME ~limitCut'
                   PROVE  /\ storageUsed' <= storageLimit'
                          /\ \A u \in Uploads : UnderWay(u)' => Checked(u)'
        BY DEF CheckedFits
      <3>1. storageUsed <= n
        BY <1>0, <2>1
      <3>2. ASSUME NEW u \in Uploads, UnderWay(u)
            PROVE  storageUsed + TotalSize(u) <= n
        <4>1. TotalSize(u) \in {1, 2}
          BY DEF TotalSize
        <4> QED
          BY <1>0, <2>1, <3>2, <4>1
      <3> QED
        BY <2>1, <2>3, <3>1, <3>2 DEF Checked
    <2> QED
      BY <1>0, <2>1, <2>2, <2>4, <2>5 DEF StorageInv
  <1> QED
    BY <1>1, <1>2, <1>3 DEF StorageNext

(* The counted uploads are finitely many, storageUsed is their size, and   *)
(* what was checked alone still fits, the limit uncut.                     *)
THEOREM StorageInductive == StorageSpec => []StorageInv
  BY StorageInitHolds, StorageStep, PTL DEF StorageSpec

StorageTypes ==
  /\ storageUsed \in Nat /\ storageLimit \in 0..MaxStorage
  /\ upload \in [Uploads -> Upload] /\ onDisk \subseteq Uploads
  /\ quotaRaced \in BOOLEAN /\ limitCut \in BOOLEAN

(* The types of the uploads; those of the view are in ViewInv.             *)
THEOREM StorageTyped == StorageSpec => []StorageTypes
  <1> DEFINE Limited == storageLimit \in 0..MaxStorage /\ onDisk \subseteq Uploads
  <1>1. StorageInit => Limited
    BY DEF StorageInit
  <1>2. Limited /\ [StorageNext]_storageVars => Limited'
    BY DEF StorageNext, storageVars, Receive, CheckQuota, CreateAttachment, CountUpload,
           LinkToMessage, UploadFails, SetStorageLimit
  <1>3. StorageInv /\ Limited => StorageTypes
    BY DEF StorageInv, StorageTypes
  <1> QED
    BY <1>1, <1>2, <1>3, StorageInductive, PTL DEF StorageSpec

(* In whatever order uploads overlap and wherever one fails, storageUsed   *)
(* is the size of the answered ones, and exceeds the limit only when two   *)
(* were checked at a time or the limit was cut.                            *)
THEOREM QuotaHolds == StorageSpec => []QuotaIsKept
  <1>1. StorageInv => QuotaIsKept
    BY DEF StorageInv, QuotaIsKept, OnlyOverlapsExceedQuota, CheckedFits
  <1> QED
    BY <1>1, StorageInductive, PTL

(***************************************************************************)
(* Attachments: the view.                                                  *)
(***************************************************************************)

LEMMA ViewInitHolds == ViewInit => ViewInv
  <1>1. NoEffect \in Effect
    BY DEF NoEffect, Effect
  <1>2. NoEffect.pc = "none" /\ NoEffect.url = "none"
    BY DEF NoEffect
  <1>3. ViewInit => \A e \in Effects : effect[e] = NoEffect
    BY DEF ViewInit
  <1>4. ViewInit => effect \in [Effects -> Effect] /\ viewMounted \in BOOLEAN
    BY <1>1 DEF ViewInit
  <1> QED
    BY <1>2, <1>3, <1>4 DEF ViewInv, UrlsAreReleased

(* The cleanup leaves every run cancelled and no URL live.                 *)
LEMMA CleanupReleases ==
  ASSUME effect \in [Effects -> Effect],
         \A e \in Effects : effect[e].url = "live" => effect[e].pc = "shown"
  PROVE  /\ Cleaned \in [Effects -> Effect]
         /\ \A e \in Effects : /\ Cleaned[e].pc = effect[e].pc
                               /\ Cleaned[e].pc # "none" => Cleaned[e].cancelled
                               /\ Cleaned[e].url # "live"
                               /\ Cleaned[e].attempt = effect[e].attempt
  <1>1. \A x \in Effect : /\ Cancelled(x) \in Effect /\ Cancelled(x).pc = x.pc
                          /\ Cancelled(x).cancelled /\ Cancelled(x).url # "live"
                          /\ Cancelled(x).attempt = x.attempt
    <2> SUFFICES ASSUME NEW x \in Effect
                 PROVE  /\ Cancelled(x) \in Effect /\ Cancelled(x).pc = x.pc
                        /\ Cancelled(x).cancelled /\ Cancelled(x).url # "live"
                        /\ Cancelled(x).attempt = x.attempt
      OBVIOUS
    <2>1. PICK y \in {"none", "live", "revoked"} :
            y = (IF x.url = "live" THEN "revoked" ELSE x.url) /\ y # "live"
      BY DEF Effect
    <2>2. Cancelled(x) = [x EXCEPT !.cancelled = TRUE, !.url = y]
      BY <2>1 DEF Cancelled, Effect
    <2> QED
      BY <2>1, <2>2 DEF Effect
  <1> QED
    BY <1>1 DEF Cleaned

LEMMA ViewStep ==
  ASSUME ViewInv, [ViewNext]_shownVars
  PROVE  ViewInv'
  <1>0. /\ viewMounted \in BOOLEAN /\ effect \in [Effects -> Effect]
        /\ \A e \in Effects : effect[e].pc # "none" /\ ~effect[e].cancelled => viewMounted
        /\ \A e \in Effects : effect[e].url = "live" => effect[e].pc = "shown"
        /\ \A e \in Effects : effect[e].url = "live" => viewMounted /\ ~effect[e].cancelled
        /\ \A e \in Effects : effect[e].pc = "waiting" => effect[e].attempt < 2
    BY DEF ViewInv, UrlsAreReleased
  <1>1. \A f \in [Effects -> Effect], e \in Effects :
          /\ Started(f, e) \in [Effects -> Effect]
          /\ Started(f, e)[e].pc = "fetching" /\ Started(f, e)[e].url = "none"
          /\ \A d \in Effects \ {e} : Started(f, e)[d] = f[d]
    <2>1. [NoEffect EXCEPT !.pc = "fetching"] \in Effect
          /\ [NoEffect EXCEPT !.pc = "fetching"].pc = "fetching"
          /\ [NoEffect EXCEPT !.pc = "fetching"].url = "none"
      <3>1. NoEffect \in Effect /\ NoEffect.url = "none"
        BY DEF NoEffect, Effect
      <3>2. \A x \in Effect : /\ [x EXCEPT !.pc = "fetching"] \in Effect
                              /\ [x EXCEPT !.pc = "fetching"].pc = "fetching"
                              /\ [x EXCEPT !.pc = "fetching"].url = x.url
        BY DEF Effect
      <3> QED
        BY <3>1, <3>2
    <2> QED
      BY <2>1 DEF Started
  <1>2. CASE UNCHANGED shownVars
    BY <1>0, <1>2 DEF shownVars, ViewInv, UrlsAreReleased
  <1>3. CASE ViewUnmount
    BY <1>0, <1>3, CleanupReleases DEF ViewUnmount, ViewInv, UrlsAreReleased
  <1>4. ASSUME NEW e \in Effects, ViewMount(e)
        PROVE  ViewInv'
    <2>1. /\ effect' \in [Effects -> Effect]
          /\ effect'[e].pc = "fetching" /\ effect'[e].url = "none"
          /\ \A d \in Effects \ {e} : effect'[d] = effect[d]
      BY <1>0, <1>1, <1>4 DEF ViewMount
    <2>2. ~viewMounted /\ viewMounted'
      BY <1>4 DEF ViewMount
    <2> QED
      BY <1>0, <2>1, <2>2 DEF ViewInv, UrlsAreReleased
  <1>5. ASSUME NEW e \in Effects, PropsChange(e)
        PROVE  ViewInv'
    <2>1. /\ effect' \in [Effects -> Effect]
          /\ effect'[e].pc = "fetching" /\ effect'[e].url = "none"
          /\ \A d \in Effects \ {e} : effect'[d] = Cleaned[d]
      BY <1>0, <1>1, <1>5, CleanupReleases DEF PropsChange
    <2>2. viewMounted /\ viewMounted'
      BY <1>5 DEF PropsChange
    <2> QED
      BY <1>0, <2>1, <2>2, CleanupReleases DEF ViewInv, UrlsAreReleased
  <1>6. ASSUME NEW e \in Effects, Fetched(e) \/ FetchFails(e) \/ Retry(e)
        PROVE  ViewInv'
    <2>1. /\ effect[e].pc \in {"fetching", "waiting"} /\ viewMounted' = viewMounted
          /\ \A d \in Effects \ {e} : effect'[d] = effect[d]
      BY <1>0, <1>6 DEF Fetched, FetchFails, Retry
    <2>2. /\ effect'[e] \in Effect /\ effect' \in [Effects -> Effect]
          /\ effect'[e].cancelled = effect[e].cancelled
          /\ effect'[e].pc = "waiting" => effect'[e].attempt < 2
          /\ effect'[e].url = "live" => ~effect[e].cancelled /\ effect'[e].pc = "shown"
      <3>1. PICK x \in Effect : x = effect[e]
        BY <1>0
      <3>2. CASE Fetched(e)
        <4>1. /\ LateRevoked(x) \in Effect /\ LateRevoked(x).url = "revoked"
              /\ LateRevoked(x).pc = "over"
              /\ LateRevoked(x).cancelled = x.cancelled
          BY <3>1 DEF LateRevoked, Effect
        <4>2. /\ [x EXCEPT !.pc = "shown", !.url = "live"] \in Effect
              /\ [x EXCEPT !.pc = "shown", !.url = "live"].pc = "shown"
              /\ [x EXCEPT !.pc = "shown", !.url = "live"].cancelled = x.cancelled
          BY <3>1 DEF Effect
        <4>3. CASE x.cancelled
          <5>1. effect' = [effect EXCEPT ![e] = LateRevoked(x)]
            BY <1>0, <3>1, <3>2, <4>3 DEF Fetched
          <5> QED
            BY <1>0, <3>1, <4>1, <5>1
        <4>4. CASE ~x.cancelled
          <5>1. effect' = [effect EXCEPT ![e] = [x EXCEPT !.pc = "shown", !.url = "live"]]
            BY <1>0, <3>1, <3>2, <4>4 DEF Fetched
          <5> QED
            BY <1>0, <3>1, <4>2, <4>4, <5>1
        <4> QED
          BY <4>3, <4>4
      <3>3. CASE FetchFails(e)
        <4>1. PICK pc \in {"over", "waiting", "failed"} :
                /\ effect' = [effect EXCEPT ![e].pc = pc]
                /\ pc = "waiting" => effect[e].attempt < 2
          BY <3>3 DEF FetchFails
        <4>2. effect[e].url # "live"
          BY <1>0, <2>1
        <4> QED
          BY <1>0, <4>1, <4>2 DEF Effect
      <3>4. CASE Retry(e)
        <4>1. x.url # "live" /\ x.pc = "waiting"
          BY <1>0, <3>1, <3>4 DEF Retry
        <4>2. /\ [x EXCEPT !.pc = "over"] \in Effect /\ [x EXCEPT !.pc = "over"].pc = "over"
              /\ [x EXCEPT !.pc = "over"].url = x.url
              /\ [x EXCEPT !.pc = "over"].cancelled = x.cancelled
          BY <3>1 DEF Effect
        <4>3. CASE x.cancelled
          <5>1. effect' = [effect EXCEPT ![e] = [x EXCEPT !.pc = "over"]]
            BY <1>0, <3>1, <3>4, <4>3 DEF Retry
          <5> QED
            BY <1>0, <3>1, <4>1, <4>2, <5>1
        <4>4. CASE ~x.cancelled
          <5>1. effect' = [effect EXCEPT ![e] = [x EXCEPT !.pc = "fetching",
                                                          !.attempt = x.attempt + 1]]
            BY <1>0, <3>1, <3>4, <4>4 DEF Retry
          <5>2. x.attempt + 1 \in 0..2
            BY <1>0, <3>1, <4>1 DEF Effect
          <5> QED
            BY <1>0, <3>1, <4>1, <5>1, <5>2 DEF Effect
        <4> QED
          BY <4>3, <4>4
      <3> QED
        BY <1>6, <3>2, <3>3, <3>4
    <2> QED
      BY <1>0, <2>1, <2>2 DEF ViewInv, UrlsAreReleased
  <1> QED
    BY <1>2, <1>3, <1>4, <1>5, <1>6 DEF ViewNext

(* A run of the view's effect that is not cancelled has a mounted view,    *)
(* and a live URL belongs to a run that is shown.                          *)
THEOREM ViewInductive == ViewSpec => []ViewInv
  BY ViewInitHolds, ViewStep, PTL DEF ViewSpec

(* However downloads, retries, changes of the message and the unmount      *)
(* interleave, a decrypted object URL is live only while the view that     *)
(* made it shows it.                                                       *)
THEOREM UrlsDieWithTheirView == ViewSpec => []UrlsAreReleased
  BY ViewInductive, PTL DEF ViewInv

(***************************************************************************)
(* Pins.                                                                   *)
(***************************************************************************)

LEMMA PinsInitHolds == PinsInit => PinsInv
  <1> SUFFICES ASSUME PinsInit
               PROVE  PinsInv
    OBVIOUS
  <1>1. NoPinCall \in PinCall /\ NoPinList \in PinList
        /\ NoPinCall.pc = "idle" /\ NoPinList.pc = "idle"
    BY DEF NoPinCall, PinCall, NoPinList, PinList
  <1>2. news \in [Pinners -> Seq(SUBSET Pinnable)] /\ \A u \in Pinners : Len(news[u]) <= MaxNews
    BY PinBounds DEF PinsInit
  <1>3. PinsTypeOK
    BY <1>1, <1>2 DEF PinsInit, PinsTypeOK
  <1>4. OneRequest /\ RequestsReadPins
    BY <1>1 DEF PinsInit, OneRequest, RequestsReadPins, Told
  <1>5. RequestsNameOne
    BY <1>1 DEF PinsInit, RequestsNameOne
  <1> QED
    BY <1>3, <1>4, <1>5 DEF PinsInv, PinsInit

LEMMA PinsTypeStep ==
  ASSUME PinsTypeOK, RequestsNameOne, [PinsNext]_pinVars
  PROVE  PinsTypeOK' /\ RequestsNameOne'
  <1>0. /\ pinned \subseteq Pinnable /\ asked \subseteq Pinnable
        /\ shownPins \in [Pinners -> SUBSET Pinnable]
        /\ pinCall \in [Pinners -> PinCall] /\ pinList \in [Pinners -> PinList]
        /\ news \in [Pinners -> Seq(SUBSET Pinnable)]
        /\ \A u \in Pinners : Len(news[u]) <= MaxNews
        /\ listening \subseteq Pinners /\ muddled \in BOOLEAN
    BY DEF PinsTypeOK
  <1>1. NoPinCall \in PinCall /\ NoPinList \in PinList /\ NoPinCall.pc = "idle"
    BY DEF NoPinCall, PinCall, NoPinList, PinList
  <1>2. CASE UNCHANGED pinVars
    BY <1>0, <1>2 DEF pinVars, viewPins, PinsTypeOK, RequestsNameOne
  <1>3. ASSUME NEW u \in Pinners, NEW m \in Pinnable, handlePinMessage(u, m)
        PROVE  PinsTypeOK' /\ RequestsNameOne'
    <2>1. [pc |-> "asked", message |-> m, list |-> {}, pin |-> m \notin shownPins[u]] \in PinCall
      BY DEF PinCall
    <2>2. pinCall' \in [Pinners -> PinCall]
      BY <1>0, <1>3, <2>1 DEF handlePinMessage
    <2>3. asked' \subseteq Pinnable
      BY <1>0, <1>3 DEF handlePinMessage
    <2>4. muddled' \in BOOLEAN
      BY <1>3 DEF handlePinMessage, NothingOnItsWay
    <2>5. RequestsNameOne'
      BY <1>0, <1>3 DEF handlePinMessage, RequestsNameOne
    <2> QED
      BY <1>0, <1>3, <2>2, <2>3, <2>4, <2>5 DEF handlePinMessage, viewPins, PinsTypeOK
  <1>4. ASSUME NEW u \in Pinners, PinsRead(u)
        PROVE  PinsTypeOK' /\ RequestsNameOne'
    <2>1. pinCall' \in [Pinners -> PinCall]
      <3>1. \A x \in PinCall : [x EXCEPT !.pc = "read", !.list = pinned] \in PinCall
        BY <1>0 DEF PinCall
      <3>2. pinCall' = [pinCall EXCEPT ![u] = [pinCall[u] EXCEPT !.pc = "read", !.list = pinned]]
        BY <1>0, <1>4 DEF PinsRead
      <3> QED
        BY <1>0, <3>1, <3>2
    <2>2. RequestsNameOne'
      <3>1. /\ \A v \in Pinners \ {u} : pinCall'[v] = pinCall[v]
            /\ pinCall'[u].message = pinCall[u].message
        BY <1>0, <1>4 DEF PinsRead, PinCall
      <3> QED
        BY <1>4, <3>1 DEF RequestsNameOne, PinsRead
    <2> QED
      BY <1>0, <1>4, <2>1, <2>2 DEF PinsRead, viewPins, PinsTypeOK
  <1>5. ASSUME NEW u \in Pinners, PinsWritten(u)
        PROVE  PinsTypeOK' /\ RequestsNameOne'
    <2>1. pinCall[u].message \in Pinnable /\ pinCall[u].list \subseteq Pinnable
      BY <1>0, <1>5 DEF PinCall, RequestsNameOne, PinsWritten
    <2>2. StoredList(u) \subseteq Pinnable
      BY <2>1 DEF StoredList, Changed
    <2>3. asked' \subseteq Pinnable
      BY <1>0, <1>5, <2>1 DEF Changed, PinsWritten
    <2>4. pinCall' = [pinCall EXCEPT ![u] = [pinCall[u] EXCEPT !.pc = "stored",
                                                              !.list = StoredList(u)]]
      BY <1>0, <1>5 DEF PinsWritten
    <2>5. \A x \in PinCall, l \in SUBSET Pinnable :
            /\ [x EXCEPT !.pc = "stored", !.list = l] \in PinCall
            /\ [x EXCEPT !.pc = "stored", !.list = l].message = x.message
      BY DEF PinCall
    <2>6. pinCall' \in [Pinners -> PinCall]
      BY <1>0, <2>2, <2>4, <2>5
    <2>7. RequestsNameOne'
      BY <1>0, <2>1, <2>2, <2>4, <2>5 DEF RequestsNameOne
    <2>8. news' \in [Pinners -> Seq(SUBSET Pinnable)]
      <3>1. \A v \in Pinners : Append(news[v], SentList(u)) \in Seq(SUBSET Pinnable)
        BY <1>0, <2>2 DEF SentList
      <3> QED
        BY <1>0, <1>5, <3>1 DEF PinsWritten
    <2>9. \A v \in Pinners : Len(news'[v]) <= MaxNews
      <3> SUFFICES ASSUME NEW v \in Pinners
                   PROVE  Len(news'[v]) <= MaxNews
        OBVIOUS
      <3>1. CASE v \in listening
        <4>1. news'[v] = Append(news[v], SentList(u)) /\ Len(news[v]) < MaxNews
          BY <1>5, <3>1 DEF PinsWritten
        <4>2. SentList(u) \in SUBSET Pinnable /\ news[v] \in Seq(SUBSET Pinnable)
          BY <1>0, <2>2 DEF SentList
        <4>3. Len(Append(news[v], SentList(u))) = Len(news[v]) + 1 /\ Len(news[v]) \in Nat
          BY <4>2
        <4> QED
          BY <4>1, <4>3, PinBounds
      <3>2. CASE v \notin listening
        BY <1>0, <1>5, <3>2 DEF PinsWritten
      <3> QED
        BY <3>1, <3>2
    <2>10. muddled' \in BOOLEAN
      BY <1>0, <1>5 DEF PinsWritten
    <2>11. UNCHANGED <<shownPins, listening, pinList>> /\ pinned' = StoredList(u)
      BY <1>5 DEF PinsWritten, viewPins
    <2> QED
      BY <1>0, <2>2, <2>3, <2>6, <2>7, <2>8, <2>9, <2>10, <2>11 DEF PinsTypeOK
  <1>6. ASSUME NEW u \in Pinners, PinAnswered(u) \/ PinFails(u)
        PROVE  PinsTypeOK' /\ RequestsNameOne'
    <2>1. pinCall' \in [Pinners -> PinCall] /\ RequestsNameOne'
      BY <1>0, <1>1, <1>6 DEF PinAnswered, PinFails, RequestsNameOne
    <2>2. shownPins' \in [Pinners -> SUBSET Pinnable]
      BY <1>0, <1>6 DEF PinAnswered, PinFails, PinCall, viewPins
    <2>3. muddled' \in BOOLEAN
      BY <1>0, <1>6 DEF PinAnswered, PinFails
    <2> QED
      BY <1>0, <1>6, <2>1, <2>2, <2>3 DEF PinAnswered, PinFails, viewPins, PinsTypeOK
  <1>7. ASSUME NEW u \in Pinners, handlePinnedChanged(u)
        PROVE  PinsTypeOK' /\ RequestsNameOne'
    <2>1. /\ Head(news[u]) \in SUBSET Pinnable /\ Tail(news[u]) \in Seq(SUBSET Pinnable)
          /\ Len(Tail(news[u])) <= MaxNews
      BY <1>0, <1>7, PinBounds DEF handlePinnedChanged
    <2> QED
      BY <1>0, <1>7, <2>1 DEF handlePinnedChanged, PinsTypeOK, RequestsNameOne
  <1>8. ASSUME NEW u \in Pinners, StopsListening(u) \/ ListensAgain(u)
        PROVE  PinsTypeOK' /\ RequestsNameOne'
    <2>1. <<>> \in Seq(SUBSET Pinnable) /\ Len(<<>>) <= MaxNews
      BY PinBounds
    <2>2. /\ news' \in [Pinners -> Seq(SUBSET Pinnable)]
          /\ \A v \in Pinners : Len(news'[v]) <= MaxNews
      BY <1>0, <1>8, <2>1 DEF StopsListening, ListensAgain
    <2>3. muddled' \in BOOLEAN /\ listening' \subseteq Pinners
      BY <1>0, <1>8 DEF StopsListening, ListensAgain
    <2> QED
      BY <1>0, <1>8, <2>2, <2>3 DEF StopsListening, ListensAgain, PinsTypeOK, RequestsNameOne
  <1>9. ASSUME NEW u \in Pinners, FetchPins(u) \/ PinsListed(u) \/ PinsFetched(u)
        PROVE  PinsTypeOK' /\ RequestsNameOne'
    <2>1. pinList' \in [Pinners -> PinList]
      <3>1. [pc |-> "read", list |-> pinned] \in PinList
        BY <1>0 DEF PinList
      <3>2. CASE FetchPins(u)
        <4>1. \A x \in PinList : [x EXCEPT !.pc = "asked"] \in PinList
          BY DEF PinList
        <4>2. pinList' = [pinList EXCEPT ![u] = [pinList[u] EXCEPT !.pc = "asked"]]
          BY <1>0, <3>2 DEF FetchPins
        <4> QED
          BY <1>0, <4>1, <4>2
      <3>3. CASE PinsListed(u)
        BY <1>0, <3>1, <3>3 DEF PinsListed
      <3>4. CASE PinsFetched(u)
        BY <1>0, <1>1, <3>4 DEF PinsFetched
      <3> QED
        BY <1>9, <3>2, <3>3, <3>4
    <2>2. shownPins' \in [Pinners -> SUBSET Pinnable]
      BY <1>0, <1>9 DEF FetchPins, PinsListed, PinsFetched, PinList, viewPins
    <2>3. muddled' \in BOOLEAN
      BY <1>0, <1>9 DEF FetchPins, PinsListed, PinsFetched
    <2> QED
      BY <1>0, <1>9, <2>1, <2>2, <2>3
         DEF FetchPins, PinsListed, PinsFetched, viewPins, PinsTypeOK, RequestsNameOne
  <1> QED
    BY <1>2, <1>3, <1>4, <1>5, <1>6, <1>7, <1>8, <1>9 DEF PinsNext

LEMMA PinsAgreementStep ==
  ASSUME PinsInv, [PinsNext]_pinVars, ~muddled'
  PROVE  pinned' = asked' /\ OneRequest' /\ RequestsReadPins'
  <1>0. /\ pinCall \in [Pinners -> PinCall] /\ pinList \in [Pinners -> PinList]
        /\ news \in [Pinners -> Seq(SUBSET Pinnable)]
        /\ shownPins \in [Pinners -> SUBSET Pinnable]
        /\ listening \subseteq Pinners /\ muddled \in BOOLEAN
        /\ \A u \in Pinners : pinCall[u] \in PinCall /\ pinList[u] \in PinList
    BY DEF PinsInv, PinsTypeOK
  <1>1. ~muddled => pinned = asked /\ OneRequest /\ RequestsReadPins
    BY DEF PinsInv
  <1>2. NoPinCall.pc = "idle" /\ NoPinList.pc = "idle"
    BY DEF NoPinCall, NoPinList
  <1>3. CASE UNCHANGED <<pinned, asked, muddled, pinCall, pinList, news, shownPins>>
    BY <1>1, <1>3 DEF OneRequest, RequestsReadPins, Told
  <1>4. ASSUME NEW u \in Pinners, NEW m \in Pinnable, handlePinMessage(u, m)
        PROVE  pinned' = asked' /\ OneRequest' /\ RequestsReadPins'
    <2>1. NothingOnItsWay /\ asked' = pinned /\ UNCHANGED <<pinned, pinList, news>>
      BY <1>4 DEF handlePinMessage
    <2>2. \A v \in Pinners : pinList[v] = NoPinList /\ news[v] = <<>> /\ pinCall[v] = NoPinCall
      BY <2>1 DEF NothingOnItsWay
    <2>3. pinCall'[u].pc = "asked" /\ \A v \in Pinners \ {u} : pinCall'[v] = NoPinCall
      BY <1>0, <1>4, <2>2 DEF handlePinMessage
    <2>4. OneRequest'
      BY <2>1, <2>2, <2>3 DEF OneRequest
    <2>5. RequestsReadPins'
      BY <1>2, <2>1, <2>2, <2>3 DEF RequestsReadPins
    <2> QED
      BY <2>1, <2>4, <2>5
  <1>5. ASSUME NEW u \in Pinners, PinsRead(u)
        PROVE  pinned' = asked' /\ OneRequest' /\ RequestsReadPins'
    <2>1. /\ ~muddled /\ pinCall[u].pc = "asked"
          /\ UNCHANGED <<pinned, asked, pinList, news, shownPins>>
      BY <1>5 DEF PinsRead, viewPins
    <2>2. /\ pinCall'[u].pc = "read" /\ pinCall'[u].list = pinned
          /\ \A v \in Pinners \ {u} : pinCall'[v] = pinCall[v]
      <3>1. pinCall' = [pinCall EXCEPT ![u] = [pinCall[u] EXCEPT !.pc = "read", !.list = pinned]]
        BY <1>0, <1>5 DEF PinsRead
      <3>2. \A x \in PinCall : /\ [x EXCEPT !.pc = "read", !.list = pinned].pc = "read"
                               /\ [x EXCEPT !.pc = "read", !.list = pinned].list = pinned
        BY DEF PinCall
      <3> QED
        BY <1>0, <3>1, <3>2
    <2>3. pinCall[u] # NoPinCall
      BY <1>2, <2>1
    <2>4. OneRequest'
      BY <1>1, <2>1, <2>2, <2>3 DEF OneRequest
    <2>5. RequestsReadPins'
      BY <1>1, <2>1, <2>2 DEF RequestsReadPins
    <2> QED
      BY <1>1, <2>1, <2>4, <2>5
  <1>6. ASSUME NEW u \in Pinners, PinsWritten(u)
        PROVE  pinned' = asked' /\ OneRequest' /\ RequestsReadPins'
    <2>1. /\ ~muddled /\ listening = Pinners /\ pinCall[u].pc = "read"
          /\ pinned' = StoredList(u) /\ pinList' = pinList
          /\ asked' = Changed(asked, pinCall[u].message, pinCall[u].pin)
      BY <1>6 DEF PinsWritten
    <2>2. pinned' = asked'
      BY <1>1, <2>1 DEF StoredList, RequestsReadPins
    <2>3. /\ pinCall'[u].pc = "stored" /\ pinCall'[u].list = pinned'
          /\ \A v \in Pinners \ {u} : pinCall'[v] = pinCall[v]
      <3>1. pinCall' = [pinCall EXCEPT ![u] = [pinCall[u] EXCEPT !.pc = "stored",
                                                                !.list = pinned']]
        BY <1>0, <1>6, <2>1 DEF PinsWritten
      <3>2. \A x \in PinCall, l \in SUBSET Pinnable :
              /\ [x EXCEPT !.pc = "stored", !.list = l].pc = "stored"
              /\ [x EXCEPT !.pc = "stored", !.list = l].list = l
        BY DEF PinCall
      <3> QED
        BY <1>0, <3>1, <3>2
    <2>4. pinCall[u] # NoPinCall
      BY <1>2, <2>1
    <2>5. \A v \in Pinners : news[v] = <<>>
      BY <1>1, <2>1 DEF RequestsReadPins
    <2>6. \A v \in Pinners : news'[v] = <<pinned'>>
      <3>1. \A v \in Pinners : news'[v] = Append(news[v], SentList(u))
        BY <1>6, <2>1 DEF PinsWritten
      <3>2. Append(<<>>, SentList(u)) = <<SentList(u)>>
        OBVIOUS
      <3> QED
        BY <2>1, <2>5, <3>1, <3>2 DEF SentList
    <2>7. \A v \in Pinners : pinList[v] = NoPinList
      BY <1>1, <2>1, <2>4 DEF OneRequest
    <2>8. \A v \in Pinners \ {u} : pinCall[v] = NoPinCall
      BY <1>1, <2>1, <2>4 DEF OneRequest
    <2>9. OneRequest'
      BY <2>1, <2>3, <2>7, <2>8 DEF OneRequest
    <2>10. RequestsReadPins'
      BY <1>2, <2>1, <2>3, <2>6, <2>7, <2>8 DEF RequestsReadPins, Told
    <2> QED
      BY <2>2, <2>9, <2>10
  <1>7. ASSUME NEW u \in Pinners, PinAnswered(u) \/ PinFails(u)
        PROVE  pinned' = asked' /\ OneRequest' /\ RequestsReadPins'
    <2>1. /\ ~muddled /\ pinCall[u].pc = "stored"
          /\ UNCHANGED <<pinned, asked, pinList, news>>
      BY <1>0, <1>7 DEF PinAnswered, PinFails
    <2>2. pinCall'[u] = NoPinCall /\ \A v \in Pinners \ {u} : pinCall'[v] = pinCall[v]
      BY <1>0, <1>7 DEF PinAnswered, PinFails
    <2>3. \A v \in Pinners : shownPins'[v] = shownPins[v] \/ shownPins'[v] = pinned
      BY <1>0, <1>1, <1>7, <2>1 DEF PinAnswered, PinFails, viewPins, RequestsReadPins
    <2>4. pinCall[u] # NoPinCall
      BY <1>2, <2>1
    <2>5. \A v \in Pinners : pinCall[v].pc \notin {"asked", "read"}
      BY <1>1, <1>2, <2>1, <2>4 DEF OneRequest
    <2>6. \A v \in Pinners : Told(v)
      BY <1>1, <2>1, <2>5 DEF RequestsReadPins
    <2>7. OneRequest'
      BY <1>1, <2>1, <2>2 DEF OneRequest
    <2>8. RequestsReadPins'
      BY <1>1, <1>2, <2>1, <2>2, <2>3, <2>6 DEF RequestsReadPins, Told
    <2> QED
      BY <1>1, <2>1, <2>7, <2>8
  <1>8. ASSUME NEW u \in Pinners, handlePinnedChanged(u)
        PROVE  pinned' = asked' /\ OneRequest' /\ RequestsReadPins'
    <2>1. /\ ~muddled /\ news[u] # <<>>
          /\ UNCHANGED <<pinned, asked, pinCall, pinList>>
      BY <1>8 DEF handlePinnedChanged
    <2>2. \A v \in Pinners : pinCall[v].pc \notin {"asked", "read"}
      BY <1>1, <2>1 DEF RequestsReadPins
    <2>3. \A v \in Pinners : Told(v)
      BY <1>1, <2>1, <2>2 DEF RequestsReadPins
    <2>4. news[u] = <<pinned>>
      BY <2>1, <2>3 DEF Told
    <2>5. /\ shownPins'[u] = pinned /\ news'[u] = <<>>
          /\ \A v \in Pinners \ {u} : shownPins'[v] = shownPins[v] /\ news'[v] = news[v]
      BY <1>0, <1>8, <2>4 DEF handlePinnedChanged
    <2>6. OneRequest'
      BY <1>1, <2>1, <2>5 DEF OneRequest
    <2>7. RequestsReadPins'
      BY <1>1, <2>1, <2>2, <2>3, <2>5 DEF RequestsReadPins, Told
    <2> QED
      BY <1>1, <2>1, <2>6, <2>7
  <1>9. ASSUME NEW u \in Pinners, StopsListening(u) \/ ListensAgain(u)
        PROVE  pinned' = asked' /\ OneRequest' /\ RequestsReadPins'
    <2>1. ~muddled /\ UNCHANGED <<pinned, asked, pinCall, pinList, shownPins>>
      BY <1>0, <1>9 DEF StopsListening, ListensAgain
    <2>2. \A v \in Pinners : news'[v] = news[v]
      BY <1>0, <1>9 DEF StopsListening, ListensAgain
    <2> QED
      BY <1>1, <2>1, <2>2 DEF OneRequest, RequestsReadPins, Told
  <1>10. ASSUME NEW u \in Pinners, FetchPins(u)
         PROVE  pinned' = asked' /\ OneRequest' /\ RequestsReadPins'
    <2>1. /\ ~muddled /\ NothingOnItsWay
          /\ UNCHANGED <<pinned, asked, pinCall, news, shownPins>>
      BY <1>0, <1>10 DEF FetchPins, viewPins
    <2>2. \A v \in Pinners : pinList[v] = NoPinList /\ news[v] = <<>> /\ pinCall[v] = NoPinCall
      BY <2>1 DEF NothingOnItsWay
    <2>3. pinList'[u].pc = "asked" /\ \A v \in Pinners \ {u} : pinList'[v] = NoPinList
      BY <1>0, <1>10, <2>2 DEF FetchPins, PinList
    <2>4. OneRequest'
      BY <2>1, <2>2, <2>3 DEF OneRequest
    <2>5. RequestsReadPins'
      BY <1>1, <1>2, <2>1, <2>2, <2>3 DEF RequestsReadPins, Told
    <2> QED
      BY <1>1, <2>1, <2>4, <2>5
  <1>11. ASSUME NEW u \in Pinners, PinsListed(u) \/ PinsFetched(u)
         PROVE  pinned' = asked' /\ OneRequest' /\ RequestsReadPins'
    <2>1. /\ ~muddled /\ UNCHANGED <<pinned, asked, pinCall, news>>
          /\ pinList[u].pc \in {"asked", "read"}
      BY <1>11 DEF PinsListed, PinsFetched
    <2>2. pinList[u] # NoPinList
      BY <1>2, <2>1
    <2>3. /\ \A v \in Pinners \ {u} : pinList'[v] = pinList[v]
          /\ pinList'[u] = NoPinList \/ pinList'[u] = [pc |-> "read", list |-> pinned]
      BY <1>0, <1>11 DEF PinsListed, PinsFetched
    <2>4. \A v \in Pinners : shownPins'[v] = shownPins[v] \/ shownPins'[v] = pinned
      BY <1>0, <1>1, <1>11, <2>1 DEF PinsListed, PinsFetched, viewPins, RequestsReadPins
    <2>5. OneRequest'
      BY <1>1, <2>1, <2>2, <2>3 DEF OneRequest
    <2>6. \A v \in Pinners : pinCall[v] = NoPinCall /\ news[v] = <<>>
      BY <1>1, <2>1, <2>2 DEF OneRequest
    <2>7. \A v \in Pinners : Told(v)
      BY <1>1, <1>2, <2>1, <2>6 DEF RequestsReadPins
    <2>8. RequestsReadPins'
      BY <1>1, <1>2, <2>1, <2>3, <2>4, <2>6, <2>7 DEF RequestsReadPins, Told
    <2> QED
      BY <1>1, <2>1, <2>5, <2>8
  <1>12. CASE UNCHANGED pinVars
    BY <1>3, <1>12 DEF pinVars, viewPins
  <1> QED
    BY <1>4, <1>5, <1>6, <1>7, <1>8, <1>9, <1>10, <1>11, <1>12 DEF PinsNext

(* While requests to pin do not overlap there is one, it writes what it    *)
(* read changed by what was asked, and the stored list is what was asked.  *)
THEOREM PinsInductive == PinsSpec => []PinsInv
  <1>1. PinsInv /\ [PinsNext]_pinVars => PinsInv'
    BY PinsTypeStep, PinsAgreementStep DEF PinsInv
  <1> QED
    BY <1>1, PinsInitHolds, PTL DEF PinsSpec

(* Every pin is kept and at rest every member sees the stored list, but    *)
(* for requests that overlapped or were lost and events that were missed.  *)
THEOREM PinsAreShared == PinsSpec => []PinsAgree
  <1>1. PinsInv /\ ~muddled /\ NothingOnItsWay => \A u \in Pinners : shownPins[u] = pinned
    <2> SUFFICES ASSUME PinsInv, ~muddled, NothingOnItsWay
                 PROVE  \A u \in Pinners : shownPins[u] = pinned
      OBVIOUS
    <2>1. \A u \in Pinners : pinCall[u].pc = "idle" /\ news[u] = <<>>
      BY DEF NothingOnItsWay, NoPinCall
    <2>2. \A u \in Pinners : Told(u)
      BY <2>1 DEF PinsInv, RequestsReadPins
    <2>3. \A u \in Pinners : news[u] # <<pinned>>
      BY <2>1
    <2> QED
      BY <2>2, <2>3 DEF Told
  <1>2. PinsInv => PinsAgree
    BY <1>1 DEF PinsInv, PinsAgree
  <1> QED
    BY <1>2, PinsInductive, PTL

(***************************************************************************)
(* The messages of a chat.  Facts about its sequences first.               *)
(***************************************************************************)

LEMMA FunctionIsSeq ==
  ASSUME NEW S, NEW n \in Nat, NEW f \in [1..n -> S]
  PROVE  f \in Seq(S) /\ Len(f) = n /\ DOMAIN f = 1..n
  OBVIOUS

LEMMA HeadAndTail ==
  ASSUME NEW S, NEW s \in Seq(S), s # <<>>
  PROVE  /\ Tail(s) \in Seq(S) /\ Head(s) = s[1] /\ 1 \in DOMAIN s /\ s[1] \in S
         /\ \A k \in DOMAIN Tail(s) : k + 1 \in DOMAIN s /\ Tail(s)[k] = s[k + 1]
         /\ \A k \in DOMAIN s : k # 1 => k - 1 \in DOMAIN Tail(s) /\ Tail(s)[k - 1] = s[k]
         /\ DOMAIN s \subseteq Nat /\ DOMAIN Tail(s) \subseteq Nat
  OBVIOUS

(* What a broadcast does to the events under way: some copies of one event *)
(* come after them.                                                        *)
FollowedBy(s, t, e) ==
  /\ \A n \in DOMAIN s : n \in DOMAIN t /\ t[n] = s[n]
  /\ \A n \in DOMAIN t \ DOMAIN s : n > Len(s) /\ t[n] = e
  /\ DOMAIN s = 1..Len(s) /\ DOMAIN t \subseteq Nat /\ Len(s) \in Nat

LEMMA TwoCopies ==
  ASSUME NEW S, NEW s \in Seq(S), NEW e \in S
  PROVE  /\ s \o <<e, e>> \in Seq(S)
         /\ FollowedBy(s, s \o <<e, e>>, e)
         /\ \E k \in DOMAIN (s \o <<e, e>>) : (s \o <<e, e>>)[k] = e
  <1>1. <<e, e>> \in Seq(S) /\ Len(<<e, e>>) = 2 /\ <<e, e>>[1] = e /\ <<e, e>>[2] = e
    OBVIOUS
  <1> DEFINE c == <<e, e>>
  <1>2. \A k \in {1, 2} : c[k] = e
    BY <1>1
  <1>3. /\ s \o c \in Seq(S) /\ Len(s \o c) = Len(s) + 2 /\ Len(s) \in Nat
        /\ DOMAIN s = 1..Len(s) /\ DOMAIN (s \o c) = 1..(Len(s) + 2)
        /\ \A k \in 1..(Len(s) + 2) : (s \o c)[k] = IF k <= Len(s) THEN s[k] ELSE c[k - Len(s)]
    <2> HIDE DEF c
    <2>1. c \in Seq(S) /\ Len(c) = 2
      BY <1>1 DEF c
    <2>2. Len(s) \in Nat /\ DOMAIN s = 1..Len(s)
      OBVIOUS
    <2>3. /\ s \o c \in Seq(S) /\ Len(s \o c) = Len(s) + Len(c)
          /\ \A k \in 1..(Len(s) + Len(c)) :
               (s \o c)[k] = IF k <= Len(s) THEN s[k] ELSE c[k - Len(s)]
      <3>1. \A t \in Seq(S) :
              /\ s \o t \in Seq(S) /\ Len(s \o t) = Len(s) + Len(t)
              /\ \A k \in 1..(Len(s) + Len(t)) :
                   (s \o t)[k] = IF k <= Len(s) THEN s[k] ELSE t[k - Len(s)]
        BY ConcatProperties, Zenon
      <3> QED
        BY <2>1, <3>1, Zenon
    <2>4. DOMAIN (s \o c) = 1..Len(s \o c)
      BY <2>3
    <2> QED
      BY <2>1, <2>2, <2>3, <2>4, Zenon
  <1>4. \A k \in 1..(Len(s) + 2) : k > Len(s) => k - Len(s) \in {1, 2}
    BY <1>3
  <1>5. \A k \in 1..(Len(s) + 2) : k > Len(s) => (s \o c)[k] = e
    <2> HIDE DEF c
    <2> QED
      BY <1>2, <1>3, <1>4
  <1> HIDE DEF c
  <1>6. Len(s) + 1 \in 1..(Len(s) + 2) /\ (s \o c)[Len(s) + 1] = e
    BY <1>3, <1>5
  <1>7. /\ \A k \in DOMAIN s : k \in DOMAIN (s \o c) /\ (s \o c)[k] = s[k]
        /\ \A k \in DOMAIN (s \o c) : \/ k \in DOMAIN s /\ (s \o c)[k] = s[k]
                                      \/ k \notin DOMAIN s /\ k > Len(s) /\ (s \o c)[k] = e
    BY <1>3, <1>5
  <1>8. \E k \in DOMAIN (s \o c) : (s \o c)[k] = e
    BY <1>3, <1>6
  <1>9. FollowedBy(s, s \o c, e)
    BY <1>3, <1>7 DEF FollowedBy
  <1> QED
    BY <1>3, <1>8, <1>9 DEF c

(* The ids of a list, and what adding to it and marking in it do to them.  *)
IdsOf(l) == {e.id : e \in ToSet(l)}

LEMMA Listed1 ==
  ASSUME NEW l
  PROVE  /\ \A i : i \in IdsOf(l) <=> \E n \in DOMAIN l : l[n].id = i
         /\ \A e : e \in ToSet(l) <=> \E n \in DOMAIN l : l[n] = e
  BY DEF IdsOf, ToSet

LEMMA MessageIsAdded ==
  ASSUME NEW l \in Seq(Entry), NEW i \in Ids
  PROVE  /\ addMessage(l, i) \in Seq(Entry)
         /\ IdsOf(addMessage(l, i)) = IdsOf(l) \union {i}
         /\ \A e \in ToSet(addMessage(l, i)) : e \in ToSet(l) \/ (e.id = i /\ i \notin IdsOf(l))
  <1> DEFINE x == [id |-> i, deleted |-> FALSE]
  <1>1. x \in Entry /\ x.id = i
    BY DEF Entry
  <1>2. CASE \E e \in ToSet(l) : e.id = i
    <2>1. addMessage(l, i) = l /\ i \in IdsOf(l)
      BY <1>2 DEF addMessage, IdsOf
    <2> QED
      BY <2>1
  <1>3. CASE ~\E e \in ToSet(l) : e.id = i
    <2>1. addMessage(l, i) = Append(l, x) /\ i \notin IdsOf(l)
      BY <1>3 DEF addMessage, IdsOf
    <2> HIDE DEF x
    <2>2. /\ Append(l, x) \in Seq(Entry)
          /\ ToSet(Append(l, x)) = ToSet(l) \union {x}
      <3>1. /\ Append(l, x) \in Seq(Entry) /\ Len(l) \in Nat /\ DOMAIN l = 1..Len(l)
            /\ DOMAIN Append(l, x) = 1..(Len(l) + 1)
            /\ Append(l, x)[Len(l) + 1] = x
            /\ \A n \in 1..Len(l) : Append(l, x)[n] = l[n]
        BY <1>1
      <3>2. \A e : e \in ToSet(Append(l, x)) <=> e \in ToSet(l) \union {x}
        <4>1. ASSUME NEW e, e \in ToSet(Append(l, x))
              PROVE  e \in ToSet(l) \union {x}
          <5>1. PICK n \in DOMAIN Append(l, x) : Append(l, x)[n] = e
            BY <4>1, Listed1
          <5>2. n = Len(l) + 1 \/ n \in 1..Len(l)
            BY <3>1, <5>1
          <5> QED
            BY <3>1, <5>1, <5>2, Listed1
        <4>2. ASSUME NEW e, e \in ToSet(l)
              PROVE  e \in ToSet(Append(l, x))
          <5>1. PICK n \in 1..Len(l) : l[n] = e
            BY <3>1, <4>2, Listed1
          <5>2. n \in 1..(Len(l) + 1)
            BY <3>1, <5>1
          <5> QED
            BY <3>1, <5>1, <5>2, Listed1
        <4>3. Len(l) + 1 \in 1..(Len(l) + 1)
          BY <3>1
        <4>4. x \in ToSet(Append(l, x))
          BY <3>1, <4>3, Listed1
        <4> QED
          BY <4>1, <4>2, <4>4
      <3> QED
        BY <3>1, <3>2
    <2>3. IdsOf(Append(l, x)) = IdsOf(l) \union {i}
      BY <1>1, <2>2 DEF IdsOf
    <2> QED
      BY <1>1, <2>1, <2>2, <2>3
  <1> QED
    BY <1>2, <1>3

LEMMA MessageIsMarked ==
  ASSUME NEW l \in Seq(Entry), NEW i
  PROVE  /\ MarkDeleted(l, i) \in Seq(Entry)
         /\ IdsOf(MarkDeleted(l, i)) = IdsOf(l)
         /\ \A e \in ToSet(MarkDeleted(l, i)) : ~e.deleted => e \in ToSet(l) /\ e.id # i
  <1>1. \A e \in Entry : /\ [e EXCEPT !.deleted = TRUE] \in Entry
                         /\ [e EXCEPT !.deleted = TRUE].id = e.id
                         /\ [e EXCEPT !.deleted = TRUE].deleted
    BY DEF Entry
  <1>2. DOMAIN l = 1..Len(l) /\ Len(l) \in Nat /\ \A n \in DOMAIN l : l[n] \in Entry
    OBVIOUS
  <1>3. /\ DOMAIN MarkDeleted(l, i) = DOMAIN l
        /\ \A n \in DOMAIN l :
             MarkDeleted(l, i)[n] = IF l[n].id = i THEN [l[n] EXCEPT !.deleted = TRUE] ELSE l[n]
    BY DEF MarkDeleted
  <1>4. \A n \in DOMAIN l : /\ MarkDeleted(l, i)[n] \in Entry
                            /\ MarkDeleted(l, i)[n].id = l[n].id
                            /\ ~MarkDeleted(l, i)[n].deleted =>
                                 MarkDeleted(l, i)[n] = l[n] /\ l[n].id # i
    BY <1>1, <1>2, <1>3
  <1>5. MarkDeleted(l, i) \in [1..Len(l) -> Entry]
    BY <1>2, <1>3, <1>4 DEF MarkDeleted
  <1>6. MarkDeleted(l, i) \in Seq(Entry)
    BY <1>2, <1>5, FunctionIsSeq
  <1>7. \A j : j \in IdsOf(MarkDeleted(l, i)) <=> j \in IdsOf(l)
    BY <1>3, <1>4, Listed1
  <1>8. \A e \in ToSet(MarkDeleted(l, i)) : ~e.deleted => e \in ToSet(l) /\ e.id # i
    BY <1>3, <1>4, Listed1
  <1> QED
    BY <1>6, <1>7, <1>8

(* The history answer as a list.                                           *)
LEMMA HistoryIsListed ==
  ASSUME NEW S \in SUBSET Ids, NEW asc \in Ascending(S), NEW l,
         l = [n \in DOMAIN asc |-> [id |-> asc[n], deleted |-> FALSE]]
  PROVE  l \in Seq(Entry) /\ IdsOf(l) = S
  <1>1. IsFiniteSet(Ids)
    BY MaxMessagesAssumption, FS_Interval DEF Ids
  <1>2. Cardinality(S) \in Nat
    BY <1>1, FS_Subset, FS_CardinalityType
  <1>3. asc \in [1..Cardinality(S) -> S] /\ ToSet(asc) = S
    BY DEF Ascending
  <1>4. l \in [1..Cardinality(S) -> Entry]
    BY <1>3 DEF Entry
  <1>5. l \in Seq(Entry) /\ DOMAIN l = DOMAIN asc
    BY <1>2, <1>3, <1>4, FunctionIsSeq
  <1>6. \A i : i \in IdsOf(l) <=> i \in ToSet(asc)
    BY <1>5, Listed1
  <1> QED
    BY <1>3, <1>5, <1>6

LEMMA EventsAreAppended ==
  ASSUME events \in Seq(Event), NEW kind \in {"new", "deleted", "cleared"},
         NEW i \in 0..MaxMessages, Broadcast(kind, i)
  PROVE  /\ events' \in Seq(Event)
         /\ FollowedBy(events, events', [kind |-> kind, id |-> i])
         /\ linked => \E n \in DOMAIN events' : events'[n] = [kind |-> kind, id |-> i]
  <1> DEFINE e == [kind |-> kind, id |-> i]
  <1>1. e \in Event
    BY DEF Event
  <1>2. events' = IF linked THEN events \o <<e, e>> ELSE events
    BY DEF Broadcast
  <1> HIDE DEF e
  <1>3. CASE linked
    <2>1. events' = events \o <<e, e>>
      BY <1>2, <1>3
    <2>2. /\ events \o <<e, e>> \in Seq(Event)
          /\ FollowedBy(events, events \o <<e, e>>, e)
          /\ \E k \in DOMAIN (events \o <<e, e>>) : (events \o <<e, e>>)[k] = e
      BY <1>1, TwoCopies
    <2> QED
      BY <2>1, <2>2 DEF e
  <1>4. CASE ~linked
    <2>1. events' = events /\ DOMAIN events = 1..Len(events) /\ Len(events) \in Nat
      BY <1>2, <1>4
    <2> QED
      BY <1>4, <2>1 DEF FollowedBy
  <1> QED
    BY <1>3, <1>4

LEMMA ClearIsAppended ==
  ASSUME events \in Seq(Event), EmitCleared
  PROVE  /\ events' \in Seq(Event)
         /\ FollowedBy(events, events', [kind |-> "cleared", id |-> 0])
  <1> DEFINE e == [kind |-> "cleared", id |-> 0]
  <1>1. e \in Event
    BY MaxMessagesAssumption DEF Event
  <1>2. events' = IF linked THEN Append(events, e) ELSE events
    BY DEF EmitCleared
  <1> HIDE DEF e
  <1>3. CASE linked
    <2>1. events' = Append(events, e)
      BY <1>2, <1>3
    <2>2. /\ Append(events, e) \in Seq(Event)
          /\ DOMAIN events = 1..Len(events) /\ Len(events) \in Nat
          /\ DOMAIN Append(events, e) = 1..(Len(events) + 1)
          /\ Append(events, e)[Len(events) + 1] = e
          /\ \A n \in 1..Len(events) : Append(events, e)[n] = events[n]
      BY <1>1
    <2>3. \A n \in 1..(Len(events) + 1) : n \notin 1..Len(events) => n = Len(events) + 1
      BY <2>2
    <2> QED
      BY <2>1, <2>2, <2>3 DEF FollowedBy, e
  <1>4. CASE ~linked
    <2>1. events' = events /\ DOMAIN events = 1..Len(events) /\ Len(events) \in Nat
      BY <1>2, <1>4
    <2> QED
      BY <2>1 DEF FollowedBy
  <1> QED
    BY <1>3, <1>4

LEMMA ChatInitHolds == ChatInit => ChatInv
  <1> SUFFICES ASSUME ChatInit
               PROVE  ChatInv
    OBVIOUS
  <1>1. 1..stored \subseteq Ids /\ stored \in 0..MaxMessages
    BY MaxMessagesAssumption DEF ChatInit, Ids
  <1>2. events = <<>> /\ DOMAIN events = {} /\ list = <<>> /\ ToSet(list) = {}
    BY DEF ChatInit, ToSet
  <1>3. ChatTypeOK
    <2>1. events \in Seq(Event) /\ list \in Seq(Entry)
      BY <1>2
    <2>2. load \in [Loads -> [pc : {"idle", "asked", "answered"}, ids : SUBSET Ids]]
      BY DEF ChatInit, NoLoad
    <2>3. clearedAt \in 0..MaxMessages
      BY MaxMessagesAssumption DEF ChatInit
    <2> QED
      BY <1>1, <2>1, <2>2, <2>3 DEF ChatInit, ChatTypeOK
  <1>4. EventsInOrder
    BY <1>2 DEF ChatInit, EventsInOrder
  <1>5. ToldAreListed /\ DeletedStaysDeleted
    BY <1>2 DEF ChatInit, ToldAreListed, DeletedStaysDeleted
  <1>6. StoredAreFollowed
    BY DEF ChatInit, StoredAreFollowed
  <1> QED
    BY <1>3, <1>4, <1>5, <1>6 DEF ChatInv

(* The event at the head is of a message that was stored.                  *)
LEMMA HeadIsStored ==
  ASSUME ChatTypeOK, EventsInOrder, events # <<>>,
         Head(events).kind \in {"new", "deleted"}
  PROVE  Head(events).id \in 1..stored /\ Head(events).id \in Ids
  <1>1. events \in Seq(Event) /\ stored \in 0..MaxMessages
    BY DEF ChatTypeOK
  <1>2. Head(events) = events[1] /\ 1 \in DOMAIN events
    BY <1>1
  <1>3. Head(events).id \in 1..stored
    BY <1>2 DEF EventsInOrder
  <1> QED
    BY <1>1, <1>3, MaxMessagesAssumption DEF Ids

LEMMA ChatTypeStep ==
  ASSUME ChatTypeOK, EventsInOrder, [ChatNext]_chatVars
  PROVE  ChatTypeOK'
  <1> DEFINE Load == [pc : {"idle", "asked", "answered"}, ids : SUBSET Ids]
  <1>0. /\ stored \in 0..MaxMessages /\ clearedAt \in 0..MaxMessages
        /\ author \in [Ids -> {"me", "peer"}]
        /\ erased \subseteq Ids
        /\ emitting \in BOOLEAN /\ events \in Seq(Event)
        /\ linked \in BOOLEAN
        /\ replies \subseteq Ids /\ clearing \in {"no", "asked", "shared"}
        /\ list \in Seq(Entry)
        /\ load \in [Loads -> Load]
        /\ decrypting \in [Ids -> Nat]
        /\ told \subseteq Ids /\ raced \subseteq Ids /\ unseen \subseteq Ids
    BY DEF ChatTypeOK
  <1>1. Ids \subseteq 0..MaxMessages /\ 1..stored \subseteq Ids /\ Visible \subseteq Ids
        /\ NoLoad \in Load /\ Shown \subseteq Ids
    <2>1. Ids \subseteq 0..MaxMessages /\ 1..stored \subseteq Ids
      BY <1>0, MaxMessagesAssumption DEF Ids
    <2>2. \A e \in ToSet(list) : e \in Entry
      BY <1>0 DEF ToSet
    <2>3. Shown \subseteq Ids
      BY <2>2 DEF Shown, Entry
    <2> QED
      BY <2>1, <2>3 DEF Visible, NoLoad
  <1> HIDE DEF Load
  <1> SUFFICES /\ stored' \in 0..MaxMessages /\ clearedAt' \in 0..MaxMessages
               /\ author' \in [Ids -> {"me", "peer"}]
               /\ erased' \subseteq Ids
               /\ emitting' \in BOOLEAN /\ events' \in Seq(Event)
               /\ linked' \in BOOLEAN
               /\ replies' \subseteq Ids /\ clearing' \in {"no", "asked", "shared"}
               /\ list' \in Seq(Entry)
               /\ load' \in [Loads -> Load]
               /\ decrypting' \in [Ids -> Nat]
               /\ told' \subseteq Ids /\ raced' \subseteq Ids /\ unseen' \subseteq Ids
    BY DEF ChatTypeOK, Load
  <1>2. CASE UNCHANGED chatVars
    BY <1>0, <1>2 DEF chatVars
  <1>3. ASSUME NEW who \in {"me", "peer"}, Store(who)
        PROVE  ChatTypeOK'
    <2>1. stored + 1 \in Ids /\ stored' = stored + 1 /\ Broadcast("new", stored + 1)
      BY <1>3 DEF Store
    <2>2. events' \in Seq(Event)
      BY <1>0, <1>1, <2>1, EventsAreAppended
    <2>3. author' \in [Ids -> {"me", "peer"}]
      BY <1>0, <1>3 DEF Store
    <2>4. replies' \subseteq Ids /\ unseen' \subseteq Ids
      BY <1>0, <1>3, <2>1 DEF Store
    <2> QED
      BY <1>0, <1>1, <1>3, <2>1, <2>2, <2>3, <2>4 DEF Store, viewVars, ChatTypeOK, Load
  <1>4. ASSUME NEW i \in Ids, Erase(i)
        PROVE  ChatTypeOK'
    <2>1. events' \in Seq(Event)
      BY <1>0, <1>1, <1>4, EventsAreAppended DEF Erase
    <2> QED
      BY <1>0, <1>1, <1>4, <2>1 DEF Erase, viewVars, ghostVars, ChatTypeOK, Load
  <1>5. ASSUME NEW i \in Ids, Decrypted(i)
        PROVE  ChatTypeOK'
    <2>1. decrypting' \in [Ids -> Nat]
      BY <1>0, <1>5 DEF Decrypted
    <2>2. list' \in Seq(Entry)
      BY <1>0, <1>5, MessageIsAdded DEF Decrypted
    <2> QED
      BY <1>0, <1>5, <2>1, <2>2 DEF Decrypted, serverVars, netVars, ghostVars, ChatTypeOK, Load
  <1>6. ASSUME NEW i \in Ids, NEW arrives \in BOOLEAN, Answered(i, arrives)
        PROVE  ChatTypeOK'
    <2>1. list' \in Seq(Entry)
      BY <1>0, <1>6, MessageIsAdded DEF Answered
    <2>2. replies' \subseteq Ids /\ unseen' \subseteq Ids
      BY <1>0, <1>6 DEF Answered
    <2> QED
      BY <1>0, <1>6, <2>1, <2>2 DEF Answered, serverVars, ChatTypeOK, Load
  <1>7. CASE PeerClears
    BY <1>0, <1>7 DEF PeerClears, viewVars, ghostVars
  <1>8. CASE EmitCleared
    <2>1. events' \in Seq(Event)
      BY <1>0, <1>8, ClearIsAppended
    <2> QED
      BY <1>0, <1>8, <2>1 DEF EmitCleared, serverVars, viewVars, ghostVars
  <1>9. CASE Disconnect
    <2>1. ASSUME NEW f \in ToSet(events), f.kind = "new"
          PROVE  f.id \in Ids
      <3>1. PICK n \in DOMAIN events : events[n] = f
        BY Listed1
      <3> QED
        BY <1>1, <2>1, <3>1 DEF EventsInOrder
    <2>2. unseen' \subseteq Ids
      BY <1>0, <1>9, <2>1 DEF Disconnect
    <2>3. events' \in Seq(Event)
      BY <1>9 DEF Disconnect
    <2> QED
      BY <1>0, <1>9, <2>2, <2>3 DEF Disconnect, serverVars, viewVars
  <1>10. CASE Reconnect
    BY <1>0, <1>10 DEF Reconnect, serverVars, viewVars, ghostVars
  <1>11. CASE OnNew
    <2>1. events # <<>> /\ Head(events).kind = "new" /\ events' = Tail(events)
      BY <1>11 DEF OnNew
    <2>2. Head(events).id \in Ids
      BY <2>1, HeadIsStored
    <2>3. decrypting' \in [Ids -> Nat]
      BY <1>0, <1>11, <2>2 DEF OnNew
    <2>4. events' \in Seq(Event)
      BY <1>0, <2>1
    <2> QED
      BY <1>0, <1>11, <2>3, <2>4 DEF OnNew, serverVars, ghostVars
  <1>12. CASE OnDeleted
    <2>1. /\ events # <<>> /\ Head(events).kind = "deleted" /\ events' = Tail(events)
          /\ list' = MarkDeleted(list, Head(events).id)
      BY <1>12 DEF OnDeleted
    <2>2. Head(events).id \in Ids
      BY <2>1, HeadIsStored
    <2>3. list' \in Seq(Entry)
      BY <1>0, <2>1, MessageIsMarked
    <2>4. events' \in Seq(Event)
      BY <1>0, <2>1
    <2>5. told' \subseteq Ids /\ raced' \subseteq Ids
      BY <1>0, <1>12, <2>2 DEF OnDeleted
    <2> QED
      BY <1>0, <1>12, <2>3, <2>4, <2>5 DEF OnDeleted, serverVars
  <1>13. Returning \subseteq Ids
    BY <1>0 DEF Returning
  <1>14. CASE OnCleared
    <2>1. events' \in Seq(Event)
      BY <1>0, <1>14 DEF OnCleared
    <2>2. list' \in Seq(Entry) /\ unseen' \subseteq Ids /\ raced' \subseteq Ids
      BY <1>0, <1>1, <1>13, <1>14 DEF OnCleared, Emptied
    <2> QED
      BY <1>0, <1>14, <2>1, <2>2 DEF OnCleared, serverVars
  <1>15. ASSUME NEW l \in Loads, Open(l) \/ HistoryRead(l) \/ HistoryFails(l)
         PROVE  ChatTypeOK'
    <2>1. load' \in [Loads -> Load]
      <3>1. CASE Open(l)
        <4>1. \A x \in Load : [x EXCEPT !.pc = "asked"] \in Load
          BY DEF Load
        <4>2. load' = [load EXCEPT ![l] = [load[l] EXCEPT !.pc = "asked"]]
          BY <1>0, <3>1 DEF Open
        <4> QED
          BY <1>0, <4>1, <4>2
      <3>2. CASE HistoryRead(l)
        <4>1. [pc |-> "answered", ids |-> Visible] \in Load
          BY <1>1 DEF Load
        <4> QED
          BY <1>0, <3>2, <4>1 DEF HistoryRead
      <3>3. CASE HistoryFails(l)
        BY <1>0, <1>1, <3>3 DEF HistoryFails
      <3> QED
        BY <1>15, <3>1, <3>2, <3>3
    <2> QED
      BY <1>0, <1>15, <2>1
      DEF Open, HistoryRead, HistoryFails, serverVars, netVars, ghostVars, ChatTypeOK, Load
  <1>16. ASSUME NEW l \in Loads, HistoryShown(l)
         PROVE  ChatTypeOK'
    <2>1. load[l].ids \in SUBSET Ids
      BY <1>0 DEF Load
    <2>2. list' \in Seq(Entry)
      BY <1>16, <2>1, HistoryIsListed DEF HistoryShown
    <2>3. load' \in [Loads -> Load]
      BY <1>0, <1>1, <1>16 DEF HistoryShown
    <2>4. raced' \subseteq Ids /\ unseen' \subseteq Ids
      BY <1>0, <1>1, <1>13, <1>16, <2>1 DEF HistoryShown
    <2> QED
      BY <1>0, <1>16, <2>2, <2>3, <2>4
      DEF HistoryShown, serverVars, netVars, ChatTypeOK, Load
  <1>17. ASSUME NEW both \in BOOLEAN, Clear(both)
         PROVE  ChatTypeOK'
    <2>1. list' \in Seq(Entry) /\ unseen' \subseteq Ids /\ raced' \subseteq Ids
      BY <1>0, <1>1, <1>13, <1>17 DEF Clear, Emptied
    <2>2. clearing' \in {"no", "asked", "shared"}
      BY <1>17 DEF Clear
    <2> QED
      BY <1>0, <1>17, <2>1, <2>2 DEF Clear, serverVars, ChatTypeOK, Load
  <1>18. CASE ClearStored
    <2>1. emitting' \in BOOLEAN
      BY <1>0, <1>18 DEF ClearStored
    <2> QED
      BY <1>0, <1>18, <2>1 DEF ClearStored, viewVars, ghostVars
  <1>19. CASE ClearFails
    BY <1>0, <1>19 DEF ClearFails, serverVars, viewVars, ghostVars
  <1> QED
    BY <1>2, <1>3, <1>4, <1>5, <1>6, <1>7, <1>8, <1>9, <1>10, <1>11, <1>12, <1>14, <1>15,
       <1>16, <1>17, <1>18, <1>19 DEF ChatNext, ChatTypeOK, Load

(* One more event, after all those under way.                              *)
LEMMA OrderIsKept ==
  ASSUME ChatTypeOK, EventsInOrder, NEW e, events' \in Seq(Event),
         FollowedBy(events, events', e),
         stored' \in Nat, stored <= stored', erased \subseteq erased',
         erased' \subseteq 1..stored', told' = told, replies' \subseteq 1..stored',
         e.kind \in {"new", "deleted"} => e.id \in 1..stored',
         e.kind = "deleted" => e.id \in erased',
         e.kind = "new" => e.id \notin erased
  PROVE  EventsInOrder'
  <1>1. stored \in Nat /\ \A i \in 1..stored : i \in 1..stored'
    BY DEF ChatTypeOK
  <1>2. \A n \in DOMAIN events' : \/ n \in DOMAIN events /\ events'[n] = events[n]
                                  \/ n \notin DOMAIN events /\ events'[n] = e
    BY DEF FollowedBy
  <1>3. DOMAIN events' = 1..Len(events') /\ Len(events') \in Nat
    OBVIOUS
  <1>4. /\ \A n \in DOMAIN events' :
             events'[n].kind \in {"new", "deleted"} => events'[n].id \in 1..stored'
        /\ \A n \in DOMAIN events' : events'[n].kind = "deleted" => events'[n].id \in erased'
    BY <1>1, <1>2 DEF EventsInOrder
  <1>5. ASSUME NEW n \in DOMAIN events', events'[n].kind = "new"
        PROVE  /\ events'[n].id \notin told'
               /\ \A m \in 1..n : events'[m].kind = "deleted" => events'[m].id # events'[n].id
    <2>1. CASE n \in DOMAIN events
      <3>1. events'[n] = events[n]
        BY <1>2, <2>1
      <3>2. \A m \in 1..n : m \in DOMAIN events /\ events'[m] = events[m]
        BY <2>1 DEF FollowedBy
      <3> QED
        BY <1>5, <2>1, <3>1, <3>2 DEF EventsInOrder
    <2>2. CASE n \notin DOMAIN events
      <3>1. events'[n] = e /\ e.id \notin erased /\ e.kind = "new"
        BY <1>2, <1>5, <2>2
      <3>2. \A m \in 1..n : m \in DOMAIN events'
        BY <1>3
      <3>3. ASSUME NEW m \in 1..n, events'[m].kind = "deleted"
            PROVE  events'[m].id \in erased
        <4>1. m \in DOMAIN events /\ events'[m] = events[m]
          BY <1>2, <3>1, <3>2, <3>3
        <4> QED
          BY <3>3, <4>1 DEF EventsInOrder
      <3> QED
        BY <3>1, <3>3 DEF EventsInOrder
    <2> QED
      BY <2>1, <2>2
  <1> QED
    BY <1>4, <1>5 DEF EventsInOrder

(* One event fewer, the first.                                             *)
LEMMA OrderOfTheRest ==
  ASSUME ChatTypeOK, EventsInOrder, events # <<>>, events' = Tail(events),
         UNCHANGED <<stored, erased, replies>>,
         \/ told' = told
         \/ Head(events).kind = "deleted" /\ told' = told \union {Head(events).id}
  PROVE  EventsInOrder'
  <1>1. /\ Head(events) = events[1] /\ 1 \in DOMAIN events
        /\ \A k \in DOMAIN events' : k + 1 \in DOMAIN events /\ events'[k] = events[k + 1]
        /\ DOMAIN events \subseteq Nat /\ DOMAIN events' = 1..Len(events') /\ Len(events') \in Nat
    BY HeadAndTail DEF ChatTypeOK
  <1>2. told' \subseteq erased'
    <2>1. events[1].kind = "deleted" => events[1].id \in erased
      BY <1>1 DEF EventsInOrder
    <2>2. told \subseteq erased /\ erased' = erased
      BY DEF EventsInOrder
    <2> QED
      BY <1>1, <2>1, <2>2, Zenon
  <1>3. /\ \A n \in DOMAIN events' :
             events'[n].kind \in {"new", "deleted"} => events'[n].id \in 1..stored'
        /\ \A n \in DOMAIN events' : events'[n].kind = "deleted" => events'[n].id \in erased'
    BY <1>1 DEF EventsInOrder
  <1>4. ASSUME NEW n \in DOMAIN events', events'[n].kind = "new"
        PROVE  /\ events'[n].id \notin told'
               /\ \A m \in 1..n : events'[m].kind = "deleted" => events'[m].id # events'[n].id
    <2>1. /\ n + 1 \in DOMAIN events /\ events'[n] = events[n + 1] /\ n \in Nat
          /\ \A m \in 1..n : m \in DOMAIN events'
      BY <1>1
    <2>2. /\ events[n + 1].id \notin told
          /\ \A m \in 1..(n + 1) : events[m].kind = "deleted" => events[m].id # events[n + 1].id
      BY <1>4, <2>1 DEF EventsInOrder
    <2>3. 1 \in 1..(n + 1) /\ \A m \in 1..n : m + 1 \in 1..(n + 1) /\ events'[m] = events[m + 1]
      BY <1>1, <2>1
    <2>4. events'[n].id \notin told'
      BY <1>1, <2>1, <2>2, <2>3
    <2>5. ASSUME NEW m \in 1..n, events'[m].kind = "deleted"
          PROVE  events'[m].id # events'[n].id
      BY <2>1, <2>2, <2>3, <2>5
    <2> QED
      BY <2>4, <2>5
  <1> QED
    BY <1>2, <1>3, <1>4 DEF EventsInOrder

LEMMA EventsStep ==
  ASSUME ChatTypeOK, EventsInOrder, [ChatNext]_chatVars
  PROVE  EventsInOrder'
  <1>0. /\ stored \in Nat /\ events \in Seq(Event)
        /\ erased \subseteq 1..stored /\ replies \subseteq 1..stored
    BY DEF ChatTypeOK, EventsInOrder
  <1>1. ASSUME UNCHANGED <<stored, erased, told, events>>, replies' \subseteq replies
        PROVE  EventsInOrder'
    BY <1>1 DEF EventsInOrder
  <1>2. CASE UNCHANGED chatVars
    BY <1>1, <1>2 DEF chatVars
  <1>3. ASSUME NEW who \in {"me", "peer"}, Store(who)
        PROVE  EventsInOrder'
    <2> DEFINE e == [kind |-> "new", id |-> stored + 1]
    <2>1. /\ stored' = stored + 1 /\ stored' \in Ids /\ Broadcast("new", stored') /\ erased' = erased
          /\ told' = told /\ replies' \subseteq replies \union {stored + 1}
      BY <1>3 DEF Store
    <2>2. FollowedBy(events, events', e) /\ events' \in Seq(Event)
      BY <1>0, <2>1, EventsAreAppended, MaxMessagesAssumption DEF Ids
    <2>3. e.kind = "new" /\ e.id = stored + 1
      OBVIOUS
    <2>4. stored + 1 \notin 1..stored /\ 1..stored \subseteq 1..stored' /\ stored + 1 \in 1..stored'
          /\ stored' \in Nat /\ stored <= stored'
      BY <1>0, <2>1
    <2> HIDE DEF e
    <2>5. e.id \notin erased /\ erased' \subseteq 1..stored' /\ replies' \subseteq 1..stored'
          /\ e.id \in 1..stored' /\ e.kind # "deleted"
      BY <1>0, <2>1, <2>3, <2>4
    <2>6. erased \subseteq erased'
      BY <2>1
    <2> QED
      BY <2>1, <2>2, <2>4, <2>5, <2>6, OrderIsKept
  <1>4. ASSUME NEW i \in Ids, Erase(i)
        PROVE  EventsInOrder'
    <2> DEFINE e == [kind |-> "deleted", id |-> i]
    <2>1. /\ stored' = stored /\ Broadcast("deleted", i) /\ erased' = erased \union {i}
          /\ told' = told /\ replies' = replies /\ i \in 1..stored
      BY <1>4 DEF Erase, ghostVars
    <2>2. FollowedBy(events, events', e) /\ events' \in Seq(Event)
      BY <1>0, <2>1, EventsAreAppended, MaxMessagesAssumption DEF Ids
    <2>3. e.kind = "deleted" /\ e.id = i
      OBVIOUS
    <2> HIDE DEF e
    <2>4. e.id \in 1..stored' /\ e.id \in erased' /\ erased' \subseteq 1..stored'
          /\ erased \subseteq erased' /\ stored <= stored' /\ replies' \subseteq 1..stored'
          /\ stored' \in Nat
      BY <1>0, <2>1, <2>3
    <2> QED
      BY <2>1, <2>2, <2>3, <2>4, OrderIsKept
  <1>5. CASE EmitCleared
    <2> DEFINE e == [kind |-> "cleared", id |-> 0]
    <2>1. stored' = stored /\ erased' = erased /\ told' = told /\ replies' = replies
      BY <1>5 DEF EmitCleared, serverVars, ghostVars
    <2>2. FollowedBy(events, events', e) /\ events' \in Seq(Event)
      BY <1>0, <1>5, ClearIsAppended
    <2>3. e.kind = "cleared"
      OBVIOUS
    <2> HIDE DEF e
    <2>4. stored <= stored' /\ stored' \in Nat /\ erased \subseteq erased'
          /\ erased' \subseteq 1..stored' /\ replies' \subseteq 1..stored'
      BY <1>0, <2>1
    <2> QED
      BY <2>1, <2>2, <2>3, <2>4, OrderIsKept
  <1>6. CASE Disconnect
    <2>1. events' = <<>> /\ UNCHANGED <<stored, erased, told, replies>>
      BY <1>6 DEF Disconnect, serverVars
    <2> QED
      BY <2>1 DEF EventsInOrder
  <1>7. CASE OnNew
    BY <1>7, OrderOfTheRest DEF OnNew, serverVars, ghostVars
  <1>8. CASE OnDeleted
    BY <1>8, OrderOfTheRest DEF OnDeleted, serverVars
  <1>9. CASE OnCleared
    BY <1>9, OrderOfTheRest DEF OnCleared, serverVars
  <1>10. ASSUME NEW i \in Ids, NEW arrives \in BOOLEAN, Answered(i, arrives)
         PROVE  EventsInOrder'
    BY <1>1, <1>10 DEF Answered, serverVars
  <1>11. ASSUME NEW i \in Ids, Decrypted(i)
         PROVE  EventsInOrder'
    BY <1>1, <1>11 DEF Decrypted, serverVars, netVars, ghostVars
  <1>12. CASE PeerClears \/ Reconnect \/ ClearStored \/ ClearFails
    BY <1>1, <1>12 DEF PeerClears, Reconnect, ClearStored, ClearFails, serverVars, ghostVars
  <1>13. ASSUME NEW l \in Loads, Open(l) \/ HistoryRead(l) \/ HistoryFails(l) \/ HistoryShown(l)
         PROVE  EventsInOrder'
    BY <1>1, <1>13
    DEF Open, HistoryRead, HistoryFails, HistoryShown, serverVars, netVars, ghostVars
  <1>14. ASSUME NEW both \in BOOLEAN, Clear(both)
         PROVE  EventsInOrder'
    BY <1>1, <1>14 DEF Clear, serverVars
  <1> QED
    BY <1>2, <1>3, <1>4, <1>5, <1>6, <1>7, <1>8, <1>9, <1>10, <1>11, <1>12, <1>13, <1>14
    DEF ChatNext

LEMMA ShownAreListed ==
  /\ Shown = IdsOf(list)
  /\ Shown' = IdsOf(list')
  BY DEF Shown, IdsOf

(* What adding one message that was on its way does.                       *)
LEMMA LateMessageIsShown ==
  ASSUME ChatTypeOK, ToldAreListed, DeletedStaysDeleted,
         NEW i \in Ids, list' = addMessage(list, i), UNCHANGED <<told, raced>>,
         i \in told \ raced => i \in Shown,
         \A j \in told : decrypting'[j] > 0 \/ j \in replies' => decrypting[j] > 0 \/ j \in replies
  PROVE  ToldAreListed' /\ DeletedStaysDeleted'
  <1>1. /\ Shown' = Shown \union {i}
        /\ \A e \in ToSet(list') : e \in ToSet(list) \/ (e.id = i /\ i \notin Shown)
    BY MessageIsAdded, ShownAreListed DEF ChatTypeOK
  <1>2. ToldAreListed'
    BY <1>1 DEF ToldAreListed
  <1>3. DeletedStaysDeleted'
    BY <1>1 DEF DeletedStaysDeleted
  <1> QED
    BY <1>2, <1>3

LEMMA NothingIsTakenBack ==
  ASSUME list' = <<>>, raced' = raced \union Returning, UNCHANGED <<told, decrypting, replies>>
  PROVE  ToldAreListed' /\ DeletedStaysDeleted'
  <1>1. ToSet(list') = {}
    BY DEF ToSet
  <1>2. ToldAreListed'
    BY DEF Returning, ToldAreListed
  <1> QED
    BY <1>1, <1>2 DEF DeletedStaysDeleted

LEMMA ListStep ==
  ASSUME ChatTypeOK, EventsInOrder, ToldAreListed, DeletedStaysDeleted, [ChatNext]_chatVars
  PROVE  ToldAreListed' /\ DeletedStaysDeleted'
  <1>0. /\ stored \in Nat /\ events \in Seq(Event) /\ list \in Seq(Entry)
        /\ decrypting \in [Ids -> Nat] /\ told \subseteq 1..stored /\ told \subseteq Ids
    BY DEF ChatTypeOK, EventsInOrder
  <1>1. ASSUME UNCHANGED <<list, told, raced>>,
               \A j \in told : decrypting'[j] > 0 \/ j \in replies' =>
                                 decrypting[j] > 0 \/ j \in replies
        PROVE  ToldAreListed' /\ DeletedStaysDeleted'
    BY <1>1 DEF ToldAreListed, DeletedStaysDeleted, Shown
  <1>2. ASSUME UNCHANGED <<list, told, raced, decrypting, replies>>
        PROVE  ToldAreListed' /\ DeletedStaysDeleted'
    BY <1>1, <1>2
  <1>3. ASSUME NEW who \in {"me", "peer"}, Store(who)
        PROVE  ToldAreListed' /\ DeletedStaysDeleted'
    <2>1. /\ UNCHANGED <<list, told, raced, decrypting>>
          /\ replies' \subseteq replies \union {stored + 1}
      BY <1>3 DEF Store, viewVars
    <2>2. stored + 1 \notin told
      BY <1>0
    <2> QED
      BY <1>1, <2>1, <2>2
  <1>4. CASE OnNew
    <2>1. /\ UNCHANGED <<list, told, raced, replies>>
          /\ events # <<>> /\ Head(events).kind = "new"
          /\ \/ decrypting' = decrypting
             \/ decrypting' = [decrypting EXCEPT ![Head(events).id] = @ + 1]
      BY <1>4 DEF OnNew, ghostVars
    <2>2. Head(events) = events[1] /\ 1 \in DOMAIN events
      BY <1>0, <2>1
    <2>3. Head(events).id \notin told
      BY <2>1, <2>2 DEF EventsInOrder
    <2>4. \A j \in told : decrypting'[j] = decrypting[j]
      BY <1>0, <2>1, <2>3
    <2> QED
      BY <1>1, <2>1, <2>4
  <1>5. ASSUME NEW i \in Ids, Decrypted(i)
        PROVE  ToldAreListed' /\ DeletedStaysDeleted'
    <2>1. /\ UNCHANGED <<told, raced, replies>> /\ list' = addMessage(list, i)
          /\ decrypting[i] > 0 /\ decrypting' = [decrypting EXCEPT ![i] = @ - 1]
      BY <1>5 DEF Decrypted, netVars, ghostVars
    <2>2. i \in told \ raced => i \in Shown
      BY <2>1 DEF ToldAreListed
    <2>3. \A j \in told : decrypting'[j] > 0 => decrypting[j] > 0
      BY <1>0, <2>1
    <2> QED
      BY <2>1, <2>2, <2>3, LateMessageIsShown
  <1>6. ASSUME NEW i \in Ids, NEW arrives \in BOOLEAN, Answered(i, arrives)
        PROVE  ToldAreListed' /\ DeletedStaysDeleted'
    <2>1. /\ UNCHANGED <<told, raced, decrypting>> /\ i \in replies /\ replies' \subseteq replies
          /\ list' = IF arrives THEN addMessage(list, i) ELSE list
      BY <1>6 DEF Answered
    <2>2. CASE arrives
      <3>1. i \in told \ raced => i \in Shown
        BY <2>1 DEF ToldAreListed
      <3> QED
        BY <2>1, <2>2, <3>1, LateMessageIsShown
    <2>3. CASE ~arrives
      BY <1>1, <2>1, <2>3
    <2> QED
      BY <2>2, <2>3
  <1>7. CASE OnDeleted
    <2> DEFINE i == Head(events).id
    <2>1. /\ UNCHANGED <<decrypting, replies>> /\ list' = MarkDeleted(list, i)
          /\ told' = told \union {i}
          /\ raced' = IF i \notin Shown /\ (decrypting[i] > 0 \/ i \in replies)
                      THEN raced \union {i} ELSE raced
      BY <1>7 DEF OnDeleted
    <2> HIDE DEF i
    <2>2. /\ Shown' = Shown
          /\ \A e \in ToSet(list') : ~e.deleted => e \in ToSet(list) /\ e.id # i
      BY <1>0, <2>1, MessageIsMarked, ShownAreListed
    <2>3. ToldAreListed'
      BY <2>1, <2>2 DEF ToldAreListed
    <2>4. DeletedStaysDeleted'
      BY <2>1, <2>2 DEF DeletedStaysDeleted
    <2> QED
      BY <2>3, <2>4
  <1>8. CASE OnCleared
    BY <1>8, NothingIsTakenBack DEF OnCleared, Emptied
  <1>9. ASSUME NEW both \in BOOLEAN, Clear(both)
        PROVE  ToldAreListed' /\ DeletedStaysDeleted'
    BY <1>9, NothingIsTakenBack DEF Clear, Emptied
  <1>10. ASSUME NEW l \in Loads, HistoryShown(l)
         PROVE  ToldAreListed' /\ DeletedStaysDeleted'
    <2> DEFINE ids == load[l].ids
    <2>1. ids \in SUBSET Ids
      BY DEF ChatTypeOK
    <2>2. /\ UNCHANGED <<told, decrypting, replies>>
          /\ raced' = raced \union (ids \intersect told) \union (Returning \ ids)
          /\ \E asc \in Ascending(ids) :
               list' = [n \in DOMAIN asc |-> [id |-> asc[n], deleted |-> FALSE]]
      BY <1>10 DEF HistoryShown, netVars
    <2> HIDE DEF ids
    <2>3. IdsOf(list') = ids
      BY <2>1, <2>2, HistoryIsListed
    <2>4. ToldAreListed'
      BY <2>2, <2>3, ShownAreListed DEF ToldAreListed, Returning
    <2>5. DeletedStaysDeleted'
      <3>1. \A e \in ToSet(list') : e.id \in ids
        BY <2>3 DEF IdsOf
      <3> QED
        BY <2>2, <3>1 DEF DeletedStaysDeleted
    <2> QED
      BY <2>4, <2>5
  <1>11. ASSUME NEW l \in Loads, Open(l) \/ HistoryRead(l) \/ HistoryFails(l)
         PROVE  ToldAreListed' /\ DeletedStaysDeleted'
    BY <1>2, <1>11 DEF Open, HistoryRead, HistoryFails, netVars, ghostVars
  <1>12. ASSUME NEW i \in Ids, Erase(i)
         PROVE  ToldAreListed' /\ DeletedStaysDeleted'
    BY <1>2, <1>12 DEF Erase, viewVars, ghostVars
  <1>13. CASE PeerClears \/ EmitCleared \/ Disconnect \/ Reconnect
    BY <1>2, <1>13 DEF PeerClears, EmitCleared, Disconnect, Reconnect, viewVars, ghostVars
  <1>14. CASE ClearStored \/ ClearFails \/ UNCHANGED chatVars
    BY <1>2, <1>14 DEF ClearStored, ClearFails, viewVars, ghostVars, chatVars
  <1> QED
    BY <1>3, <1>4, <1>5, <1>6, <1>7, <1>8, <1>9, <1>10, <1>11, <1>12, <1>13, <1>14
    DEF ChatNext

(* A message that is on its way stays so, or arrives, or is missed.        *)
LEMMA FollowedStep ==
  ASSUME ChatTypeOK, EventsInOrder, StoredAreFollowed, [ChatNext]_chatVars
  PROVE  StoredAreFollowed'
  <1> DEFINE new(i) == [kind |-> "new", id |-> i]
             Under(i) == \E n \in DOMAIN events : events[n] = new(i)
             Fine(i) == i \in Shown \union unseen \/ OnItsWay(i)
  <1>0. /\ stored \in Nat /\ events \in Seq(Event) /\ list \in Seq(Entry)
        /\ decrypting \in [Ids -> Nat] /\ 1..stored \subseteq Ids
        /\ author \in [Ids -> {"me", "peer"}]
    BY MaxMessagesAssumption DEF ChatTypeOK, Ids
  <1>1. ASSUME UNCHANGED <<stored, author>>,
               Shown \union unseen \subseteq Shown' \union unseen',
               \A i \in 1..stored :
                 /\ i \in replies => i \in replies' \/ i \in Shown' \union unseen'
                 /\ decrypting[i] > 0 => decrypting'[i] > 0 \/ i \in Shown' \union unseen'
                 /\ author[i] = "peer" /\ Under(i) =>
                      Under(i)' \/ i \in unseen' \/ decrypting'[i] > 0
        PROVE  StoredAreFollowed'
    <2> SUFFICES ASSUME NEW i \in 1..stored
                 PROVE  i \in Shown' \union unseen' \/ OnItsWay(i)'
      BY <1>1 DEF StoredAreFollowed
    <2>1. i \in Shown \union unseen \/ OnItsWay(i)
      BY DEF StoredAreFollowed
    <2>2. OnItsWay(i) <=> i \in replies \/ decrypting[i] > 0 \/ (author[i] = "peer" /\ Under(i))
      BY DEF OnItsWay
    <2>3. OnItsWay(i)' <=>
            i \in replies' \/ decrypting'[i] > 0 \/ (author'[i] = "peer" /\ Under(i)')
      BY DEF OnItsWay
    <2> HIDE DEF Under
    <2> QED
      BY <1>1, <2>1, <2>2, <2>3
  <1>2. ASSUME NEW e, FollowedBy(events, events', e)
        PROVE  \A i : Under(i) => Under(i)'
    BY <1>2 DEF FollowedBy
  <1>3. ASSUME events # <<>>, events' = Tail(events), NEW i, Under(i), Head(events) # new(i)
        PROVE  Under(i)'
    <2>1. PICK n \in DOMAIN events : events[n] = new(i)
      BY <1>3
    <2>2. /\ Head(events) = events[1]
          /\ n # 1 => n - 1 \in DOMAIN events' /\ events'[n - 1] = events[n]
      BY <1>0, <1>3, HeadAndTail
    <2>3. n - 1 \in DOMAIN events' /\ events'[n - 1] = new(i)
      BY <1>3, <2>1, <2>2
    <2> QED
      BY <2>3
  <1>4. ASSUME UNCHANGED <<stored, author, list, replies, decrypting>>,
               unseen \subseteq unseen',
               \A i : Under(i) => Under(i)' \/ i \in unseen'
        PROVE  StoredAreFollowed'
    <2>1. Shown' = Shown
      BY <1>4 DEF Shown
    <2> HIDE DEF Under
    <2> QED
      BY <1>1, <1>4, <2>1
  <1>5. ASSUME UNCHANGED <<stored, author, replies, decrypting, events>>,
               Shown \union unseen \subseteq Shown' \union unseen'
        PROVE  StoredAreFollowed'
    <2>1. \A i : Under(i) => Under(i)'
      BY <1>5
    <2> HIDE DEF Under
    <2> QED
      BY <1>1, <1>5, <2>1
  <1>6. ASSUME UNCHANGED <<stored, author, list, replies, decrypting, events, unseen>>
        PROVE  StoredAreFollowed'
    <2>1. Shown' = Shown
      BY <1>6 DEF Shown
    <2> QED
      BY <1>5, <1>6, <2>1
  <1>7. ASSUME NEW who \in {"me", "peer"}, Store(who)
        PROVE  StoredAreFollowed'
    <2>0. PICK j : j = stored + 1
      OBVIOUS
    <2>1. /\ stored' = j /\ j \in Ids /\ Broadcast("new", j) /\ UNCHANGED <<decrypting, list>>
          /\ author' = [author EXCEPT ![j] = who]
          /\ replies' = IF who = "me" THEN replies \union {j} ELSE replies
          /\ unseen' = IF who = "peer" /\ ~linked THEN unseen \union {j} ELSE unseen
      BY <1>7, <2>0 DEF Store, viewVars
    <2>2. /\ FollowedBy(events, events', new(j))
          /\ linked => \E n \in DOMAIN events' : events'[n] = new(j)
      BY <1>0, <2>1, EventsAreAppended, MaxMessagesAssumption DEF Ids
    <2>3. j \notin 1..stored /\ \A i \in 1..stored' : i = j \/ i \in 1..stored
      BY <1>0, <2>0, <2>1
    <2>4. author'[j] = who /\ \A i \in 1..stored : author'[i] = author[i]
      BY <1>0, <2>1, <2>3
    <2>5. Shown' = Shown
      BY <2>1 DEF Shown
    <2>6. \A i : Under(i) => Under(i)'
      BY <1>2, <2>2
    <2>7. linked => Under(j)'
      BY <2>2
    <2>8. \A i : OnItsWay(i)' <=>
            i \in replies' \/ decrypting'[i] > 0 \/ (author'[i] = "peer" /\ Under(i)')
      BY DEF OnItsWay
    <2>9. \A i : OnItsWay(i) <=> i \in replies \/ decrypting[i] > 0 \/ (author[i] = "peer" /\ Under(i))
      BY DEF OnItsWay
    <2> HIDE DEF Under
    <2>10. \A i \in 1..stored : i \in Shown' \union unseen' \/ OnItsWay(i)'
      BY <2>1, <2>4, <2>5, <2>6, <2>8, <2>9 DEF StoredAreFollowed
    <2>11. j \in unseen' \/ OnItsWay(j)'
      <3>1. CASE who = "me"
        BY <2>1, <2>8, <3>1
      <3>2. CASE who = "peer" /\ linked
        BY <2>4, <2>7, <2>8, <3>2
      <3>3. CASE who = "peer" /\ ~linked
        BY <2>1, <3>3
      <3> QED
        BY <3>1, <3>2, <3>3
    <2> QED
      BY <2>3, <2>10, <2>11 DEF StoredAreFollowed
  <1>8. ASSUME NEW i \in Ids, Erase(i)
        PROVE  StoredAreFollowed'
    <2>1. /\ Broadcast("deleted", i)
          /\ UNCHANGED <<stored, author, list, replies, decrypting, unseen>>
      BY <1>8 DEF Erase, viewVars, ghostVars
    <2>2. FollowedBy(events, events', [kind |-> "deleted", id |-> i])
      BY <1>0, <2>1, EventsAreAppended, MaxMessagesAssumption DEF Ids
    <2>3. \A k : Under(k) => Under(k)'
      BY <1>2, <2>2
    <2> HIDE DEF Under
    <2> QED
      BY <1>4, <2>1, <2>3
  <1>9. CASE EmitCleared
    <2>1. FollowedBy(events, events', [kind |-> "cleared", id |-> 0])
      BY <1>0, <1>9, ClearIsAppended
    <2>2. UNCHANGED <<stored, author, list, replies, decrypting, unseen>>
      BY <1>9 DEF EmitCleared, serverVars, viewVars, ghostVars
    <2>3. \A k : Under(k) => Under(k)'
      BY <1>2, <2>1
    <2> HIDE DEF Under
    <2> QED
      BY <1>4, <2>2, <2>3
  <1>10. CASE Disconnect
    <2>1. /\ UNCHANGED <<stored, author, list, replies, decrypting>>
          /\ unseen' = unseen \union {e.id : e \in {f \in ToSet(events) : f.kind = "new"}}
      BY <1>10 DEF Disconnect, serverVars, viewVars
    <2>2. ASSUME NEW k, Under(k)
          PROVE  k \in unseen'
      <3>1. new(k) \in ToSet(events) /\ new(k).kind = "new" /\ new(k).id = k
        BY <2>2, Listed1
      <3> HIDE DEF new
      <3> QED
        BY <2>1, <3>1
    <2> HIDE DEF Under
    <2> QED
      BY <1>4, <2>1, <2>2
  <1>11. CASE OnNew
    <2> DEFINE k == Head(events).id
    <2>1. /\ UNCHANGED <<stored, author, list, replies, unseen>>
          /\ events # <<>> /\ Head(events).kind = "new" /\ events' = Tail(events)
          /\ decrypting' = IF author[k] = "peer" THEN [decrypting EXCEPT ![k] = @ + 1]
                                                 ELSE decrypting
      BY <1>11 DEF OnNew, Accepts, serverVars, ghostVars
    <2>2. k \in Ids
      BY <2>1, HeadIsStored
    <2>3. \A i : Head(events) = new(i) => i = k
      OBVIOUS
    <2>4. \A i : Under(i) /\ i # k => Under(i)'
      BY <1>3, <2>1, <2>3
    <2>5. Shown' = Shown
      BY <2>1 DEF Shown
    <2> HIDE DEF Under, k, new
    <2>6. /\ \A i \in Ids : decrypting'[i] >= decrypting[i]
          /\ author[k] = "peer" => decrypting'[k] > 0
      BY <1>0, <2>1, <2>2
    <2>7. \A i \in 1..stored : decrypting[i] > 0 => decrypting'[i] > 0
      <3>1. ASSUME NEW i \in Ids, decrypting[i] > 0
            PROVE  decrypting'[i] > 0
        BY <1>0, <2>1, <2>2, <3>1
      <3> QED
        BY <1>0, <3>1
    <2>8. \A i \in 1..stored : author[i] = "peer" /\ Under(i) => Under(i)' \/ decrypting'[i] > 0
      BY <2>4, <2>6
    <2> QED
      BY <1>1, <2>1, <2>5, <2>7, <2>8
  <1>12. ASSUME NEW i \in Ids, Decrypted(i)
         PROVE  StoredAreFollowed'
    <2>1. /\ UNCHANGED <<stored, author, replies, events, unseen>> /\ list' = addMessage(list, i)
          /\ decrypting' = [decrypting EXCEPT ![i] = @ - 1]
      BY <1>12 DEF Decrypted, serverVars, netVars, ghostVars
    <2>2. Shown' = Shown \union {i}
      BY <1>0, <2>1, MessageIsAdded, ShownAreListed
    <2>3. \A k \in Ids : k # i => decrypting'[k] = decrypting[k]
      BY <1>0, <2>1
    <2>4. \A k : Under(k) => Under(k)'
      BY <2>1
    <2> HIDE DEF Under
    <2> QED
      BY <1>0, <1>1, <2>1, <2>2, <2>3, <2>4
  <1>13. CASE OnDeleted
    <2>1. /\ UNCHANGED <<stored, author, replies, decrypting, unseen>>
          /\ events # <<>> /\ Head(events).kind = "deleted" /\ events' = Tail(events)
          /\ list' = MarkDeleted(list, Head(events).id)
      BY <1>13 DEF OnDeleted, serverVars
    <2>2. Shown' = Shown
      BY <1>0, <2>1, MessageIsMarked, ShownAreListed
    <2>3. \A i : Head(events) # new(i)
      BY <2>1
    <2>4. \A i : Under(i) => Under(i)'
      BY <1>3, <2>1, <2>3
    <2> HIDE DEF Under
    <2> QED
      BY <1>1, <2>1, <2>2, <2>4
  <1>14. CASE OnCleared
    <2>1. /\ UNCHANGED <<stored, author, replies, decrypting>>
          /\ events # <<>> /\ Head(events).kind = "cleared" /\ events' = Tail(events)
          /\ unseen' = unseen \union Shown
      BY <1>14 DEF OnCleared, Emptied, serverVars
    <2>2. \A i : Head(events) # new(i)
      BY <2>1
    <2>3. \A i : Under(i) => Under(i)'
      BY <1>3, <2>1, <2>2
    <2> HIDE DEF Under
    <2> QED
      BY <1>1, <2>1, <2>3
  <1>15. ASSUME NEW i \in Ids, NEW arrives \in BOOLEAN, Answered(i, arrives)
         PROVE  StoredAreFollowed'
    <2>1. /\ UNCHANGED <<stored, author, events, decrypting>> /\ replies' = replies \ {i}
          /\ list' = IF arrives THEN addMessage(list, i) ELSE list
          /\ unseen' = IF arrives THEN unseen ELSE unseen \union {i}
      BY <1>15 DEF Answered, serverVars
    <2>2. Shown' \union unseen' = Shown \union unseen \union {i}
      <3>1. CASE arrives
        BY <1>0, <2>1, <3>1, MessageIsAdded, ShownAreListed
      <3>2. CASE ~arrives
        <4>1. Shown' = Shown
          BY <2>1, <3>2 DEF Shown
        <4> QED
          BY <2>1, <3>2, <4>1
      <3> QED
        BY <3>1, <3>2
    <2>3. \A k : Under(k) => Under(k)'
      BY <2>1
    <2> HIDE DEF Under
    <2> QED
      BY <1>1, <2>1, <2>2, <2>3
  <1>16. ASSUME NEW l \in Loads, HistoryShown(l)
         PROVE  StoredAreFollowed'
    <2> DEFINE ids == load[l].ids
    <2>1. ids \in SUBSET Ids
      BY DEF ChatTypeOK
    <2>2. /\ UNCHANGED <<stored, author, replies, decrypting, events>>
          /\ unseen' = (unseen \union Shown) \ ids
          /\ \E asc \in Ascending(ids) :
               list' = [n \in DOMAIN asc |-> [id |-> asc[n], deleted |-> FALSE]]
      BY <1>16 DEF HistoryShown, serverVars, netVars
    <2> HIDE DEF ids
    <2>3. Shown' = ids
      BY <2>1, <2>2, HistoryIsListed, ShownAreListed
    <2> QED
      BY <1>5, <2>2, <2>3
  <1>17. ASSUME NEW both \in BOOLEAN, Clear(both)
         PROVE  StoredAreFollowed'
    BY <1>5, <1>17 DEF Clear, Emptied, serverVars
  <1>18. ASSUME NEW l \in Loads, Open(l) \/ HistoryRead(l) \/ HistoryFails(l)
         PROVE  StoredAreFollowed'
    BY <1>6, <1>18 DEF Open, HistoryRead, HistoryFails, serverVars, netVars, ghostVars
  <1>19. CASE PeerClears \/ Reconnect
    BY <1>6, <1>19 DEF PeerClears, Reconnect, serverVars, viewVars, ghostVars
  <1>20. CASE ClearStored \/ ClearFails \/ UNCHANGED chatVars
    BY <1>6, <1>20 DEF ClearStored, ClearFails, serverVars, viewVars, ghostVars, chatVars
  <1> QED
    BY <1>7, <1>8, <1>9, <1>10, <1>11, <1>12, <1>13, <1>14, <1>15, <1>16, <1>17, <1>18,
       <1>19, <1>20 DEF ChatNext

(* Events come in the order they were sent, what a late answer adds back   *)
(* was recorded, and a stored message is listed, missed or on its way.     *)
THEOREM ChatInductive == ChatSpec => []ChatInv
  <1>1. ASSUME ChatInv, [ChatNext]_chatVars
        PROVE  ChatInv'
    BY <1>1, ChatTypeStep, EventsStep, ListStep, FollowedStep DEF ChatInv
  <1> QED
    BY <1>1, ChatInitHolds, PTL DEF ChatSpec

(* A message whose deletion the client was told of is shown as live only   *)
(* after one of the races that raced records: OnDeleted marks what is in   *)
(* the list, and everything that comes later finds it there.               *)
THEOREM DeletionsAreShown == ChatSpec => []DeletedStaysDeleted
  <1>1. ChatInv => DeletedStaysDeleted
    BY DEF ChatInv
  <1> QED
    BY <1>1, ChatInductive, PTL

(* Once nothing is on its way, every message the server would show is in   *)
(* the list or among those that were missed: addMessage drops nothing, and *)
(* the answer of a request drops only what it replaces.                    *)
THEOREM NothingElseIsLost == ChatSpec => []NothingElseMissing
  <1>1. ASSUME ChatInv
        PROVE  NothingElseMissing
    <2> SUFFICES ASSUME Quiet, NEW i \in Visible
                 PROVE  i \in Shown \union unseen
      BY DEF NothingElseMissing
    <2>1. i \in 1..stored /\ i \in Ids
      BY <1>1, MaxMessagesAssumption DEF Visible, ChatInv, ChatTypeOK, Ids
    <2>2. i \notin replies /\ decrypting[i] = 0 /\ DOMAIN events = {}
      BY <2>1 DEF Quiet
    <2>3. ~OnItsWay(i)
      BY <2>2 DEF OnItsWay
    <2> QED
      BY <1>1, <2>1, <2>3 DEF ChatInv, StoredAreFollowed
  <1> QED
    BY <1>1, ChatInductive, PTL

(***************************************************************************)
(* The combined specification of the run.                                  *)
(***************************************************************************)

(* A behaviour of the combined specification is one of each component, so  *)
(* what was proved of the components holds of it too.                      *)
THEOREM ClientPartsBehave ==
  Spec => /\ ChatSpec /\ SelectionSpec /\ RowsSpec /\ RecorderSpec /\ StorageSpec
          /\ ViewSpec /\ DirectSpec /\ RatchetSpec /\ PinsSpec
<1>1. Init => /\ ChatInit /\ SelectionInit /\ RowsInit /\ RecorderInit /\ StorageInit
              /\ ViewInit /\ DirectInit /\ RatchetInit /\ PinsInit
  BY DEF Init
<1>2. [Next]_<<part, partVars>>
        => /\ [ChatNext]_chatVars /\ [SelectionNext]_selectionVars /\ [RowsNext]_rowVars
           /\ [RecorderNext]_recorderVars /\ [StorageNext]_storageVars
           /\ [ViewNext]_shownVars /\ [DirectNext]_directVars
           /\ [RatchetNext]_ratchetVars /\ [PinsNext]_pinVars
  BY DEF Next, partVars
<1> QED
  BY <1>1, <1>2, PTL
     DEF Spec, ChatSpec, SelectionSpec, RowsSpec, RecorderSpec, StorageSpec, ViewSpec,
         DirectSpec, RatchetSpec, PinsSpec

(* What moves has the types its component declares, for any messages,      *)
(* requests, takes, uploads, chats, keys and pins.                         *)
THEOREM ClientTyped == Spec => []ClientTypesOK
<1>1. Spec => [](part \in ClientParts)
  <2>1. Init => part \in ClientParts
    BY DEF Init
  <2>2. part \in ClientParts /\ [Next]_<<part, partVars>> => (part \in ClientParts)'
    BY DEF Next
  <2> QED
    BY <2>1, <2>2, PTL DEF Spec
<1>2. StorageTypes /\ ViewInv => AttachmentsTypeOK
  BY DEF StorageTypes, ViewInv, AttachmentsTypeOK
<1>3. /\ part \in ClientParts
      /\ ChatInv /\ SelectionInv /\ RowsInv /\ RecorderInv /\ AttachmentsTypeOK
      /\ DirectInv /\ RatchetTypeOK /\ PinsInv
      => ClientTypesOK
  BY DEF ClientParts, ClientTypesOK, ChatInv, SelectionInv, RowsInv, RecorderInv, DirectInv,
         PinsInv
<1> QED
  BY <1>1, <1>2, <1>3, ClientPartsBehave, ChatInductive, SelectionInductive, RowsInductive,
     RecorderInductive, StorageTyped, ViewInductive, DirectInductive, RatchetTyped,
     PinsInductive, PTL
================================================================================

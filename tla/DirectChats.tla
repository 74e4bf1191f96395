------------------------------ MODULE DirectChats ------------------------------
(***************************************************************************)
(* The direct chats of two users: opening one, which creates it with a     *)
(* fresh conversation key sealed to both or finds the one there is; the    *)
(* key cache of each client; sending, which brings a hidden chat back;     *)
(* hiding, deleting and blocking.                                          *)
(*                                                                         *)
(* A direct chat keeps one key version.  Of its messages the model has     *)
(* those stored after a member hid it.  The chat with the support bot,     *)
(* which has no keys, is not one of these.  Sources: server/src/services/      *)
(* conversation.service.ts and message.service.ts; in client/src,          *)
(* lib/conversations.ts, lib/crypto/conversationKeys.ts and                *)
(* components/chat/ChatHeader.tsx.                                         *)
(*                                                                         *)
(* "Bug:" marks a definition that is not part of the specification: the    *)
(* next one with a plausible mistake, for checking the properties.         *)
(***************************************************************************)
EXTENDS Naturals, FiniteSets

CONSTANTS
  Users,  \* the two users, one client each
  DMs,    \* conversation ids
  NoDM,
  MaxCKs  \* bound on the conversation keys generated

ASSUME DirectBounds ==
  /\ Cardinality(Users) = 2 /\ NoDM \notin DMs
  /\ MaxCKs \in Nat

VARIABLES
  dms,        \* conversation rows
  sealed,     \* the key in the wraps of each chat
  generated,  \* keys generated so far
  opening,    \* each client's POST /conversations/dm
  cached,     \* each client's key cache
  hiddenFor,  \* members with isHidden
  missed,     \* members with isHidden and a message stored since
  forwarded,  \* those whom a forwarded one passed by (both for the properties)
  blockedBy,  \* members with isBlocked
  posting,    \* each client's POST /messages
  stopped     \* a send failed between its writes (for the properties)

keyVars    == <<dms, sealed, generated, opening, cached>>
sendVars   == <<posting, stopped>>
hidingVars == <<hiddenFor, missed, forwarded>>
directVars == <<keyVars, sendVars, hidingVars, blockedBy>>

Opening == [pc : {"idle", "asked", "found", "absent", "existing", "created"},
            ck : 0..MaxCKs, dm : DMs \union {NoDM}]
Sending == [pc : {"idle", "asked", "allowed", "stored"}, dm : DMs \union {NoDM}]
NotOpening == [pc |-> "idle", ck |-> 0, dm |-> NoDM]
NotSending == [pc |-> "idle", dm |-> NoDM]

DirectTypeOK ==
  /\ dms \subseteq DMs /\ generated \in 0..MaxCKs
  /\ sealed \in [DMs -> 0..MaxCKs]
  /\ opening \in [Users -> Opening]
  /\ cached \in [Users -> [DMs -> 0..MaxCKs]]
  /\ hiddenFor \in [DMs -> SUBSET Users] /\ blockedBy \in [DMs -> SUBSET Users]
  /\ missed \in [DMs -> SUBSET Users] /\ forwarded \in [DMs -> SUBSET Users]
  /\ posting \in [Users -> Sending] /\ stopped \in BOOLEAN

DirectInit ==
  /\ dms = {} /\ generated = 0 /\ stopped = FALSE
  /\ sealed = [d \in DMs |-> 0]
  /\ opening = [u \in Users |-> NotOpening]
  /\ cached = [u \in Users |-> [d \in DMs |-> 0]]
  /\ hiddenFor = [d \in DMs |-> {}] /\ blockedBy = [d \in DMs |-> {}]
  /\ missed = [d \in DMs |-> {}] /\ forwarded = [d \in DMs |-> {}]
  /\ posting = [u \in Users |-> NotSending]

(***************************************************************************)
(* Opening a chat.                                                         *)
(***************************************************************************)

To(u, pc) == opening' = [opening EXCEPT ![u].pc = pc]

(* createDirectConversation, up to its request.                            *)
OpenDM(u) ==
  /\ opening[u].pc = "idle" /\ generated < MaxCKs
  /\ generated' = generated + 1
  /\ opening' = [opening EXCEPT ![u] = [NotOpening EXCEPT !.pc = "asked",
                                                          !.ck = generated + 1]]
  /\ UNCHANGED <<dms, sealed, cached, sendVars, hidingVars, blockedBy>>

(* getOrCreateDM: findFirst, of any direct chat both are members of.       *)
FindDM(u) ==
  /\ opening[u].pc = "asked"
  /\ \/ dms = {} /\ To(u, "absent")
     \/ \E d \in dms :
          opening' = [opening EXCEPT ![u] = [@ EXCEPT !.dm = d,
                        !.pc = IF u \in hiddenFor[d] THEN "found" ELSE "existing"]]
  /\ UNCHANGED <<dms, sealed, generated, cached, sendVars, hidingVars, blockedBy>>

(* The update of the member row fails if the chat was deleted meanwhile.   *)
ReopenDM(u) ==
  LET d == opening[u].dm IN
  /\ opening[u].pc = "found"
  /\ IF d \in dms
     THEN /\ hiddenFor' = [hiddenFor EXCEPT ![d] = @ \ {u}]
          /\ missed' = [missed EXCEPT ![d] = @ \ {u}]
          /\ forwarded' = [forwarded EXCEPT ![d] = @ \ {u}]
          /\ To(u, "existing")
     ELSE /\ opening' = [opening EXCEPT ![u] = NotOpening]
          /\ UNCHANGED hidingVars
  /\ UNCHANGED <<dms, sealed, generated, cached, sendVars, blockedBy>>

(* Conversation, members and wraps in one create.                          *)
CreateDM(u) ==
  /\ opening[u].pc = "absent"
  /\ \E d \in DMs \ dms :
       /\ sealed[d] = 0
       /\ dms' = dms \union {d}
       /\ sealed' = [sealed EXCEPT ![d] = opening[u].ck]
       /\ opening' = [opening EXCEPT ![u] = [@ EXCEPT !.dm = d, !.pc = "created"]]
  /\ UNCHANGED <<generated, cached, sendVars, hidingVars, blockedBy>>

(* Bug: the key is kept whether the chat is new or not.                    *)
EveryAnswer(u) == opening[u].pc \in {"existing", "created"}

(* primeCK only after a 201.                                               *)
Primes(u) == opening[u].pc = "created"

Opened(u) ==
  /\ opening[u].pc \in {"existing", "created"}
  /\ cached' = IF Primes(u) THEN [cached EXCEPT ![u][opening[u].dm] = opening[u].ck]
                            ELSE cached
  /\ opening' = [opening EXCEPT ![u] = NotOpening]
  /\ UNCHANGED <<dms, sealed, generated, sendVars, hidingVars, blockedBy>>

(* The answer is lost, or the request is refused before it is looked up.   *)
OpenFails(u) ==
  /\ opening[u].pc # "idle"
  /\ opening' = [opening EXCEPT ![u] = NotOpening]
  /\ UNCHANGED <<dms, sealed, generated, cached, sendVars, hidingVars, blockedBy>>

(* getCK: a miss fetches the wraps of the chat and opens them.             *)
GetCK(u, d) ==
  /\ d \in dms /\ cached[u][d] = 0
  /\ cached' = [cached EXCEPT ![u][d] = sealed[d]]
  /\ UNCHANGED <<dms, sealed, generated, opening, sendVars, hidingVars, blockedBy>>

(***************************************************************************)
(* Sending.                                                                *)
(***************************************************************************)

(* handleSend encrypts first.                                              *)
Send(u, d) ==
  /\ posting[u].pc = "idle" /\ cached[u][d] # 0
  /\ posting' = [posting EXCEPT ![u] = [pc |-> "asked", dm |-> d]]
  /\ UNCHANGED <<keyVars, stopped, hidingVars, blockedBy>>

(* sendMessage reads the member and the conversation with all its members. *)
Deliverable(d) == d \in dms /\ blockedBy[d] = {}

SendAllowed(u) ==
  LET d == posting[u].dm IN
  /\ posting[u].pc = "asked"
  /\ posting' = [posting EXCEPT ![u] = IF Deliverable(d) THEN [@ EXCEPT !.pc = "allowed"]
                                       ELSE NotSending]
  /\ UNCHANGED <<keyVars, stopped, hidingVars, blockedBy>>

(* message.create, which fails if the chat is gone.                        *)
StoreMessage(u) ==
  LET d == posting[u].dm IN
  /\ posting[u].pc = "allowed"
  /\ IF d \in dms
     THEN /\ missed' = [missed EXCEPT ![d] = hiddenFor[d]]
          /\ posting' = [posting EXCEPT ![u].pc = "stored"]
     ELSE /\ posting' = [posting EXCEPT ![u] = NotSending]
          /\ UNCHANGED missed
  /\ UNCHANGED <<keyVars, stopped, hiddenFor, forwarded, blockedBy>>

(* Bug: the chat comes back for the sender.                                *)
Reappears(u) == {u}

BackFor(u) == Users

(* The transaction with updatedAt, which fails if the chat is gone.        *)
Unhide(u) ==
  LET d == posting[u].dm IN
  /\ posting[u].pc = "stored"
  /\ hiddenFor' = [hiddenFor EXCEPT ![d] = @ \ BackFor(u)]
  /\ missed' = [missed EXCEPT ![d] = @ \ BackFor(u)]
  /\ forwarded' = [forwarded EXCEPT ![d] = @ \ BackFor(u)]
  /\ posting' = [posting EXCEPT ![u] = NotSending]
  /\ UNCHANGED <<keyVars, stopped, blockedBy>>

(* The server stops, or a query fails, between the two writes.             *)
SendStops(u) ==
  /\ posting[u].pc = "stored"
  /\ stopped' = TRUE
  /\ posting' = [posting EXCEPT ![u] = NotSending]
  /\ UNCHANGED <<keyVars, hidingVars, blockedBy>>

(* forwardMessage stores like a send, but asks nothing about a block and   *)
(* shows the chat to nobody.                                               *)
Forward(d) ==
  /\ d \in dms
  /\ missed' = [missed EXCEPT ![d] = hiddenFor[d]]
  /\ forwarded' = [forwarded EXCEPT ![d] = hiddenFor[d]]
  /\ UNCHANGED <<keyVars, sendVars, hiddenFor, blockedBy>>

(***************************************************************************)
(* Hiding, deleting and blocking.                                          *)
(***************************************************************************)

(* deleteConversation, with or without the history.                        *)
Hide(u, d) ==
  /\ d \in dms
  /\ hiddenFor' = [hiddenFor EXCEPT ![d] = @ \union {u}]
  /\ missed' = [missed EXCEPT ![d] = @ \ {u}]
  /\ forwarded' = [forwarded EXCEPT ![d] = @ \ {u}]
  /\ UNCHANGED <<keyVars, sendVars, blockedBy>>

(* hardDelete; the schema cascades to members, keys and messages.          *)
HardDelete(d) ==
  /\ d \in dms
  /\ dms' = dms \ {d}
  /\ hiddenFor' = [hiddenFor EXCEPT ![d] = {}]
  /\ missed' = [missed EXCEPT ![d] = {}]
  /\ forwarded' = [forwarded EXCEPT ![d] = {}]
  /\ blockedBy' = [blockedBy EXCEPT ![d] = {}]
  /\ UNCHANGED <<sealed, generated, opening, cached, sendVars>>

(* blockConversation and unblockConversation.                              *)
Block(u, d) ==
  /\ d \in dms
  /\ \E b \in SUBSET Users :
       b \ {u} = blockedBy[d] \ {u} /\ blockedBy' = [blockedBy EXCEPT ![d] = b]
  /\ UNCHANGED <<keyVars, sendVars, hidingVars>>

DirectNext ==
  \E u \in Users :
    \/ OpenDM(u) \/ FindDM(u) \/ ReopenDM(u) \/ CreateDM(u) \/ Opened(u) \/ OpenFails(u)
    \/ SendAllowed(u) \/ StoreMessage(u) \/ Unhide(u) \/ SendStops(u)
    \/ \E d \in DMs : \/ GetCK(u, d) \/ Send(u, d) \/ Hide(u, d) \/ HardDelete(d)
                      \/ Block(u, d) \/ Forward(d)

DirectSpec == DirectInit /\ [][DirectNext]_directVars

(***************************************************************************)
(* Properties.                                                             *)
(***************************************************************************)

(* A client encrypts under the key the other member holds: a cached key is *)
(* the one the server keeps wraps of, though both clients generate a key   *)
(* at every opening, at the same time too, and only the first is stored.   *)
OneKeyPerChat ==
  \A u \in Users, d \in DMs : cached[u][d] \in {0, sealed[d]}

(* The two clients and the server agree on the key of a chat: of the keys  *)
(* generated for it one is stored, once, which is stored for no other, and *)
(* whatever a client caches is that one.                                   *)
ChatKeys == INSTANCE KeyAgreement
  WITH Slots <- DMs, Keys <- 1..MaxCKs, NoKey <- 0, Holders <- Users,
       chosen <- sealed, held <- cached, lasting <- TRUE

ChatKeysAreAgreed == ChatKeys!AgreementSpec

(* A message that is sent brings its chat back for everyone who hid it: a  *)
(* chat hidden for a member holds nothing newer than the hiding, unless a  *)
(* send is, or was interrupted, between its writes, or a message was       *)
(* forwarded to the chat since.                                            *)
NoMessageStaysHidden ==
  \A d \in dms : \/ missed[d] \subseteq forwarded[d]
                 \/ stopped
                 \/ \E v \in Users : posting[v] = [pc |-> "stored", dm |-> d]

(***************************************************************************)
(* The inductive invariant behind them.                                    *)
(***************************************************************************)

(* The wraps of a created chat hold the key its creator goes on to keep.   *)
KeysFresh ==
  \A u \in Users :
    /\ opening[u].pc # "idle" => opening[u].ck # 0
    /\ opening[u].pc = "created" => /\ opening[u].dm \in DMs
                                   /\ sealed[opening[u].dm] = opening[u].ck

(* A key is generated for one opening and stored by no other.              *)
KeysUsedOnce ==
  /\ \A d \in DMs : sealed[d] <= generated
  /\ \A u \in Users : opening[u].ck <= generated
  /\ \A u, v \in Users : opening[u].ck # 0 /\ opening[u].ck = opening[v].ck => u = v
  /\ \A u \in Users, d \in DMs :
       sealed[d] # 0 /\ sealed[d] = opening[u].ck => opening[u].pc = "created"

MissedAreHidden ==
  /\ \A d \in DMs : missed[d] \subseteq hiddenFor[d]
  /\ \A d \in DMs \ dms : missed[d] = {}

DirectInv ==
  /\ DirectTypeOK /\ KeysFresh /\ KeysUsedOnce /\ MissedAreHidden
  /\ OneKeyPerChat /\ NoMessageStaysHidden
================================================================================

------------------------------- MODULE Ratchet -------------------------------
(***************************************************************************)
(* The double ratchet of a pairwise session, over a server that may drop,  *)
(* delay, reorder and repeat envelopes.                                    *)
(*                                                                         *)
(* Keys are symbolic: a key pair is a number, a DH output the set of the   *)
(* two pairs, a root key the sequence of outputs mixed into the shared     *)
(* secret, a chain key the root it came from and the steps since.  So two  *)
(* keys are equal exactly when both parties derived them alike.  A call    *)
(* runs to its end before the session's next one, as the tests await it.   *)
(* Sources: client/src/lib/crypto/ratchet.ts, session.ts, x3dh.ts,         *)
(* primitives.ts.  "Bug:" marks mistaken versions of definitions.          *)
(***************************************************************************)
EXTENDS Naturals, Sequences, FiniteSets, Functions

CONSTANTS
  Alice, Bob,    \* initiator and responder
  MaxSent,    \* messages a party encrypts (bound)
  MaxDhKeys,  \* ratchet key pairs generated (bound)
  MaxSkip,    \* MAX_SKIP
  MaxRepeats  \* envelopes handed over again, and refusals (bound)

ASSUME PartiesAssumption == Alice # Bob
ASSUME BoundsAssumption ==
  /\ MaxSent \in Nat /\ MaxDhKeys \in Nat \ {0}
  /\ MaxSkip \in Nat /\ MaxRepeats \in Nat

VARIABLES
  state,    \* RatchetState of each party
  pairs,    \* key pairs generated so far; 0 is Bob's signed pre-key
  wire,     \* every envelope encrypted; the server may hand any of them over
  plain,    \* what decrypt returned to each party, in that order
  refused,  \* decrypts that threw
  repeated  \* an envelope reached a party again (for the properties)

ratchetVars == <<state, pairs, wire, plain, refused, repeated>>

RatchetParties == {Alice, Bob}
Peer(p) == IF p = Alice THEN Bob ELSE Alice

None == [key |-> "none"]   \* a null chain
NoKey == MaxDhKeys + 1       \* a null ratchet key

dh(k, l) == {k, l}
SharedSecret == << >>
ChainOf(root) == [key |-> "chain", root |-> root, step |-> 0]
kdfChainKey(c) == [c EXCEPT !.step = @ + 1]
MessageKey(c) == [c EXCEPT !.key = "message"]

(* initRatchetInitiator after x3dhInitiator, with Bob's bundle.            *)
InitiatorState ==
  [root |-> SharedSecret, self |-> 1, remote |-> 0, sendChain |-> None,
   recvChain |-> None, sendN |-> 0, recvN |-> 0, prevN |-> 0,
   skipped |-> << >>]

(* initRatchetResponder after x3dhResponder, which every envelope of the   *)
(* initiator carries the header for.                                       *)
ResponderState == [InitiatorState EXCEPT !.self = 0, !.remote = NoKey]

RatchetInit ==
  /\ state = [p \in RatchetParties |->
                IF p = Alice THEN InitiatorState ELSE ResponderState]
  /\ pairs = 1
  /\ wire = {}
  /\ plain = [p \in RatchetParties |-> << >>]
  /\ refused = 0
  /\ repeated = FALSE

Sent(p) == {e \in wire : e.from = p}

-----------------------------------------------------------------------------
(* Encrypting.                                                             *)

WithSendChain(s) ==
  IF s.sendChain # None THEN s
  ELSE LET root == Append(s.root, dh(s.self, s.remote))
       IN  [s EXCEPT !.root = root, !.sendChain = ChainOf(root)]

(* ensureSendChain throws for the responder until it has decrypted once.   *)
MaySend(s) == s.sendChain # None \/ s.remote # NoKey

ratchetEncrypt(p) ==
  LET s == WithSendChain(state[p]) IN
  /\ Cardinality(Sent(p)) < MaxSent
  /\ MaySend(state[p])
  /\ wire' = wire \union
       {[from |-> p, dhPub |-> s.self, pn |-> s.prevN, n |-> s.sendN,
         key |-> MessageKey(s.sendChain), body |-> Cardinality(Sent(p)) + 1]}
  /\ state' = [state EXCEPT ![p] =
       [s EXCEPT !.sendChain = kdfChainKey(@), !.sendN = @ + 1]]
  /\ UNCHANGED <<pairs, plain, refused, repeated>>

-----------------------------------------------------------------------------
(* Decrypting.                                                             *)

TooMany(s, until) == s.recvChain # None /\ s.recvN + MaxSkip < until

(* The keys of the messages from recvN up to until, kept for later.        *)
Stash(s, until) ==
  [id \in {<<s.remote, n>> : n \in s.recvN..(until - 1)} |->
     MessageKey([s.recvChain EXCEPT !.step = @ + (id[2] - s.recvN)])]

skipMessageKeys(s, until) ==
  IF s.recvChain = None \/ until <= s.recvN THEN s
  ELSE [s EXCEPT !.recvChain.step = @ + (until - s.recvN), !.recvN = until,
                 !.skipped = [id \in DOMAIN s.skipped \union DOMAIN Stash(s, until) |->
                   IF id \in DOMAIN Stash(s, until) THEN Stash(s, until)[id]
                   ELSE s.skipped[id]]]

(* Bug: the rest of the chain that ends is not kept.                       *)
DropsOldChain(s, e, fresh) ==
  LET recvRoot == Append(s.root, dh(s.self, e.dhPub))
      sendRoot == Append(recvRoot, dh(fresh, e.dhPub))
  IN  [s EXCEPT !.root = sendRoot, !.self = fresh, !.remote = e.dhPub,
                !.sendChain = ChainOf(sendRoot),
                !.recvChain = ChainOf(recvRoot),
                !.sendN = 0, !.recvN = 0, !.prevN = s.sendN]

dhRatchetStep(s, e, fresh) ==
  LET skipping == skipMessageKeys(s, e.pn)
      recvRoot == Append(s.root, dh(s.self, e.dhPub))
      sendRoot == Append(recvRoot, dh(fresh, e.dhPub))
  IN  [skipping EXCEPT !.root = sendRoot, !.self = fresh, !.remote = e.dhPub,
                       !.sendChain = ChainOf(sendRoot),
                       !.recvChain = ChainOf(recvRoot),
                       !.sendN = 0, !.recvN = 0, !.prevN = s.sendN]

KeptFor(s, e) == <<e.dhPub, e.n>> \in DOMAIN s.skipped

(* Bug: a stashed key stays after its message.                             *)
KeepsKey(s, e) == s

Forget(s, e) ==
  [s EXCEPT !.skipped = Restrict(@, DOMAIN @ \ {<<e.dhPub, e.n>>})]

(* decrypt has derived k and tries it on e.                                *)
Result(p, e, k) ==
  /\ repeated' = (repeated \/ e.body \in Range(plain[p]))
  /\ IF k = e.key
     THEN /\ plain' = [plain EXCEPT ![p] = Append(@, e.body)]
          /\ UNCHANGED refused
     ELSE /\ refused < MaxRepeats
          /\ refused' = refused + 1
          /\ UNCHANGED plain

trySkipped(p, e) ==
  /\ KeptFor(state[p], e)
  /\ Result(p, e, state[p].skipped[<<e.dhPub, e.n>>])
  /\ state' = [state EXCEPT ![p] = Forget(state[p], e)]
  /\ UNCHANGED <<pairs, wire>>

IsNewKey(s, e) == e.dhPub # s.remote

(* The state after step 2 of ratchetDecrypt.                               *)
Turned(s, e) ==
  IF IsNewKey(s, e) THEN dhRatchetStep(s, e, pairs + 1) ELSE s

ratchetDecrypt(p, e) ==
  LET s == Turned(state[p], e)
      t == skipMessageKeys(s, e.n)
  IN
  /\ ~KeptFor(state[p], e)
  /\ IsNewKey(state[p], e) => ~TooMany(state[p], e.pn) /\ pairs < MaxDhKeys
  /\ ~TooMany(s, e.n)
  /\ pairs' = IF IsNewKey(state[p], e) THEN pairs + 1 ELSE pairs
  /\ Result(p, e, MessageKey(t.recvChain))
  /\ state' = [state EXCEPT ![p] =
       [t EXCEPT !.recvChain = kdfChainKey(@), !.recvN = @ + 1]]
  /\ UNCHANGED wire

(* "Too many skipped messages": thrown in the old chain nothing has        *)
(* changed, thrown in the new one the ratchet has turned.                  *)
TooManySkipped(p, e) ==
  /\ ~KeptFor(state[p], e)
  /\ refused < MaxRepeats
  /\ refused' = refused + 1
  /\ IF IsNewKey(state[p], e) /\ TooMany(state[p], e.pn)
     THEN UNCHANGED <<state, pairs>>
     ELSE /\ TooMany(Turned(state[p], e), e.n)
          /\ IsNewKey(state[p], e) => pairs < MaxDhKeys
          /\ state' = [state EXCEPT ![p] = Turned(state[p], e)]
          /\ pairs' = IF IsNewKey(state[p], e) THEN pairs + 1 ELSE pairs
  /\ repeated' = (repeated \/ e.body \in Range(plain[p]))
  /\ UNCHANGED <<wire, plain>>

RatchetNext ==
  \E p \in RatchetParties :
    \/ ratchetEncrypt(p)
    \/ \E e \in Sent(Peer(p)) :
         \/ trySkipped(p, e)
         \/ ratchetDecrypt(p, e)
         \/ TooManySkipped(p, e)

RatchetSpec == RatchetInit /\ [][RatchetNext]_ratchetVars

-----------------------------------------------------------------------------
RatchetTypeOK ==
  /\ pairs \in 1..MaxDhKeys
  /\ refused \in 0..MaxRepeats
  /\ repeated \in BOOLEAN
  /\ \A p \in RatchetParties :
       /\ state[p].self \in 0..pairs
       /\ state[p].remote \in (0..pairs) \union {NoKey}
       /\ \A id \in DOMAIN state[p].skipped :
            state[p].skipped[id].key = "message"
       /\ Len(plain[p]) <= Cardinality(Sent(Peer(p)))

(* The ratchet is the channel its callers are promised: decrypt returns    *)
(* only what was encrypted, each message once, whatever the server does,   *)
(* an envelope handed over twice included.                                 *)
Channel == INSTANCE SecureChannel
  WITH Parties <- RatchetParties,
       written <- [p \in RatchetParties |-> Cardinality(Sent(p))],
       read    <- plain

ReadsOnce == Channel!ChannelSpec

(* The key p would try on e, and whether it gets that far.                 *)
Opens(p, e) ==
  LET s == Turned(state[p], e) IN
  IF KeptFor(state[p], e)
  THEN state[p].skipped[<<e.dhPub, e.n>>] = e.key
  ELSE \/ IsNewKey(state[p], e) /\ TooMany(state[p], e.pn)
       \/ TooMany(s, e.n)
       \/ MessageKey(skipMessageKeys(s, e.n).recvChain) = e.key

(* Envelopes may arrive in any order and some never: as long as none       *)
(* arrives twice, every one still under way opens when it comes, unless    *)
(* more than MAX_SKIP before it are missing.                               *)
AnyOrderOpens ==
  ~repeated => \A p \in RatchetParties : \A e \in Sent(Peer(p)) :
    e.body \in Range(plain[p]) \/ Opens(p, e)
-----------------------------------------------------------------------------
(* The inductive invariant behind ReadsOnce.                               *)

Roots == Seq(SUBSET Nat)
Chains == [key : {"chain"}, root : Roots, step : Nat]
MessageKeys == [key : {"message"}, root : Roots, step : Nat]

IsRatchetState(s) ==
  /\ s = [root |-> s.root, self |-> s.self, remote |-> s.remote,
          sendChain |-> s.sendChain, recvChain |-> s.recvChain, sendN |-> s.sendN,
          recvN |-> s.recvN, prevN |-> s.prevN, skipped |-> s.skipped]
  /\ s.root \in Roots /\ s.self \in 0..MaxDhKeys /\ s.remote \in 0..NoKey
  /\ s.sendChain \in Chains \union {None} /\ s.recvChain \in Chains \union {None}
  /\ s.sendN \in Nat /\ s.recvN \in Nat /\ s.prevN \in Nat
  /\ s.skipped \in [DOMAIN s.skipped -> MessageKeys]

(* The key of a message that came before the next one of the receiving     *)
(* chain.                                                                  *)
Older(k, s) == \/ Len(k.root) < Len(s.recvChain.root)
               \/ k.root = s.recvChain.root /\ k.step < s.recvN

(* The receiving chain is as long as recvN says, and no older than the     *)
(* keys kept, each of which is kept once.                                  *)
InOrder(s) ==
  IF s.recvChain = None THEN DOMAIN s.skipped = {}
  ELSE /\ s.recvChain.step = s.recvN /\ Len(s.recvChain.root) <= Len(s.root)
       /\ \A id \in DOMAIN s.skipped : Older(s.skipped[id], s)
       /\ \A i, j \in DOMAIN s.skipped : s.skipped[i] = s.skipped[j] => i = j

(* The party will not derive k again.                                      *)
Spent(k, s) ==
  /\ s.recvChain # None /\ Older(k, s)
  /\ \A id \in DOMAIN s.skipped : s.skipped[id] # k

(* An envelope is the only one with its number, and the first of Bob's     *)
(* turns the ratchet of Alice, as hers turned his.                         *)
EnvelopesAreNumbered ==
  /\ IsFiniteSet(wire)
  /\ wire \subseteq [from : RatchetParties, dhPub : 0..MaxDhKeys, pn : Nat, n : Nat,
                     key : MessageKeys, body : Nat]
  /\ \A e \in wire : e.body \in 1..Cardinality(Sent(e.from))
  /\ \A e, f \in wire : e.from = f.from /\ e.body = f.body => e = f

AliceTurnsFirst ==
  /\ state[Alice].recvChain = None => state[Alice].remote = 0
  /\ IF state[Bob].recvChain = None
     THEN state[Bob].remote = NoKey /\ state[Bob].sendChain = None
     ELSE state[Bob].self # 0
  /\ \A e \in Sent(Bob) : e.dhPub # 0

(* What was read was read with a key that is spent.                        *)
ReadKeysAreSpent ==
  \A p \in RatchetParties : \A m \in Range(plain[p]) :
    \E e \in Sent(Peer(p)) : e.body = m /\ Spent(e.key, state[p])

ReadInv ==
  /\ DOMAIN state = RatchetParties
  /\ \A p \in RatchetParties : IsRatchetState(state[p]) /\ InOrder(state[p])
  /\ pairs \in 1..MaxDhKeys /\ plain \in [RatchetParties -> Seq(Nat)]
  /\ EnvelopesAreNumbered /\ AliceTurnsFirst /\ ReadKeysAreSpent
-----------------------------------------------------------------------------
(* The inductive invariant behind AnyOrderOpens.  As long as nothing was   *)
(* handed over twice the two parties take turns: the key pairs 1, 2, ...   *)
(* are theirs alternately, and both derive the root of each from the pair  *)
(* and the one before it.                                                  *)

RootOf(k) == [i \in 1..k |-> dh(i - 1, i)]
ChainAt(k, n) == [key |-> "chain", root |-> RootOf(k), step |-> n]
KeyAt(k, n) == MessageKey(ChainAt(k, n))

(* A state of a party that has taken its turns only.                       *)
TakesTurns(s) ==
  /\ s.self = 0 => s.remote = NoKey /\ s.sendChain = None
  /\ s.self # 0 => s.remote = s.self - 1
  /\ s.recvChain = IF s.self < 2 THEN None ELSE ChainAt(s.self - 1, s.recvN)
  /\ \/ s.sendChain = None /\ s.self < 2 /\ s.sendN = 0 /\ s.root = RootOf(0)
     \/ s.sendChain = ChainAt(s.self, s.sendN) /\ s.self # 0 /\ s.root = RootOf(s.self)
  /\ \A id \in DOMAIN s.skipped : s.skipped[id] = KeyAt(id[1], id[2])

(* What p sent is numbered along its chains, and carries their keys.       *)
SentInTurn(p) ==
  \A e \in Sent(p) :
    /\ e.key = KeyAt(e.dhPub, e.n) /\ e.dhPub # 0
    /\ \/ /\ e.dhPub = state[p].self /\ state[p].sendChain # None
          /\ e.n < state[p].sendN /\ e.pn = state[p].prevN
       \/ e.dhPub + 2 = state[p].self /\ e.n < state[p].prevN
       \/ e.dhPub + 2 < state[p].self

(* p read what came before the next message of its receiving chain, or     *)
(* keeps its key.                                                          *)
Behind(s, e) == e.dhPub + 1 < s.self \/ (e.dhPub + 1 = s.self /\ e.n < s.recvN)

BehindIsReadOrKept(p) ==
  \A e \in Sent(Peer(p)) :
    Behind(state[p], e) => e.body \in Range(plain[p]) \/ KeptFor(state[p], e)

InTurn ==
  /\ \E p \in RatchetParties : /\ state[p].self = pairs
                               /\ state[Peer(p)].self + 1 = pairs
  /\ \A p \in RatchetParties :
       /\ TakesTurns(state[p]) /\ SentInTurn(p) /\ BehindIsReadOrKept(p)
       /\ state[p].sendChain = None => state[Peer(p)].self < 2
       /\ state[p].self = state[Peer(p)].self + 1 => state[p].recvN <= state[Peer(p)].sendN
  /\ \A e, f \in wire : e.from = f.from /\ e.dhPub = f.dhPub /\ e.n = f.n => e = f

OpenInv == ReadInv /\ (~repeated => InTurn)
=============================================================================

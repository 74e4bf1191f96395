----------------------------- MODULE RatchetProofs -----------------------------
(***************************************************************************)
(* The double ratchet implements the channel that SecureChannel promises,  *)
(* for any number of messages, key pairs, skipped keys and repetitions.    *)
(*                                                                         *)
(* A message that was read was opened with a key that is spent: it is      *)
(* older than the receiving chain and not among the keys kept.  Whatever a *)
(* party does with its state keeps spent keys spent, and what decrypt      *)
(* tries next is not spent; so it never opens a message twice.             *)
(*                                                                         *)
(* As long as nothing is handed over twice, the parties take turns, and an *)
(* envelope that was not read is found in one of three places, in each of  *)
(* which its key is kept or can be derived.                                *)
(***************************************************************************)
EXTENDS Ratchet, FiniteSetTheorems, TLAPS

(* From s to t, a ratchet state stays one and no spent key comes back.     *)
Keeps(s, t) ==
  /\ IsRatchetState(t) /\ InOrder(t)
  /\ \A k \in MessageKeys : Spent(k, s) => Spent(k, t)

LEMMA ChainsAreNotNone ==
  ASSUME NEW c \in Chains \union {None}
  PROVE  c # None <=> c \in Chains
BY DEF Chains, None

(* The keys of the messages in between are kept, and the chain moves on.   *)
LEMMA SkipKeeps ==
  ASSUME NEW s, IsRatchetState(s), InOrder(s), NEW until \in Nat
  PROVE  LET t == skipMessageKeys(s, until) IN
         /\ Keeps(s, t)
         /\ t.recvChain = None <=> s.recvChain = None
         /\ t.recvChain.root = s.recvChain.root
         /\ t.root = s.root /\ t.self = s.self /\ t.remote = s.remote
         /\ t.sendChain = s.sendChain /\ t.sendN = s.sendN
<1> DEFINE t == skipMessageKeys(s, until)
<1>1. CASE s.recvChain = None \/ until <= s.recvN
  BY <1>1 DEF skipMessageKeys, Keeps
<1>2. CASE s.recvChain # None /\ ~(until <= s.recvN)
  <2> DEFINE kept == Stash(s, until)
             new  == [id \in DOMAIN s.skipped \union DOMAIN kept |->
                        IF id \in DOMAIN kept THEN kept[id] ELSE s.skipped[id]]
  <2>1. /\ s.recvChain \in Chains /\ s.recvN \in Nat /\ s.remote \in Nat
        /\ s.recvChain.step = s.recvN /\ Len(s.recvChain.root) <= Len(s.root)
        /\ s.recvChain.root \in Roots /\ s.root \in Roots
        /\ s.skipped \in [DOMAIN s.skipped -> MessageKeys]
        /\ s.recvN < until
    <3>1. s.recvChain \in Chains
      BY <1>2, ChainsAreNotNone DEF IsRatchetState
    <3> QED
      BY <1>2, <3>1, BoundsAssumption DEF IsRatchetState, InOrder, Chains, NoKey
  <2>2. /\ DOMAIN kept = {<<s.remote, n>> : n \in s.recvN..(until - 1)}
        /\ \A n \in s.recvN..(until - 1) :
             kept[<<s.remote, n>>] = [key |-> "message", root |-> s.recvChain.root, step |-> n]
    <3>1. ASSUME NEW n \in s.recvN..(until - 1)
          PROVE  MessageKey([s.recvChain EXCEPT !.step = @ + (n - s.recvN)])
                   = [key |-> "message", root |-> s.recvChain.root, step |-> n]
      <4> DEFINE d == [s.recvChain EXCEPT !.step = @ + (n - s.recvN)]
      <4>1. d = [key |-> "chain", root |-> s.recvChain.root, step |-> n]
        <5>1. s.recvN + (n - s.recvN) = n
          BY <2>1, <3>1
        <5>2. s.recvChain = [key |-> "chain", root |-> s.recvChain.root, step |-> s.recvN]
          BY <2>1 DEF Chains
        <5>3. d = [s.recvChain EXCEPT !.step = n]
          BY <2>1, <5>1
        <5> QED
          BY <5>2, <5>3
      <4> HIDE DEF d
      <4>2. MessageKey(d) = [key |-> "message", root |-> s.recvChain.root, step |-> n]
        BY <4>1 DEF MessageKey
      <4> QED
        BY <4>2 DEF d
    <3> QED
      BY <3>1 DEF Stash
  <2> HIDE DEF kept
  <2>3. /\ new \in [DOMAIN new -> MessageKeys]
        /\ \A id \in DOMAIN new : id \in DOMAIN kept \/ id \in DOMAIN s.skipped
        /\ \A id \in DOMAIN new : id \in DOMAIN kept =>
             \E n \in s.recvN..(until - 1) : /\ id = <<s.remote, n>>
                                             /\ new[id].root = s.recvChain.root
                                             /\ new[id].step = n
        /\ \A id \in DOMAIN new : id \notin DOMAIN kept => new[id] = s.skipped[id]
    <3>1. ASSUME NEW id \in DOMAIN kept
          PROVE  \E n \in s.recvN..(until - 1) : /\ id = <<s.remote, n>>
                                                 /\ kept[id].root = s.recvChain.root
                                                 /\ kept[id].step = n
                                                 /\ kept[id] \in MessageKeys
      <4>1. PICK n \in s.recvN..(until - 1) : id = <<s.remote, n>>
        BY <2>2, <3>1
      <4>2. [key |-> "message", root |-> s.recvChain.root, step |-> n] \in MessageKeys
        BY <2>1 DEF MessageKeys
      <4> QED
        BY <2>2, <4>1, <4>2
    <3> QED
      BY <2>1, <3>1
  <2>4. t = [s EXCEPT !.recvChain.step = @ + (until - s.recvN), !.recvN = until,
                      !.skipped = new]
    BY <1>2 DEF skipMessageKeys, kept
  <2> HIDE DEF t, new
  <2>5. /\ IsRatchetState(t) /\ t.recvN = until /\ t.skipped = new
        /\ t.recvChain # None /\ t.recvChain.root = s.recvChain.root /\ t.recvChain.step = until
        /\ t.root = s.root /\ t.self = s.self /\ t.remote = s.remote
        /\ t.sendChain = s.sendChain /\ t.sendN = s.sendN
    <3> DEFINE chain == [s.recvChain EXCEPT !.step = @ + (until - s.recvN)]
    <3>1. /\ chain \in Chains /\ chain.root = s.recvChain.root /\ chain.step = until
      BY <2>1 DEF Chains
    <3>2. t = [s EXCEPT !.recvChain = chain, !.recvN = until, !.skipped = new]
      BY <2>4
    <3> HIDE DEF chain
    <3>3. t = [root |-> s.root, self |-> s.self, remote |-> s.remote,
               sendChain |-> s.sendChain, recvChain |-> chain, sendN |-> s.sendN,
               recvN |-> until, prevN |-> s.prevN, skipped |-> new]
      BY <3>2 DEF IsRatchetState
    <3>4. chain # None
      BY <3>1, ChainsAreNotNone
    <3> QED
      BY <2>3, <3>1, <3>3, <3>4 DEF IsRatchetState
  <2>6. \A k \in MessageKeys : Older(k, s) => Older(k, t)
    BY <2>1, <2>5 DEF Older, MessageKeys
  <2>7. \A id \in DOMAIN s.skipped : Older(s.skipped[id], s)
    BY <1>2 DEF InOrder
  <2>8. \A id \in DOMAIN new : id \in DOMAIN kept => /\ ~Older(new[id], s)
                                                    /\ Older(new[id], t)
    BY <2>1, <2>3, <2>5 DEF Older, Roots
  <2>9. InOrder(t)
    <3>1. \A id \in DOMAIN new : Older(new[id], t)
      BY <2>1, <2>3, <2>6, <2>7, <2>8
    <3>2. ASSUME NEW i \in DOMAIN new, NEW j \in DOMAIN new, new[i] = new[j]
          PROVE  i = j
      <4>1. CASE i \in DOMAIN kept /\ j \in DOMAIN kept
        BY <2>3, <3>2, <4>1
      <4>2. CASE i \notin DOMAIN kept /\ j \notin DOMAIN kept
        BY <1>2, <2>3, <3>2, <4>2 DEF InOrder
      <4>3. CASE (i \in DOMAIN kept) # (j \in DOMAIN kept)
        BY <2>3, <2>7, <2>8, <3>2, <4>3
      <4> QED
        BY <4>1, <4>2, <4>3
    <3> QED
      BY <2>1, <2>5, <3>1, <3>2 DEF InOrder
  <2>10. ASSUME NEW k \in MessageKeys, Spent(k, s)
         PROVE  Spent(k, t)
    <3>1. Older(k, s) /\ \A id \in DOMAIN s.skipped : s.skipped[id] # k
      BY <2>10 DEF Spent
    <3>2. \A id \in DOMAIN new : new[id] # k
      BY <2>3, <2>8, <3>1
    <3> QED
      BY <2>5, <2>6, <3>1, <3>2 DEF Spent
  <2> QED
    BY <1>2, <2>5, <2>9, <2>10 DEF Keeps, t
<1> QED
  BY <1>1, <1>2

(* A key of a shorter chain is older.                                      *)
LEMMA TurnKeeps ==
  ASSUME NEW s, IsRatchetState(s), InOrder(s), NEW e, e.pn \in Nat, e.dhPub \in 0..MaxDhKeys,
         NEW fresh \in 0..MaxDhKeys
  PROVE  LET t == dhRatchetStep(s, e, fresh) IN
         /\ Keeps(s, t)
         /\ t.recvChain # None /\ t.self = fresh /\ t.remote = e.dhPub
<1> DEFINE skipping == skipMessageKeys(s, e.pn)
           recvRoot == Append(s.root, dh(s.self, e.dhPub))
           sendRoot == Append(recvRoot, dh(fresh, e.dhPub))
           t == dhRatchetStep(s, e, fresh)
<1>1. /\ Keeps(s, skipping) /\ IsRatchetState(skipping) /\ InOrder(skipping)
      /\ skipping.root = s.root
  BY SkipKeeps DEF Keeps
<1>2. t = [skipping EXCEPT !.root = sendRoot, !.self = fresh, !.remote = e.dhPub,
                           !.sendChain = ChainOf(sendRoot), !.recvChain = ChainOf(recvRoot),
                           !.sendN = 0, !.recvN = 0, !.prevN = s.sendN]
  BY DEF dhRatchetStep
<1>3. /\ recvRoot \in Roots /\ sendRoot \in Roots /\ s.root \in Roots
      /\ Len(recvRoot) = Len(s.root) + 1 /\ Len(sendRoot) = Len(s.root) + 2
      /\ Len(s.root) \in Nat
  <2>1. s.root \in Roots /\ s.self \in Nat /\ e.dhPub \in Nat /\ fresh \in Nat
    BY BoundsAssumption DEF IsRatchetState
  <2>2. dh(s.self, e.dhPub) \in SUBSET Nat /\ dh(fresh, e.dhPub) \in SUBSET Nat
    BY <2>1 DEF dh
  <2> HIDE DEF recvRoot
  <2>3. recvRoot \in Roots /\ Len(recvRoot) = Len(s.root) + 1
    BY <2>1, <2>2 DEF Roots, recvRoot
  <2> QED
    BY <2>1, <2>2, <2>3 DEF Roots
<1>4. /\ ChainOf(recvRoot) \in Chains /\ ChainOf(sendRoot) \in Chains
      /\ ChainOf(recvRoot).root = recvRoot /\ ChainOf(recvRoot).step = 0
  BY <1>3 DEF ChainOf, Chains
<1> HIDE DEF skipping, recvRoot, sendRoot, t
<1>5. t = [root |-> sendRoot, self |-> fresh, remote |-> e.dhPub,
           sendChain |-> ChainOf(sendRoot), recvChain |-> ChainOf(recvRoot), sendN |-> 0,
           recvN |-> 0, prevN |-> s.sendN, skipped |-> skipping.skipped]
  BY <1>1, <1>2 DEF IsRatchetState
<1>6. t.recvChain # None
  BY <1>4, <1>5, ChainsAreNotNone
<1>7. IsRatchetState(t)
  <2>1. e.dhPub \in 0..NoKey
    BY BoundsAssumption DEF NoKey
  <2>2. skipping.skipped \in [DOMAIN skipping.skipped -> MessageKeys] /\ s.sendN \in Nat
    BY <1>1 DEF IsRatchetState
  <2>3. t.root \in Roots /\ t.sendChain \in Chains /\ t.recvChain \in Chains
    BY <1>3, <1>4, <1>5
  <2> QED
    BY <1>5, <2>1, <2>2, <2>3 DEF IsRatchetState
<1>8. ASSUME NEW k \in MessageKeys, skipping.recvChain # None, Older(k, skipping)
      PROVE  Older(k, t)
  <2>1. /\ Len(skipping.recvChain.root) <= Len(s.root) /\ Len(k.root) \in Nat
        /\ skipping.recvChain.root \in Roots
    <3>1. k.root \in Roots /\ skipping.recvChain \in Chains
      BY <1>1, <1>8, ChainsAreNotNone DEF IsRatchetState, MessageKeys
    <3>2. skipping.recvChain.root \in Roots
      BY <3>1 DEF Chains
    <3>3. Len(skipping.recvChain.root) <= Len(skipping.root)
      BY <1>1, <1>8 DEF InOrder
    <3> QED
      BY <1>1, <3>1, <3>2, <3>3 DEF Roots
  <2>2. Len(skipping.recvChain.root) \in Nat
    BY <2>1 DEF Roots
  <2>3. Len(k.root) <= Len(s.root)
    BY <1>3, <1>8, <2>1, <2>2 DEF Older
  <2> QED
    BY <1>3, <1>4, <1>5, <2>1, <2>3 DEF Older
<1>9. InOrder(t)
  <2>1. CASE skipping.recvChain = None
    BY <1>1, <1>3, <1>4, <1>5, <1>6, <2>1 DEF InOrder
  <2>2. CASE skipping.recvChain # None
    <3>1. \A id \in DOMAIN skipping.skipped : /\ Older(skipping.skipped[id], skipping)
                                               /\ skipping.skipped[id] \in MessageKeys
      BY <1>1, <2>2 DEF InOrder, IsRatchetState
    <3>2. \A id \in DOMAIN t.skipped : Older(t.skipped[id], t)
      BY <1>5, <1>8, <2>2, <3>1
    <3>3. \A i, j \in DOMAIN t.skipped : t.skipped[i] = t.skipped[j] => i = j
      BY <1>1, <1>5, <2>2 DEF InOrder
    <3>4. t.recvChain.step = t.recvN /\ Len(t.recvChain.root) <= Len(t.root)
      BY <1>3, <1>4, <1>5
    <3> QED
      BY <1>6, <3>2, <3>3, <3>4 DEF InOrder
  <2> QED
    BY <2>1, <2>2
<1>10. \A k \in MessageKeys : Spent(k, skipping) => Spent(k, t)
  BY <1>5, <1>6, <1>8 DEF Spent
<1>11. Keeps(s, t)
  BY <1>1, <1>7, <1>9, <1>10 DEF Keeps
<1> QED
  BY <1>5, <1>6, <1>11 DEF t

(* The key of the chain's next message is not spent, and using it spends   *)
(* it.                                                                     *)
LEMMA ChainAdvances ==
  ASSUME NEW t, IsRatchetState(t), InOrder(t), t.recvChain # None
  PROVE  LET k == MessageKey(t.recvChain)
             u == [t EXCEPT !.recvChain = kdfChainKey(@), !.recvN = @ + 1]
         IN  /\ k \in MessageKeys /\ ~Spent(k, t)
             /\ Keeps(t, u) /\ Spent(k, u)
             /\ u.recvChain # None /\ u.self = t.self /\ u.remote = t.remote
<1> DEFINE k == MessageKey(t.recvChain)
           u == [t EXCEPT !.recvChain = kdfChainKey(@), !.recvN = @ + 1]
           chain == kdfChainKey(t.recvChain)
<1>1. /\ t.recvChain \in Chains /\ t.recvN \in Nat /\ t.recvChain.step = t.recvN
      /\ Len(t.recvChain.root) <= Len(t.root) /\ t.root \in Roots
      /\ Len(t.recvChain.root) \in Nat
  BY ChainsAreNotNone DEF IsRatchetState, InOrder, Chains, Roots
<1>2. k = [key |-> "message", root |-> t.recvChain.root, step |-> t.recvN]
  BY <1>1 DEF MessageKey, Chains
<1>3. chain = [key |-> "chain", root |-> t.recvChain.root, step |-> t.recvN + 1]
  BY <1>1 DEF kdfChainKey, Chains
<1>4. u = [t EXCEPT !.recvChain = chain, !.recvN = t.recvN + 1]
  BY DEF IsRatchetState
<1> HIDE DEF k, u, chain
<1>5. k \in MessageKeys /\ chain \in Chains /\ chain # None
  <2>1. k \in MessageKeys /\ chain \in Chains
    BY <1>1, <1>2, <1>3 DEF MessageKeys, Chains
  <2> QED
    BY <2>1, ChainsAreNotNone
<1>6. u = [root |-> t.root, self |-> t.self, remote |-> t.remote,
           sendChain |-> t.sendChain, recvChain |-> chain, sendN |-> t.sendN,
           recvN |-> t.recvN + 1, prevN |-> t.prevN, skipped |-> t.skipped]
  BY <1>4 DEF IsRatchetState
<1>7. IsRatchetState(u)
  BY <1>1, <1>5, <1>6 DEF IsRatchetState
<1>8. ~Older(k, t) /\ Older(k, u)
  BY <1>1, <1>2, <1>3, <1>6 DEF Older
<1>9. \A m \in MessageKeys : Older(m, t) => Older(m, u)
  BY <1>1, <1>3, <1>6 DEF Older, MessageKeys
<1>10. \A id \in DOMAIN t.skipped : t.skipped[id] \in MessageKeys /\ Older(t.skipped[id], t)
  BY DEF InOrder, IsRatchetState
<1>11. InOrder(u)
  <2>1. \A id \in DOMAIN u.skipped : Older(u.skipped[id], u)
    BY <1>6, <1>9, <1>10
  <2>2. \A i, j \in DOMAIN u.skipped : u.skipped[i] = u.skipped[j] => i = j
    BY <1>6 DEF InOrder
  <2> QED
    BY <1>1, <1>3, <1>5, <1>6, <2>1, <2>2 DEF InOrder
<1>12. Spent(k, u)
  BY <1>5, <1>6, <1>8, <1>10 DEF Spent
<1>13. \A m \in MessageKeys : Spent(m, t) => Spent(m, u)
  BY <1>5, <1>6, <1>9 DEF Spent
<1> QED
  BY <1>5, <1>6, <1>7, <1>8, <1>11, <1>12, <1>13 DEF Keeps, Spent, k, u

(* A kept key is not spent, and forgetting it spends it.                   *)
LEMMA ForgetSpends ==
  ASSUME NEW s, IsRatchetState(s), InOrder(s), NEW e, KeptFor(s, e)
  PROVE  LET k == s.skipped[<<e.dhPub, e.n>>]
             u == Forget(s, e)
         IN  /\ k \in MessageKeys /\ ~Spent(k, s)
             /\ Keeps(s, u) /\ Spent(k, u)
             /\ u.recvChain = s.recvChain /\ u.self = s.self /\ u.remote = s.remote
             /\ u.sendChain = s.sendChain
<1> DEFINE i == <<e.dhPub, e.n>>
           k == s.skipped[i]
           left == Restrict(s.skipped, DOMAIN s.skipped \ {i})
           u == Forget(s, e)
<1>1. i \in DOMAIN s.skipped /\ s.skipped \in [DOMAIN s.skipped -> MessageKeys]
  BY DEF KeptFor, IsRatchetState
<1>2. s.recvChain # None
  BY <1>1 DEF InOrder
<1>3. /\ left \in [DOMAIN left -> MessageKeys] /\ DOMAIN left = DOMAIN s.skipped \ {i}
      /\ \A j \in DOMAIN left : left[j] = s.skipped[j]
  BY <1>1 DEF Restrict
<1>4. u = [s EXCEPT !.skipped = left]
  BY DEF Forget
<1> HIDE DEF left, u, i
<1>5. u = [root |-> s.root, self |-> s.self, remote |-> s.remote,
           sendChain |-> s.sendChain, recvChain |-> s.recvChain, sendN |-> s.sendN,
           recvN |-> s.recvN, prevN |-> s.prevN, skipped |-> left]
  BY <1>4 DEF IsRatchetState
<1>6. IsRatchetState(u)
  BY <1>3, <1>5 DEF IsRatchetState
<1>7. \A m : Older(m, u) <=> Older(m, s)
  BY <1>5 DEF Older
<1>8. InOrder(u)
  BY <1>2, <1>3, <1>5, <1>7 DEF InOrder
<1>9. k \in MessageKeys /\ Older(k, s) /\ ~Spent(k, s)
  BY <1>1, <1>2 DEF InOrder, Spent
<1>10. \A j \in DOMAIN left : left[j] # k
  BY <1>1, <1>2, <1>3 DEF InOrder
<1>11. Spent(k, u) /\ \A m \in MessageKeys : Spent(m, s) => Spent(m, u)
  BY <1>2, <1>3, <1>5, <1>7, <1>9, <1>10 DEF Spent
<1> QED
  BY <1>5, <1>6, <1>8, <1>9, <1>11 DEF Keeps, u, i

(***************************************************************************)
(* The steps.                                                              *)
(***************************************************************************)

LEMMA EnvelopeFacts ==
  ASSUME ReadInv, NEW p \in RatchetParties, NEW e \in Sent(Peer(p))
  PROVE  /\ Peer(p) \in RatchetParties /\ Peer(p) # p /\ e \in wire /\ e.from = Peer(p)
         /\ e.dhPub \in 0..MaxDhKeys /\ e.pn \in Nat /\ e.n \in Nat
         /\ e.key \in MessageKeys /\ e.body \in 1..Cardinality(Sent(Peer(p)))
         /\ Cardinality(Sent(Peer(p))) \in Nat
         /\ \A f \in Sent(Peer(p)) : f.body = e.body => f = e
<1>1. Peer(p) \in RatchetParties /\ Peer(p) # p
  BY PartiesAssumption DEF Peer, RatchetParties
<1>2. e \in wire /\ e.from = Peer(p) /\ \A f \in Sent(Peer(p)) : f \in wire /\ f.from = Peer(p)
  BY DEF Sent
<1>3. IsFiniteSet(Sent(Peer(p)))
  <2>1. Sent(Peer(p)) \in SUBSET wire /\ IsFiniteSet(wire)
    BY DEF Sent, ReadInv, EnvelopesAreNumbered
  <2> QED
    BY <2>1, FS_Subset
<1>4. Cardinality(Sent(Peer(p))) \in Nat
  BY <1>3, FS_CardinalityType
<1>5. EnvelopesAreNumbered
  BY DEF ReadInv
<1> QED
  BY <1>1, <1>2, <1>4, <1>5 DEF EnvelopesAreNumbered

(* The first envelope a party gets turns its ratchet.                      *)
LEMMA TurnedKeeps ==
  ASSUME ReadInv, NEW p \in RatchetParties, NEW e \in Sent(Peer(p)),
         IsNewKey(state[p], e) => pairs < MaxDhKeys
  PROVE  LET t == Turned(state[p], e) IN
         /\ Keeps(state[p], t) /\ t.recvChain # None
         /\ p = Bob => t.self # 0
<1>1. /\ IsRatchetState(state[p]) /\ InOrder(state[p]) /\ pairs \in 1..MaxDhKeys
      /\ AliceTurnsFirst /\ p \in {Alice, Bob}
      /\ e.dhPub \in 0..MaxDhKeys /\ e.pn \in Nat
  BY EnvelopeFacts DEF ReadInv, RatchetParties
<1>2. CASE IsNewKey(state[p], e)
  <2>1. pairs + 1 \in 0..MaxDhKeys /\ pairs + 1 # 0
    BY <1>1, <1>2, BoundsAssumption
  <2>2. Turned(state[p], e) = dhRatchetStep(state[p], e, pairs + 1)
    BY <1>2 DEF Turned
  <2> QED
    BY <1>1, <2>1, <2>2, TurnKeeps
<1>3. CASE ~IsNewKey(state[p], e)
  <2>1. Turned(state[p], e) = state[p] /\ state[p].remote = e.dhPub
    BY <1>3 DEF Turned, IsNewKey
  <2>2. state[p].recvChain # None
    <3>1. CASE p = Alice
      <4>1. e.dhPub # 0
        BY <1>1, <3>1, PartiesAssumption DEF AliceTurnsFirst, Peer
      <4> QED
        BY <1>1, <2>1, <3>1, <4>1 DEF AliceTurnsFirst
    <3>2. CASE p = Bob
      <4>1. e.dhPub # NoKey
        BY <1>1, BoundsAssumption DEF NoKey
      <4> QED
        BY <1>1, <2>1, <3>2, <4>1 DEF AliceTurnsFirst
    <3> QED
      BY <1>1, <3>1, <3>2
  <2> QED
    BY <1>1, <2>1, <2>2 DEF Keeps, AliceTurnsFirst
<1> QED
  BY <1>2, <1>3

(* A party whose state stays one, while nothing is sent.                   *)
LEMMA StateKept ==
  ASSUME ReadInv, NEW p \in RatchetParties, NEW u, Keeps(state[p], u), u.recvChain # None,
         p = Bob => u.self # 0, state' = [state EXCEPT ![p] = u],
         pairs' \in 1..MaxDhKeys, UNCHANGED wire
  PROVE  /\ DOMAIN state' = RatchetParties
         /\ \A q \in RatchetParties : IsRatchetState(state'[q]) /\ InOrder(state'[q])
         /\ EnvelopesAreNumbered' /\ AliceTurnsFirst'
         /\ \A q \in RatchetParties : \A k \in MessageKeys :
              Spent(k, state[q]) => Spent(k, state'[q])
         /\ state'[p] = u
<1>1. /\ DOMAIN state = RatchetParties /\ EnvelopesAreNumbered /\ AliceTurnsFirst
      /\ \A q \in RatchetParties : IsRatchetState(state[q]) /\ InOrder(state[q])
      /\ Alice \in RatchetParties /\ Bob \in RatchetParties
  BY DEF ReadInv, RatchetParties
<1>2. state'[p] = u /\ \A q \in RatchetParties : q # p => state'[q] = state[q]
  BY <1>1
<1>3. DOMAIN state' = RatchetParties
  BY <1>1
<1>4. EnvelopesAreNumbered'
  BY <1>1 DEF EnvelopesAreNumbered, Sent
<1>5. AliceTurnsFirst'
  BY <1>1, <1>2 DEF AliceTurnsFirst, Sent
<1> QED
  BY <1>1, <1>2, <1>3, <1>4, <1>5 DEF Keeps

(* Reading with a key that was not spent, and is now.                      *)
LEMMA ResultReads ==
  ASSUME ReadInv, NEW p \in RatchetParties, NEW e \in Sent(Peer(p)), NEW u,
         NEW k \in MessageKeys, ~Spent(k, state[p]), Keeps(state[p], u), Spent(k, u),
         u.recvChain # None, p = Bob => u.self # 0, state' = [state EXCEPT ![p] = u],
         pairs' \in 1..MaxDhKeys, UNCHANGED wire, Result(p, e, k)
  PROVE  ReadInv' /\ (Channel!Decrypt(p) \/ UNCHANGED Channel!channelVars)
<1>1. /\ plain \in [RatchetParties -> Seq(Nat)] /\ ReadKeysAreSpent
      /\ e.body \in Nat /\ e.body \in 1..Cardinality(Sent(Peer(p)))
      /\ Peer(p) \in RatchetParties /\ Peer(p) # p
      /\ \A f \in Sent(Peer(p)) : f.body = e.body => f = e
  BY EnvelopeFacts DEF ReadInv
<1>2. /\ DOMAIN state' = RatchetParties
      /\ \A q \in RatchetParties : IsRatchetState(state'[q]) /\ InOrder(state'[q])
      /\ EnvelopesAreNumbered' /\ AliceTurnsFirst'
      /\ \A q \in RatchetParties : \A m \in MessageKeys :
           Spent(m, state[q]) => Spent(m, state'[q])
      /\ state'[p] = u
  BY StateKept
<1>3. \A q \in RatchetParties : \A m \in Range(plain[q]) :
        \E f \in Sent(Peer(q)) : f.body = m /\ Spent(f.key, state'[q])
  <2> SUFFICES ASSUME NEW q \in RatchetParties, NEW m \in Range(plain[q])
               PROVE  \E f \in Sent(Peer(q)) : f.body = m /\ Spent(f.key, state'[q])
    OBVIOUS
  <2>1. PICK f \in Sent(Peer(q)) : f.body = m /\ Spent(f.key, state[q])
    BY <1>1 DEF ReadKeysAreSpent
  <2>2. f.key \in MessageKeys
    BY EnvelopeFacts
  <2> QED
    BY <1>2, <2>1, <2>2
<1>4. \A q : Sent(q)' = Sent(q)
  BY DEF Sent
<1>5. CASE k = e.key
  <2>1. plain' = [plain EXCEPT ![p] = Append(@, e.body)]
    BY <1>5 DEF Result
  <2>2. e.body \notin Range(plain[p])
    <3>1. SUFFICES ASSUME e.body \in Range(plain[p]) PROVE FALSE
      OBVIOUS
    <3>2. PICK f \in Sent(Peer(p)) : f.body = e.body /\ Spent(f.key, state[p])
      BY <1>1, <3>1 DEF ReadKeysAreSpent
    <3> QED
      BY <1>1, <1>5, <3>2
  <2>3. /\ plain' \in [RatchetParties -> Seq(Nat)]
        /\ Range(plain'[p]) \subseteq Range(plain[p]) \union {e.body}
        /\ \A q \in RatchetParties : q # p => plain'[q] = plain[q]
    <3>1. /\ plain' \in [RatchetParties -> Seq(Nat)] /\ plain'[p] = Append(plain[p], e.body)
          /\ \A q \in RatchetParties : q # p => plain'[q] = plain[q]
      BY <1>1, <2>1
    <3>2. plain[p] \in Seq(Nat)
      BY <1>1
    <3>3. Range(Append(plain[p], e.body)) \subseteq Range(plain[p]) \union {e.body}
      BY <1>1, <3>2 DEF Range
    <3> QED
      BY <3>1, <3>3
  <2>4. ReadKeysAreSpent'
    <3>1. ASSUME NEW q \in RatchetParties, NEW m \in Range(plain'[q])
          PROVE  \E f \in Sent(Peer(q)) : f.body = m /\ Spent(f.key, state'[q])
      <4>1. CASE m \in Range(plain[q])
        BY <1>3, <4>1
      <4>2. CASE q = p /\ m = e.body
        BY <1>2, <1>5, <4>2
      <4> QED
        BY <2>3, <3>1, <4>1, <4>2
    <3> QED
      BY <1>4, <3>1 DEF ReadKeysAreSpent
  <2>5. Channel!Decrypt(p)
    <3>1. e.body \in (1..Cardinality(Sent(Peer(p)))) \ Channel!ToSet(plain[p])
      BY <1>1, <2>2 DEF Channel!ToSet, Range
    <3>2. \A q \in RatchetParties : Cardinality(Sent(q))' = Cardinality(Sent(q))
      BY <1>4
    <3> QED
      BY <1>1, <2>1, <3>1, <3>2 DEF Channel!Decrypt
  <2> QED
    BY <1>2, <2>3, <2>4, <2>5 DEF ReadInv
<1>6. CASE k # e.key
  <2>1. UNCHANGED plain
    BY <1>6 DEF Result
  <2>2. ReadKeysAreSpent'
    BY <1>3, <1>4, <2>1 DEF ReadKeysAreSpent
  <2>3. UNCHANGED Channel!channelVars
    BY <1>4, <2>1 DEF Channel!channelVars
  <2> QED
    BY <1>1, <1>2, <2>1, <2>2, <2>3 DEF ReadInv
<1> QED
  BY <1>5, <1>6

LEMMA SkippedReads ==
  ASSUME ReadInv, NEW p \in RatchetParties, NEW e \in Sent(Peer(p)), trySkipped(p, e)
  PROVE  ReadInv' /\ (Channel!Decrypt(p) \/ UNCHANGED Channel!channelVars)
<1> DEFINE s == state[p]
           k == s.skipped[<<e.dhPub, e.n>>]
           u == Forget(s, e)
<1>1. /\ IsRatchetState(s) /\ InOrder(s) /\ KeptFor(s, e) /\ AliceTurnsFirst
      /\ pairs \in 1..MaxDhKeys
      /\ Result(p, e, k) /\ state' = [state EXCEPT ![p] = u] /\ UNCHANGED <<pairs, wire>>
  BY DEF ReadInv, trySkipped
<1>2. /\ k \in MessageKeys /\ ~Spent(k, s) /\ Keeps(s, u) /\ Spent(k, u)
      /\ u.recvChain = s.recvChain /\ u.self = s.self
  BY <1>1, ForgetSpends
<1>3. s.recvChain # None /\ (p = Bob => s.self # 0)
  BY <1>1 DEF InOrder, KeptFor, AliceTurnsFirst
<1> HIDE DEF k, u
<1> QED
  BY <1>1, <1>2, <1>3, ResultReads

LEMMA ChainReads ==
  ASSUME ReadInv, NEW p \in RatchetParties, NEW e \in Sent(Peer(p)), ratchetDecrypt(p, e)
  PROVE  ReadInv' /\ (Channel!Decrypt(p) \/ UNCHANGED Channel!channelVars)
<1> DEFINE s == Turned(state[p], e)
           t == skipMessageKeys(s, e.n)
           k == MessageKey(t.recvChain)
           u == [t EXCEPT !.recvChain = kdfChainKey(@), !.recvN = @ + 1]
<1>1. /\ Result(p, e, k) /\ state' = [state EXCEPT ![p] = u] /\ UNCHANGED wire
      /\ IsNewKey(state[p], e) => pairs < MaxDhKeys
      /\ pairs' = IF IsNewKey(state[p], e) THEN pairs + 1 ELSE pairs
  BY DEF ratchetDecrypt
<1>2. pairs' \in 1..MaxDhKeys /\ e.n \in Nat
  BY <1>1, BoundsAssumption, EnvelopeFacts DEF ReadInv
<1>3. Keeps(state[p], s) /\ s.recvChain # None /\ (p = Bob => s.self # 0)
  BY <1>1, TurnedKeeps
<1> HIDE DEF s
<1>4. Keeps(s, t) /\ t.recvChain # None /\ t.self = s.self
  BY <1>2, <1>3, SkipKeeps DEF Keeps
<1> HIDE DEF t
<1>5. /\ k \in MessageKeys /\ ~Spent(k, t) /\ Keeps(t, u) /\ Spent(k, u)
      /\ u.recvChain # None /\ u.self = t.self
  BY <1>4, ChainAdvances DEF Keeps
<1> HIDE DEF k, u
<1>6. ~Spent(k, state[p]) /\ Keeps(state[p], u)
  BY <1>3, <1>4, <1>5 DEF Keeps
<1> QED
  BY <1>1, <1>2, <1>3, <1>4, <1>5, <1>6, ResultReads

LEMMA RefusalReads ==
  ASSUME ReadInv, NEW p \in RatchetParties, NEW e \in Sent(Peer(p)), TooManySkipped(p, e)
  PROVE  ReadInv' /\ UNCHANGED Channel!channelVars
<1>1. UNCHANGED <<wire, plain>>
  BY DEF TooManySkipped
<1>2. UNCHANGED Channel!channelVars
  BY <1>1 DEF Channel!channelVars, Sent
<1>3. CASE IsNewKey(state[p], e) /\ TooMany(state[p], e.pn)
  <2>1. UNCHANGED <<state, pairs>>
    BY <1>3 DEF TooManySkipped
  <2> QED
    BY <1>1, <1>2, <2>1 DEF ReadInv, EnvelopesAreNumbered, AliceTurnsFirst, ReadKeysAreSpent,
                            Sent
<1>4. CASE ~(IsNewKey(state[p], e) /\ TooMany(state[p], e.pn))
  <2> DEFINE u == Turned(state[p], e)
  <2>1. /\ state' = [state EXCEPT ![p] = u]
        /\ IsNewKey(state[p], e) => pairs < MaxDhKeys
        /\ pairs' = IF IsNewKey(state[p], e) THEN pairs + 1 ELSE pairs
    BY <1>4 DEF TooManySkipped
  <2>2. pairs' \in 1..MaxDhKeys
    BY <2>1, BoundsAssumption DEF ReadInv
  <2>3. Keeps(state[p], u) /\ u.recvChain # None /\ (p = Bob => u.self # 0)
    BY <2>1, TurnedKeeps
  <2> HIDE DEF u
  <2>4. /\ DOMAIN state' = RatchetParties
        /\ \A q \in RatchetParties : IsRatchetState(state'[q]) /\ InOrder(state'[q])
        /\ EnvelopesAreNumbered' /\ AliceTurnsFirst'
        /\ \A q \in RatchetParties : \A m \in MessageKeys :
             Spent(m, state[q]) => Spent(m, state'[q])
    BY <1>1, <2>1, <2>2, <2>3, StateKept
  <2>5. ReadKeysAreSpent'
    <3>1. ASSUME NEW q \in RatchetParties, NEW m \in Range(plain[q])
          PROVE  \E f \in Sent(Peer(q)) : f.body = m /\ Spent(f.key, state'[q])
      <4>1. PICK f \in Sent(Peer(q)) : f.body = m /\ Spent(f.key, state[q])
        BY DEF ReadInv, ReadKeysAreSpent
      <4>2. f.key \in MessageKeys
        BY EnvelopeFacts
      <4> QED
        BY <2>4, <4>1, <4>2
    <3> QED
      BY <1>1, <3>1 DEF ReadKeysAreSpent, Sent
  <2>6. plain' \in [RatchetParties -> Seq(Nat)]
    BY <1>1 DEF ReadInv
  <2> QED
    BY <1>2, <2>2, <2>4, <2>5, <2>6 DEF ReadInv
<1> QED
  BY <1>3, <1>4

(* A chain to send on is made of the current root.                         *)
LEMMA SendChainKeeps ==
  ASSUME NEW s, IsRatchetState(s), InOrder(s)
  PROVE  LET t == WithSendChain(s)
             u == [t EXCEPT !.sendChain = kdfChainKey(@), !.sendN = @ + 1]
         IN  /\ Keeps(s, u) /\ u.recvChain = s.recvChain /\ u.self = s.self
             /\ u.remote = s.remote
             /\ MessageKey(t.sendChain) \in MessageKeys
             /\ t.self = s.self /\ t.prevN \in Nat /\ t.sendN \in Nat
<1> DEFINE t == WithSendChain(s)
           chain == kdfChainKey(t.sendChain)
           u == [t EXCEPT !.sendChain = kdfChainKey(@), !.sendN = @ + 1]
<1>1. /\ s.root \in Roots /\ s.self \in Nat /\ s.remote \in Nat /\ s.sendN \in Nat
      /\ s.recvChain \in Chains \union {None} /\ s.sendChain \in Chains \union {None}
  BY BoundsAssumption DEF IsRatchetState, NoKey
<1>2. /\ t = [root |-> t.root, self |-> s.self, remote |-> s.remote,
              sendChain |-> t.sendChain, recvChain |-> s.recvChain, sendN |-> s.sendN,
              recvN |-> s.recvN, prevN |-> s.prevN, skipped |-> s.skipped]
      /\ t.root \in Roots /\ t.sendChain \in Chains /\ Len(s.root) <= Len(t.root)
  <2>1. CASE s.sendChain # None
    <3>1. t = s
      BY <2>1 DEF WithSendChain
    <3>2. Len(s.root) \in Nat
      BY <1>1 DEF Roots
    <3> QED
      BY <1>1, <2>1, <3>1, <3>2, ChainsAreNotNone DEF IsRatchetState
  <2>2. CASE s.sendChain = None
    <3> DEFINE root == Append(s.root, dh(s.self, s.remote))
    <3>1. dh(s.self, s.remote) \in SUBSET Nat
      BY <1>1 DEF dh
    <3>2. root \in Roots /\ Len(root) = Len(s.root) + 1 /\ Len(s.root) \in Nat
      BY <1>1, <3>1 DEF Roots
    <3>3. t = [s EXCEPT !.root = root, !.sendChain = ChainOf(root)]
      BY <2>2 DEF WithSendChain
    <3> HIDE DEF root, t
    <3>4. ChainOf(root) \in Chains
      BY <3>2 DEF ChainOf, Chains
    <3>5. t = [root |-> root, self |-> s.self, remote |-> s.remote,
               sendChain |-> ChainOf(root), recvChain |-> s.recvChain, sendN |-> s.sendN,
               recvN |-> s.recvN, prevN |-> s.prevN, skipped |-> s.skipped]
      BY <3>3 DEF IsRatchetState
    <3> QED
      BY <3>2, <3>4, <3>5
  <2> QED
    BY <2>1, <2>2
<1> HIDE DEF t
<1>3. chain \in Chains /\ MessageKey(t.sendChain) \in MessageKeys
  <2>1. /\ t.sendChain = [key |-> "chain", root |-> t.sendChain.root, step |-> t.sendChain.step]
        /\ t.sendChain.root \in Roots /\ t.sendChain.step \in Nat
    BY <1>2 DEF Chains
  <2> QED
    BY <2>1 DEF kdfChainKey, MessageKey, Chains, MessageKeys
<1>4. u = [t EXCEPT !.sendChain = chain, !.sendN = t.sendN + 1]
  OBVIOUS
<1> HIDE DEF u, chain
<1>5. u = [root |-> t.root, self |-> s.self, remote |-> s.remote,
           sendChain |-> chain, recvChain |-> s.recvChain, sendN |-> s.sendN + 1,
           recvN |-> s.recvN, prevN |-> s.prevN, skipped |-> s.skipped]
  <2> DEFINE root == t.root
             first == t.sendChain
  <2>1. t = [root |-> root, self |-> s.self, remote |-> s.remote,
             sendChain |-> first, recvChain |-> s.recvChain, sendN |-> s.sendN,
             recvN |-> s.recvN, prevN |-> s.prevN, skipped |-> s.skipped]
    BY <1>2
  <2> HIDE DEF root, first
  <2>2. u = [root |-> root, self |-> s.self, remote |-> s.remote,
             sendChain |-> chain, recvChain |-> s.recvChain, sendN |-> s.sendN + 1,
             recvN |-> s.recvN, prevN |-> s.prevN, skipped |-> s.skipped]
    BY <1>4, <2>1
  <2> QED
    BY <2>2 DEF root
<1>6. IsRatchetState(u)
  BY <1>1, <1>2, <1>3, <1>5 DEF IsRatchetState
<1>7. \A m : Older(m, u) <=> Older(m, s)
  BY <1>5 DEF Older
<1>8. InOrder(u)
  <2>1. CASE s.recvChain = None
    BY <1>5, <2>1 DEF InOrder
  <2>2. CASE s.recvChain # None
    <3>1. Len(s.recvChain.root) \in Nat /\ Len(s.root) \in Nat /\ Len(t.root) \in Nat
      BY <1>1, <1>2, <2>2, ChainsAreNotNone DEF Chains, Roots
    <3> QED
      BY <1>2, <1>5, <1>7, <2>2, <3>1 DEF InOrder
  <2> QED
    BY <2>1, <2>2
<1>9. \A m \in MessageKeys : Spent(m, s) => Spent(m, u)
  BY <1>5, <1>7 DEF Spent
<1>10. t.self = s.self /\ t.prevN \in Nat /\ t.sendN \in Nat
  BY <1>2 DEF IsRatchetState
<1> QED
  BY <1>3, <1>5, <1>6, <1>8, <1>9, <1>10 DEF Keeps, t, u

LEMMA Encrypts ==
  ASSUME ReadInv, NEW p \in RatchetParties, ratchetEncrypt(p)
  PROVE  ReadInv' /\ Channel!Encrypt(p)
<1> DEFINE s == WithSendChain(state[p])
           u == [s EXCEPT !.sendChain = kdfChainKey(@), !.sendN = @ + 1]
           count == Cardinality(Sent(p))
           new == [from |-> p, dhPub |-> s.self, pn |-> s.prevN, n |-> s.sendN,
                   key |-> MessageKey(s.sendChain), body |-> count + 1]
<1>1. /\ DOMAIN state = RatchetParties /\ EnvelopesAreNumbered /\ AliceTurnsFirst
      /\ \A q \in RatchetParties : IsRatchetState(state[q]) /\ InOrder(state[q])
      /\ Alice \in RatchetParties /\ Bob \in RatchetParties /\ ReadKeysAreSpent
      /\ plain \in [RatchetParties -> Seq(Nat)] /\ pairs \in 1..MaxDhKeys
  BY DEF ReadInv, RatchetParties
<1>2. /\ wire' = wire \union {new} /\ state' = [state EXCEPT ![p] = u]
      /\ UNCHANGED <<pairs, plain>> /\ MaySend(state[p])
  BY DEF ratchetEncrypt
<1>3. /\ Keeps(state[p], u) /\ u.recvChain = state[p].recvChain /\ u.self = state[p].self
      /\ u.remote = state[p].remote
      /\ MessageKey(s.sendChain) \in MessageKeys
      /\ s.self = state[p].self /\ s.prevN \in Nat /\ s.sendN \in Nat
      /\ s.self \in 0..MaxDhKeys
  BY <1>1, SendChainKeeps DEF IsRatchetState
<1>4. \A q \in RatchetParties : IsFiniteSet(Sent(q)) /\ Cardinality(Sent(q)) \in Nat
  <2> SUFFICES ASSUME NEW q \in RatchetParties
               PROVE  IsFiniteSet(Sent(q)) /\ Cardinality(Sent(q)) \in Nat
    OBVIOUS
  <2>1. Sent(q) \in SUBSET wire /\ IsFiniteSet(wire)
    BY <1>1 DEF EnvelopesAreNumbered, Sent
  <2> QED
    BY <2>1, FS_Subset, FS_CardinalityType
<1>5. /\ new.from = p /\ new.body = count + 1 /\ new.dhPub = state[p].self
      /\ new \in [from : RatchetParties, dhPub : 0..MaxDhKeys, pn : Nat, n : Nat,
                  key : MessageKeys, body : Nat]
  BY <1>3, <1>4
<1>6. new \notin wire
  <2>1. new \in wire => new.body \in 1..Cardinality(Sent(new.from))
    BY <1>1 DEF EnvelopesAreNumbered
  <2> QED
    BY <1>4, <1>5, <2>1
<1> HIDE DEF new, u, s
<1>7. /\ Sent(p)' = Sent(p) \union {new} /\ new \notin Sent(p)
      /\ \A q : q # p => Sent(q)' = Sent(q)
  BY <1>2, <1>5, <1>6 DEF Sent
<1>8. /\ Cardinality(Sent(p))' = count + 1
      /\ \A q \in RatchetParties : q # p => Cardinality(Sent(q))' = Cardinality(Sent(q))
  BY <1>4, <1>7, FS_AddElement
<1>9. EnvelopesAreNumbered'
  <2>1. IsFiniteSet(wire')
    BY <1>1, <1>2, FS_AddElement DEF EnvelopesAreNumbered
  <2>2. wire' \subseteq [from : RatchetParties, dhPub : 0..MaxDhKeys, pn : Nat, n : Nat,
                         key : MessageKeys, body : Nat]
    BY <1>1, <1>2, <1>5 DEF EnvelopesAreNumbered
  <2>3. \A e \in wire : e.from \in RatchetParties /\ e.body \in 1..Cardinality(Sent(e.from))
    BY <1>1 DEF EnvelopesAreNumbered
  <2>4. ASSUME NEW e \in wire'
        PROVE  e.body \in 1..Cardinality(Sent(e.from))'
    <3>1. CASE e = new
      <4>1. e.from = p /\ e.body = count + 1
        BY <1>5, <3>1
      <4> QED
        BY <1>4, <1>8, <4>1
    <3>2. CASE e \in wire
      <4>1. e.from \in RatchetParties /\ e.body \in 1..Cardinality(Sent(e.from))
        BY <2>3, <3>2
      <4> QED
        BY <1>4, <1>8, <4>1
    <3> QED
      BY <1>2, <2>4, <3>1, <3>2
  <2>5. ASSUME NEW e \in wire', NEW f \in wire', e.from = f.from, e.body = f.body
        PROVE  e = f
    <3>1. \A g \in wire : g.from = p => g.body # new.body
      BY <1>4, <1>5, <2>3
    <3>2. \A g, h \in wire : g.from = h.from /\ g.body = h.body => g = h
      BY <1>1 DEF EnvelopesAreNumbered
    <3> QED
      BY <1>2, <1>5, <2>5, <3>1, <3>2
  <2> QED
    BY <2>1, <2>2, <2>4, <2>5 DEF EnvelopesAreNumbered
<1>10. /\ state'[p] = u /\ \A q \in RatchetParties : q # p => state'[q] = state[q]
       /\ DOMAIN state' = RatchetParties
  BY <1>1, <1>2
<1>11. AliceTurnsFirst'
  <2>1. p = Bob => state[Bob].recvChain # None
    BY <1>1, <1>2 DEF AliceTurnsFirst, MaySend
  <2>2. /\ state'[Alice].recvChain = None => state'[Alice].remote = 0
        /\ state'[Bob].recvChain = state[Bob].recvChain
        /\ state'[Bob].remote = state[Bob].remote
        /\ state'[Bob].self = state[Bob].self
        /\ p # Bob => state'[Bob] = state[Bob]
    BY <1>1, <1>3, <1>10 DEF AliceTurnsFirst
  <2>3. \A e \in Sent(Bob)' : e.dhPub # 0
    <3>1. p = Bob => new.dhPub # 0
      BY <1>1, <1>5, <2>1 DEF AliceTurnsFirst
    <3> QED
      BY <1>1, <1>7, <3>1 DEF AliceTurnsFirst
  <2> QED
    BY <1>1, <2>1, <2>2, <2>3 DEF AliceTurnsFirst
<1>12. ReadKeysAreSpent'
  <2>1. ASSUME NEW q \in RatchetParties, NEW m \in Range(plain[q])
        PROVE  \E f \in Sent(Peer(q))' : f.body = m /\ Spent(f.key, state'[q])
    <3>1. PICK f \in Sent(Peer(q)) : f.body = m /\ Spent(f.key, state[q])
      BY <1>1 DEF ReadKeysAreSpent
    <3>2. f.key \in MessageKeys
      BY EnvelopeFacts
    <3>3. f \in Sent(Peer(q))' /\ Spent(f.key, state'[q])
      BY <1>3, <1>7, <1>10, <3>1, <3>2 DEF Keeps
    <3> QED
      BY <3>1, <3>3
  <2> QED
    BY <1>2, <2>1 DEF ReadKeysAreSpent
<1>13. ReadInv'
  <2>1. \A q \in RatchetParties : IsRatchetState(state'[q]) /\ InOrder(state'[q])
    BY <1>1, <1>3, <1>10 DEF Keeps
  <2> QED
    BY <1>1, <1>2, <1>9, <1>10, <1>11, <1>12, <2>1 DEF ReadInv
<1>14. Channel!Encrypt(p)
  BY <1>2, <1>8 DEF Channel!Encrypt
<1> QED
  BY <1>13, <1>14

LEMMA RatchetStep ==
  ASSUME ReadInv, [RatchetNext]_ratchetVars
  PROVE  ReadInv' /\ [Channel!ChannelNext]_(Channel!channelVars)
<1>1. CASE UNCHANGED ratchetVars
  BY <1>1 DEF ratchetVars, ReadInv, EnvelopesAreNumbered, AliceTurnsFirst, ReadKeysAreSpent,
              Sent, Channel!channelVars
<1>2. ASSUME NEW p \in RatchetParties, ratchetEncrypt(p)
      PROVE  ReadInv' /\ [Channel!ChannelNext]_(Channel!channelVars)
  BY <1>2, Encrypts DEF Channel!ChannelNext
<1>3. ASSUME NEW p \in RatchetParties, NEW e \in Sent(Peer(p)),
             trySkipped(p, e) \/ ratchetDecrypt(p, e) \/ TooManySkipped(p, e)
      PROVE  ReadInv' /\ [Channel!ChannelNext]_(Channel!channelVars)
  BY <1>3, SkippedReads, ChainReads, RefusalReads DEF Channel!ChannelNext
<1> QED
  BY <1>1, <1>2, <1>3 DEF RatchetNext

LEMMA ReadInit == RatchetInit => ReadInv /\ Channel!ChannelInit
<1> SUFFICES ASSUME RatchetInit PROVE ReadInv /\ Channel!ChannelInit
  OBVIOUS
<1>1. /\ state[Alice] = InitiatorState /\ state[Bob] = ResponderState
      /\ DOMAIN state = {Alice, Bob} /\ wire = {} /\ pairs = 1
      /\ plain = [p \in RatchetParties |-> << >>]
  BY PartiesAssumption DEF RatchetInit, RatchetParties
<1>2. /\ InitiatorState.recvChain = None /\ ResponderState.recvChain = None
      /\ InitiatorState.remote = 0 /\ ResponderState.remote = NoKey
      /\ ResponderState.sendChain = None
      /\ DOMAIN InitiatorState.skipped = {} /\ DOMAIN ResponderState.skipped = {}
  BY DEF InitiatorState, ResponderState
<1>3. IsRatchetState(InitiatorState) /\ IsRatchetState(ResponderState)
  <2>1. SharedSecret \in Roots /\ << >> \in [{} -> MessageKeys] /\ DOMAIN << >> = {}
    BY DEF SharedSecret, Roots
  <2>2. 0 \in 0..NoKey /\ NoKey \in 0..NoKey /\ 0 \in 0..MaxDhKeys /\ 1 \in 0..MaxDhKeys
    BY BoundsAssumption DEF NoKey
  <2>3. IsRatchetState(InitiatorState)
    BY <2>1, <2>2 DEF IsRatchetState, InitiatorState
  <2>4. IsRatchetState(ResponderState)
    <3> DEFINE s == InitiatorState
    <3>1. ResponderState = [s EXCEPT !.self = 0, !.remote = NoKey]
      BY DEF ResponderState
    <3> HIDE DEF s
    <3>2. ResponderState = [root |-> s.root, self |-> 0, remote |-> NoKey,
                            sendChain |-> s.sendChain, recvChain |-> s.recvChain,
                            sendN |-> s.sendN, recvN |-> s.recvN, prevN |-> s.prevN,
                            skipped |-> s.skipped]
      BY <2>3, <3>1 DEF IsRatchetState, s
    <3> QED
      BY <2>2, <2>3, <3>2 DEF IsRatchetState, s
  <2> QED
    BY <2>3, <2>4
<1>4. EnvelopesAreNumbered /\ AliceTurnsFirst
  BY <1>1, <1>2, FS_EmptySet DEF EnvelopesAreNumbered, AliceTurnsFirst, Sent
<1>5. ReadKeysAreSpent /\ plain \in [RatchetParties -> Seq(Nat)]
  BY <1>1 DEF ReadKeysAreSpent, Range
<1>6. \A p \in RatchetParties : IsRatchetState(state[p]) /\ InOrder(state[p])
  BY <1>1, <1>2, <1>3 DEF InOrder, RatchetParties
<1>7. ReadInv
  BY <1>1, <1>4, <1>5, <1>6, BoundsAssumption DEF ReadInv, RatchetParties
<1>8. Channel!ChannelInit
  BY <1>1, FS_EmptySet DEF Channel!ChannelInit, Sent
<1> QED
  BY <1>7, <1>8

(* For any number of messages, key pairs, skipped keys and envelopes       *)
(* handed over again: decrypt returns only what was encrypted, and each    *)
(* message once.                                                           *)
THEOREM RatchetImplementsChannel == RatchetSpec => ReadsOnce
BY ReadInit, RatchetStep, PTL DEF RatchetSpec, ReadsOnce, Channel!ChannelSpec

(***************************************************************************)
(* Any order opens.  As long as nothing is handed over twice, both parties *)
(* derive the same chains, and a message that was passed over has its key  *)
(* kept until it comes.                                                    *)
(***************************************************************************)

LEMMA RootGrows ==
  ASSUME NEW k \in Nat
  PROVE  /\ Append(RootOf(k), dh(k, k + 1)) = RootOf(k + 1)
         /\ Append(RootOf(k), dh(k + 1, k)) = RootOf(k + 1)
<1>1. dh(k, k + 1) = dh(k + 1, k)
  BY DEF dh
<1>2. RootOf(k) \in Seq(SUBSET Nat) /\ Len(RootOf(k)) = k
  <2>1. \A i \in 1..k : dh(i - 1, i) \in SUBSET Nat
    BY DEF dh
  <2>2. RootOf(k) \in [1..k -> SUBSET Nat]
    BY <2>1 DEF RootOf
  <2> QED
    BY <2>2
<1>3. RootOf(k + 1) = [i \in 1..(k + 1) |-> IF i = k + 1 THEN dh(k, k + 1) ELSE RootOf(k)[i]]
  <2>1. \A i \in 1..(k + 1) : i # k + 1 => i \in 1..k
    OBVIOUS
  <2>2. \A i \in 1..k : RootOf(k)[i] = dh(i - 1, i)
    BY DEF RootOf
  <2>3. (k + 1) - 1 = k
    OBVIOUS
  <2>4. \A i \in 1..(k + 1) :
          dh(i - 1, i) = IF i = k + 1 THEN dh(k, k + 1) ELSE RootOf(k)[i]
    BY <2>1, <2>2, <2>3
  <2> QED
    BY <2>4 DEF RootOf
<1>4. Append(RootOf(k), dh(k, k + 1))
        = [i \in 1..(Len(RootOf(k)) + 1) |->
             IF i = Len(RootOf(k)) + 1 THEN dh(k, k + 1) ELSE RootOf(k)[i]]
  BY <1>2
<1> QED
  BY <1>1, <1>2, <1>3, <1>4

LEMMA ChainSteps ==
  ASSUME NEW k, NEW n \in Nat
  PROVE  /\ ChainAt(k, n) # None /\ ChainOf(RootOf(k)) = ChainAt(k, 0)
         /\ kdfChainKey(ChainAt(k, n)) = ChainAt(k, n + 1)
         /\ \A m \in Nat : [ChainAt(k, n) EXCEPT !.step = @ + m] = ChainAt(k, n + m)
         /\ ChainAt(k, n).step = n
BY DEF ChainAt, None, ChainOf, kdfChainKey

IsStateRecord(s) ==
  s = [root |-> s.root, self |-> s.self, remote |-> s.remote,
       sendChain |-> s.sendChain, recvChain |-> s.recvChain, sendN |-> s.sendN,
       recvN |-> s.recvN, prevN |-> s.prevN, skipped |-> s.skipped]

LEMMA SkipIsRecord ==
  ASSUME NEW s, IsRatchetState(s), NEW until
  PROVE  LET t == skipMessageKeys(s, until) IN
         t = [root |-> t.root, self |-> t.self, remote |-> t.remote,
              sendChain |-> t.sendChain, recvChain |-> t.recvChain, sendN |-> t.sendN,
              recvN |-> t.recvN, prevN |-> t.prevN, skipped |-> t.skipped]
BY DEF IsRatchetState, skipMessageKeys

(* Passing over messages keeps the key of each.                            *)
LEMMA SkipFills ==
  ASSUME NEW s, IsRatchetState(s), TakesTurns(s), NEW until \in Nat
  PROVE  LET t == skipMessageKeys(s, until) IN
         /\ TakesTurns(t)
         /\ t.self = s.self /\ t.sendN = s.sendN /\ t.prevN = s.prevN /\ t.root = s.root
         /\ t.sendChain = s.sendChain /\ t.remote = s.remote
         /\ s.recvChain # None => t.recvN = IF until <= s.recvN THEN s.recvN ELSE until
         /\ \A id : id \in DOMAIN t.skipped <=>
              \/ id \in DOMAIN s.skipped
              \/ s.recvChain # None /\ \E n \in s.recvN..(until - 1) : id = <<s.remote, n>>
<1> DEFINE t == skipMessageKeys(s, until)
<1>1. CASE s.recvChain = None \/ until <= s.recvN
  <2>1. t = s
    BY <1>1 DEF skipMessageKeys
  <2>2. s.recvChain # None => s.recvN..(until - 1) = {}
    BY <1>1 DEF IsRatchetState
  <2> QED
    BY <1>1, <2>1, <2>2
<1>2. CASE s.recvChain # None /\ ~(until <= s.recvN)
  <2> DEFINE kept == Stash(s, until)
             new  == [id \in DOMAIN s.skipped \union DOMAIN kept |->
                        IF id \in DOMAIN kept THEN kept[id] ELSE s.skipped[id]]
  <2>1. /\ s.recvN \in Nat /\ s.self \in Nat /\ s.recvN < until /\ until - s.recvN \in Nat
        /\ s.recvChain = ChainAt(s.self - 1, s.recvN) /\ s.remote = s.self - 1 /\ s.self >= 2
    BY <1>2, BoundsAssumption DEF IsRatchetState, TakesTurns
  <2>2. /\ DOMAIN kept = {<<s.remote, n>> : n \in s.recvN..(until - 1)}
        /\ \A n \in s.recvN..(until - 1) : kept[<<s.remote, n>>] = KeyAt(s.remote, n)
    <3>1. ASSUME NEW n \in s.recvN..(until - 1)
          PROVE  [s.recvChain EXCEPT !.step = @ + (n - s.recvN)] = ChainAt(s.remote, n)
      <4>1. n - s.recvN \in Nat /\ s.recvN + (n - s.recvN) = n
        BY <2>1
      <4> QED
        BY <2>1, <4>1, ChainSteps
    <3> QED
      BY <3>1 DEF Stash, KeyAt
  <2>3. t = [s EXCEPT !.recvChain.step = @ + (until - s.recvN), !.recvN = until,
                      !.skipped = new]
    BY <1>2 DEF skipMessageKeys, kept
  <2> HIDE DEF kept
  <2>4. /\ DOMAIN new = DOMAIN s.skipped \union DOMAIN kept
        /\ \A id \in DOMAIN new : new[id] = KeyAt(id[1], id[2])
    <3>1. ASSUME NEW id \in DOMAIN kept
          PROVE  kept[id] = KeyAt(id[1], id[2])
      <4>1. PICK n \in s.recvN..(until - 1) : id = <<s.remote, n>>
        BY <2>2, <3>1
      <4>2. id[1] = s.remote /\ id[2] = n
        BY <4>1
      <4> QED
        BY <2>2, <4>1, <4>2
    <3>2. \A id \in DOMAIN s.skipped : s.skipped[id] = KeyAt(id[1], id[2])
      BY DEF TakesTurns
    <3> QED
      BY <3>1, <3>2
  <2> HIDE DEF new, t
  <2>5. /\ t.self = s.self /\ t.sendN = s.sendN /\ t.prevN = s.prevN /\ t.root = s.root
        /\ t.sendChain = s.sendChain /\ t.remote = s.remote
        /\ t.recvN = until /\ t.skipped = new /\ t.recvChain = ChainAt(s.self - 1, until)
    <3> DEFINE chain == [s.recvChain EXCEPT !.step = @ + (until - s.recvN)]
    <3>1. chain = ChainAt(s.self - 1, until)
      <4>1. s.recvN + (until - s.recvN) = until
        BY <2>1
      <4> QED
        BY <2>1, <4>1, ChainSteps
    <3>2. t = [s EXCEPT !.recvChain = chain, !.recvN = until, !.skipped = new]
      BY <2>3
    <3> HIDE DEF chain
    <3>3. t = [root |-> s.root, self |-> s.self, remote |-> s.remote,
               sendChain |-> s.sendChain, recvChain |-> chain, sendN |-> s.sendN,
               recvN |-> until, prevN |-> s.prevN, skipped |-> new]
      BY <3>2 DEF IsRatchetState
    <3> QED
      BY <3>1, <3>3
  <2>6. TakesTurns(t)
    BY <2>1, <2>4, <2>5 DEF TakesTurns
  <2>7. \A id : id \in DOMAIN t.skipped <=>
          id \in DOMAIN s.skipped \/ \E n \in s.recvN..(until - 1) : id = <<s.remote, n>>
    BY <2>2, <2>4, <2>5
  <2> QED
    BY <1>2, <2>1, <2>5, <2>6, <2>7 DEF t
<1> QED
  BY <1>1, <1>2

(* A turn onto the next key of the other party.                            *)
LEMMA TurnFollows ==
  ASSUME NEW s, IsRatchetState(s), TakesTurns(s), s.root = RootOf(s.self), NEW e,
         e.pn \in Nat, e.dhPub = s.self + 1
  PROVE  LET t == dhRatchetStep(s, e, s.self + 2) IN
         /\ TakesTurns(t) /\ t.self = s.self + 2 /\ t.recvN = 0 /\ t.sendN = 0
         /\ t.prevN = s.sendN /\ t.sendChain # None /\ t.recvChain # None
         /\ IsStateRecord(t)
         /\ \A id : id \in DOMAIN t.skipped <=>
              \/ id \in DOMAIN s.skipped
              \/ s.recvChain # None /\ \E n \in s.recvN..(e.pn - 1) : id = <<s.remote, n>>
<1> DEFINE skipping == skipMessageKeys(s, e.pn)
           recvRoot == Append(s.root, dh(s.self, e.dhPub))
           sendRoot == Append(recvRoot, dh(s.self + 2, e.dhPub))
           t == dhRatchetStep(s, e, s.self + 2)
<1>1. /\ s.self \in Nat /\ s.self + 1 \in Nat /\ (s.self + 1) + 1 = s.self + 2
      /\ (s.self + 2) - 1 = s.self + 1
  BY DEF IsRatchetState
<1>2. recvRoot = RootOf(s.self + 1)
  BY <1>1, RootGrows
<1>3. sendRoot = RootOf(s.self + 2)
  <2> HIDE DEF recvRoot
  <2>1. Append(RootOf(s.self + 1), dh((s.self + 1) + 1, s.self + 1)) = RootOf((s.self + 1) + 1)
    BY <1>1, RootGrows
  <2> QED
    BY <1>1, <1>2, <2>1
<1>4. t = [skipping EXCEPT !.root = sendRoot, !.self = s.self + 2, !.remote = e.dhPub,
                           !.sendChain = ChainOf(sendRoot), !.recvChain = ChainOf(recvRoot),
                           !.sendN = 0, !.recvN = 0, !.prevN = s.sendN]
  BY DEF dhRatchetStep
<1>5. skipping = [root |-> skipping.root, self |-> skipping.self, remote |-> skipping.remote,
                  sendChain |-> skipping.sendChain, recvChain |-> skipping.recvChain,
                  sendN |-> skipping.sendN, recvN |-> skipping.recvN,
                  prevN |-> skipping.prevN, skipped |-> skipping.skipped]
  BY SkipIsRecord
<1>6. /\ \A id \in DOMAIN skipping.skipped : skipping.skipped[id] = KeyAt(id[1], id[2])
      /\ \A id : id \in DOMAIN skipping.skipped <=>
           \/ id \in DOMAIN s.skipped
           \/ s.recvChain # None /\ \E n \in s.recvN..(e.pn - 1) : id = <<s.remote, n>>
  BY SkipFills DEF TakesTurns
<1> HIDE DEF skipping, recvRoot, sendRoot
<1>10. IsStateRecord(t)
  BY <1>4, <1>5 DEF IsStateRecord
<1> HIDE DEF t
<1>7. /\ t.root = sendRoot /\ t.self = s.self + 2 /\ t.remote = e.dhPub
      /\ t.sendChain = ChainOf(sendRoot) /\ t.recvChain = ChainOf(recvRoot)
      /\ t.sendN = 0 /\ t.recvN = 0 /\ t.prevN = s.sendN /\ t.skipped = skipping.skipped
  BY <1>4, <1>5
<1>8. /\ t.sendChain = ChainAt(s.self + 2, 0) /\ t.recvChain = ChainAt(s.self + 1, 0)
      /\ t.sendChain # None /\ t.recvChain # None
  BY <1>2, <1>3, <1>7, ChainSteps
<1>9. TakesTurns(t)
  BY <1>1, <1>3, <1>6, <1>7, <1>8 DEF TakesTurns
<1> QED
  BY <1>6, <1>7, <1>8, <1>9, <1>10 DEF t

LEMMA ChainReaches ==
  ASSUME NEW s, IsStateRecord(s), s.recvN \in Nat, NEW k, s.recvChain = ChainAt(k, s.recvN),
         NEW until \in Nat, s.recvN <= until
  PROVE  skipMessageKeys(s, until).recvChain = ChainAt(k, until)
<1> DEFINE t == skipMessageKeys(s, until)
<1>1. s.recvChain # None
  BY ChainSteps
<1>2. CASE until <= s.recvN
  <2>1. until = s.recvN
    BY <1>2
  <2> QED
    BY <1>2, <2>1 DEF skipMessageKeys
<1>3. CASE ~(until <= s.recvN)
  <2> DEFINE chain == [s.recvChain EXCEPT !.step = @ + (until - s.recvN)]
  <2>1. until - s.recvN \in Nat /\ s.recvN + (until - s.recvN) = until
    BY <1>3
  <2>2. chain = ChainAt(k, until)
    <3>1. [ChainAt(k, s.recvN) EXCEPT !.step = @ + (until - s.recvN)]
            = ChainAt(k, s.recvN + (until - s.recvN))
      BY <2>1, ChainSteps
    <3> QED
      BY <2>1, <3>1
  <2>3. t.recvChain = chain
    BY <1>1, <1>3 DEF skipMessageKeys, IsStateRecord
  <2> QED
    BY <2>2, <2>3
<1> QED
  BY <1>2, <1>3

(* Where an envelope is on the chains of the party it is for: before the   *)
(* next message of the receiving chain, further on in that chain, or in    *)
(* the one the other party turned to.                                      *)
InChain(s, e) ==
  /\ e.dhPub + 1 = s.self /\ e.n >= s.recvN
  /\ s.recvChain # None /\ ~IsNewKey(s, e)

InNewChain(p, e) ==
  LET s == state[p]
      r == state[Peer(p)]
  IN  /\ e.dhPub = s.self + 1 /\ e.dhPub = pairs /\ r.self = pairs
      /\ IsNewKey(s, e) /\ s.root = RootOf(s.self)
      /\ e.pn = r.prevN /\ e.n < r.sendN /\ r.sendChain # None

LEMMA StatesInTurn ==
  ASSUME ReadInv, InTurn, NEW p \in RatchetParties
  PROVE  /\ IsRatchetState(state[p]) /\ IsRatchetState(state[Peer(p)])
         /\ TakesTurns(state[p]) /\ TakesTurns(state[Peer(p)])
         /\ SentInTurn(p) /\ SentInTurn(Peer(p))
         /\ BehindIsReadOrKept(p) /\ BehindIsReadOrKept(Peer(p))
         /\ state[p].self \in Nat /\ state[Peer(p)].self \in Nat /\ pairs \in Nat
         /\ \/ state[p].self = pairs /\ state[Peer(p)].self + 1 = pairs
            \/ state[Peer(p)].self = pairs /\ state[p].self + 1 = pairs
         /\ state[p].sendChain = None => state[Peer(p)].self < 2
         /\ state[Peer(p)].sendChain = None => state[p].self < 2
         /\ state[p].self = state[Peer(p)].self + 1 => state[p].recvN <= state[Peer(p)].sendN
         /\ state[Peer(p)].self = state[p].self + 1 => state[Peer(p)].recvN <= state[p].sendN
         /\ Peer(p) \in RatchetParties /\ Peer(p) # p /\ Peer(Peer(p)) = p
         /\ RatchetParties = {p, Peer(p)}
<1>1. /\ Peer(p) \in RatchetParties /\ Peer(p) # p /\ Peer(Peer(p)) = p
      /\ RatchetParties = {p, Peer(p)}
  BY PartiesAssumption DEF Peer, RatchetParties
<1>2. /\ IsRatchetState(state[p]) /\ IsRatchetState(state[Peer(p)])
      /\ state[p].self \in Nat /\ state[Peer(p)].self \in Nat /\ pairs \in Nat
  BY <1>1 DEF ReadInv, IsRatchetState
<1>3. /\ \E q \in {p, Peer(p)} : state[q].self = pairs /\ state[Peer(q)].self + 1 = pairs
      /\ \A q \in {p, Peer(p)} :
           /\ TakesTurns(state[q]) /\ SentInTurn(q) /\ BehindIsReadOrKept(q)
           /\ state[q].sendChain = None => state[Peer(q)].self < 2
           /\ state[q].self = state[Peer(q)].self + 1 => state[q].recvN <= state[Peer(q)].sendN
  BY <1>1 DEF InTurn
<1> QED
  BY <1>1, <1>2, <1>3

LEMMA SentFacts ==
  ASSUME ReadInv, InTurn, NEW p \in RatchetParties, NEW e \in Sent(Peer(p))
  PROVE  /\ e.dhPub \in Nat /\ e.dhPub # 0 /\ e.n \in Nat /\ e.pn \in Nat
         /\ e.dhPub \in 0..MaxDhKeys /\ e.key = KeyAt(e.dhPub, e.n)
         /\ LET r == state[Peer(p)] IN
            \/ e.dhPub = r.self /\ r.sendChain # None /\ e.n < r.sendN /\ e.pn = r.prevN
            \/ e.dhPub + 2 = r.self /\ e.n < r.prevN
            \/ e.dhPub + 2 < r.self
<1>1. e.dhPub \in 0..MaxDhKeys /\ e.n \in Nat /\ e.pn \in Nat
  BY EnvelopeFacts
<1>2. SentInTurn(Peer(p))
  BY StatesInTurn
<1> QED
  BY <1>1, <1>2 DEF SentInTurn

LEMMA WhereItIs ==
  ASSUME ReadInv, InTurn, NEW p \in RatchetParties, NEW e \in Sent(Peer(p))
  PROVE  Behind(state[p], e) \/ InChain(state[p], e) \/ InNewChain(p, e)
<1> DEFINE s == state[p]
           r == state[Peer(p)]
<1>1. /\ IsRatchetState(s) /\ TakesTurns(s)
      /\ s.self \in Nat /\ r.self \in Nat /\ pairs \in Nat /\ s.recvN \in Nat
      /\ (s.self = pairs /\ r.self + 1 = pairs) \/ (r.self = pairs /\ s.self + 1 = pairs)
      /\ s.sendChain = None => r.self < 2
  BY StatesInTurn DEF IsRatchetState
<1>2. /\ e.dhPub \in 0..MaxDhKeys /\ e.dhPub \in Nat /\ e.n \in Nat /\ e.dhPub # 0
      /\ \/ e.dhPub = r.self /\ r.sendChain # None /\ e.n < r.sendN /\ e.pn = r.prevN
         \/ e.dhPub + 2 = r.self /\ e.n < r.prevN
         \/ e.dhPub + 2 < r.self
  BY SentFacts
<1> HIDE DEF s, r
<1>3. ASSUME e.dhPub + 1 = s.self
      PROVE  Behind(s, e) \/ InChain(s, e)
  <2>1. s.remote = e.dhPub /\ s.recvChain = ChainAt(s.self - 1, s.recvN)
    BY <1>1, <1>2, <1>3 DEF TakesTurns
  <2>2. s.recvChain # None
    BY <1>1, <2>1, ChainSteps
  <2> QED
    BY <1>1, <1>2, <1>3, <2>1, <2>2 DEF Behind, InChain, IsNewKey
<1>4. ASSUME e.dhPub = s.self + 1
      PROVE  InNewChain(p, e)
  <2>1. /\ e.dhPub = r.self /\ r.self = pairs
        /\ r.sendChain # None /\ e.n < r.sendN /\ e.pn = r.prevN
    BY <1>1, <1>2, <1>4
  <2>2. IsNewKey(s, e)
    <3>1. CASE s.self = 0
      BY <1>1, <1>2, <3>1, BoundsAssumption DEF TakesTurns, IsNewKey, NoKey
    <3>2. CASE s.self # 0
      BY <1>1, <1>2, <1>4, <3>2 DEF TakesTurns, IsNewKey
    <3> QED
      BY <3>1, <3>2
  <2>3. s.root = RootOf(s.self)
    <3>1. s.sendChain = None => s.self = 0
      BY <1>1, <1>4, <2>1
    <3> QED
      BY <1>1, <3>1 DEF TakesTurns
  <2> QED
    BY <1>4, <2>1, <2>2, <2>3 DEF InNewChain, s, r
<1>5. e.dhPub + 1 < s.self => Behind(s, e)
  BY DEF Behind
<1>6. e.dhPub + 1 < s.self \/ e.dhPub + 1 = s.self \/ e.dhPub = s.self + 1
  BY <1>1, <1>2
<1> QED
  BY <1>3, <1>4, <1>5, <1>6 DEF s

(* After a turn nothing that came before it is out of reach.               *)
LEMMA TurnKeepsOld ==
  ASSUME ReadInv, InTurn, NEW p \in RatchetParties, NEW e \in Sent(Peer(p)),
         InNewChain(p, e), NEW f \in Sent(Peer(p)),
         Behind(Turned(state[p], e), f)
  PROVE  f.body \in Range(plain[p]) \/ KeptFor(Turned(state[p], e), f)
<1> DEFINE s == state[p]
           r == state[Peer(p)]
           t == Turned(s, e)
<1>1. /\ IsRatchetState(s) /\ TakesTurns(s) /\ BehindIsReadOrKept(p)
      /\ s.self \in Nat /\ s.recvN \in Nat /\ e.pn \in Nat
      /\ f.n \in Nat /\ f.dhPub \in Nat /\ f.dhPub # 0
  <2>1. IsRatchetState(s) /\ TakesTurns(s) /\ BehindIsReadOrKept(p) /\ s.self \in Nat
    BY StatesInTurn
  <2> QED
    BY <2>1, SentFacts DEF IsRatchetState
<1>2. /\ e.dhPub = s.self + 1 /\ r.self = s.self + 1 /\ e.pn = r.prevN
      /\ s.root = RootOf(s.self) /\ t = dhRatchetStep(s, e, s.self + 2)
  <2>1. /\ e.dhPub = s.self + 1 /\ pairs = s.self + 1 /\ r.self = pairs
        /\ e.pn = r.prevN /\ s.root = RootOf(s.self) /\ IsNewKey(s, e)
    BY <1>1 DEF InNewChain
  <2>2. pairs + 1 = s.self + 2
    BY <1>1, <2>1
  <2> QED
    BY <2>1, <2>2 DEF Turned
<1>3. /\ t.self = s.self + 2 /\ t.recvN = 0
      /\ \A id : id \in DOMAIN t.skipped <=>
           \/ id \in DOMAIN s.skipped
           \/ s.recvChain # None /\ \E n \in s.recvN..(e.pn - 1) : id = <<s.remote, n>>
  BY <1>1, <1>2, TurnFollows
<1>4. \/ f.dhPub = r.self
      \/ f.dhPub + 2 = r.self /\ f.n < r.prevN
      \/ f.dhPub + 2 < r.self
  BY SentFacts
<1> HIDE DEF s, r, t
<1>5. f.dhPub + 1 < s.self + 2
  BY <1>1, <1>3 DEF Behind, t, s
<1>6. CASE Behind(s, f)
  <2>1. f.body \in Range(plain[p]) \/ KeptFor(s, f)
    BY <1>1, <1>6 DEF BehindIsReadOrKept, s
  <2> QED
    BY <1>3, <2>1 DEF KeptFor, s, t
<1>7. CASE ~Behind(s, f)
  <2>1. f.dhPub + 1 = s.self /\ f.n >= s.recvN /\ f.n < e.pn
    BY <1>1, <1>2, <1>4, <1>5, <1>7 DEF Behind
  <2>2. /\ s.self >= 2 /\ s.remote = f.dhPub /\ s.recvChain = ChainAt(s.self - 1, s.recvN)
    BY <1>1, <2>1 DEF TakesTurns
  <2>3. s.recvChain # None
    BY <1>1, <2>2, ChainSteps
  <2>4. f.n \in s.recvN..(e.pn - 1)
    BY <1>1, <2>1
  <2>5. <<f.dhPub, f.n>> \in DOMAIN t.skipped
    BY <1>3, <2>2, <2>3, <2>4
  <2> QED
    BY <2>5 DEF KeptFor, t, s
<1> QED
  BY <1>6, <1>7

(* The state in which an envelope that is not behind is opened.            *)
LEMMA TurnedInTurn ==
  ASSUME ReadInv, InTurn, NEW p \in RatchetParties, NEW e \in Sent(Peer(p)),
         InChain(state[p], e) \/ InNewChain(p, e)
  PROVE  LET s == state[p]
             t == Turned(s, e)
         IN  /\ IsStateRecord(t) /\ TakesTurns(t) /\ t.self = e.dhPub + 1
             /\ t.recvN \in Nat /\ t.recvN <= e.n /\ t.recvChain = ChainAt(e.dhPub, t.recvN)
             /\ \A f \in Sent(Peer(p)) :
                  Behind(t, f) => f.body \in Range(plain[p]) \/ KeptFor(t, f)
             /\ \/ InChain(s, e) /\ t = s
                \/ /\ InNewChain(p, e) /\ t.self = pairs + 1 /\ t.recvN = 0
                   /\ t.prevN = s.sendN /\ t.sendN = 0 /\ t.sendChain # None
<1> DEFINE s == state[p]
           t == Turned(s, e)
<1>1. /\ IsRatchetState(s) /\ TakesTurns(s) /\ BehindIsReadOrKept(p)
      /\ s.self \in Nat /\ s.recvN \in Nat /\ e.pn \in Nat /\ e.dhPub # 0
      /\ e.n \in Nat /\ e.dhPub \in Nat
  <2>1. IsRatchetState(s) /\ TakesTurns(s) /\ BehindIsReadOrKept(p) /\ s.self \in Nat
    BY StatesInTurn
  <2> QED
    BY <2>1, SentFacts DEF IsRatchetState
<1>2. CASE InChain(s, e)
  <2>1. /\ t = s /\ t.self = e.dhPub + 1 /\ t.recvN <= e.n
    BY <1>1, <1>2 DEF InChain, Turned
  <2>2. s.self >= 2 /\ s.self - 1 = e.dhPub
    BY <1>1, <2>1
  <2>3. t.recvChain = ChainAt(e.dhPub, t.recvN)
    BY <1>1, <2>1, <2>2 DEF TakesTurns
  <2>4. IsStateRecord(t)
    BY <1>1, <2>1 DEF IsRatchetState, IsStateRecord
  <2> QED
    BY <1>1, <1>2, <2>1, <2>3, <2>4 DEF BehindIsReadOrKept
<1>3. CASE InNewChain(p, e)
  <2>1. /\ e.dhPub = s.self + 1 /\ pairs = s.self + 1 /\ s.root = RootOf(s.self)
        /\ IsNewKey(s, e)
    BY <1>1, <1>3 DEF InNewChain
  <2>2. pairs + 1 = s.self + 2 /\ (s.self + 2) - 1 = e.dhPub /\ s.self + 2 >= 2
        /\ s.self + 2 = e.dhPub + 1
    BY <1>1, <2>1
  <2>3. t = dhRatchetStep(s, e, s.self + 2)
    BY <2>1, <2>2 DEF Turned
  <2>4. /\ TakesTurns(t) /\ t.self = s.self + 2 /\ t.recvN = 0 /\ t.sendN = 0
        /\ t.prevN = s.sendN /\ t.sendChain # None /\ IsStateRecord(t)
    BY <1>1, <2>1, <2>3, TurnFollows
  <2>5. \A f \in Sent(Peer(p)) : Behind(t, f) => f.body \in Range(plain[p]) \/ KeptFor(t, f)
    BY <1>3, TurnKeepsOld
  <2> HIDE DEF t
  <2>6. t.recvChain = ChainAt(e.dhPub, t.recvN)
    BY <1>1, <2>2, <2>4 DEF TakesTurns
  <2> QED
    BY <1>1, <1>3, <2>2, <2>4, <2>5, <2>6 DEF t
<1> QED
  BY <1>2, <1>3

(* So it opens.                                                            *)
LEMMA UnreadOpens ==
  ASSUME ReadInv, InTurn, NEW p \in RatchetParties, NEW e \in Sent(Peer(p)),
         e.body \notin Range(plain[p])
  PROVE  Opens(p, e)
<1>1. /\ e.key = KeyAt(e.dhPub, e.n) /\ TakesTurns(state[p]) /\ BehindIsReadOrKept(p)
      /\ e.n \in Nat
  BY StatesInTurn, SentFacts
<1>2. CASE KeptFor(state[p], e)
  <2>1. state[p].skipped[<<e.dhPub, e.n>>] = KeyAt(e.dhPub, e.n)
    BY <1>1, <1>2 DEF KeptFor, TakesTurns
  <2> QED
    BY <1>1, <1>2, <2>1 DEF Opens
<1>3. CASE ~KeptFor(state[p], e)
  <2> DEFINE t == Turned(state[p], e)
  <2>1. InChain(state[p], e) \/ InNewChain(p, e)
    BY <1>1, <1>3, WhereItIs DEF BehindIsReadOrKept
  <2>2. /\ IsStateRecord(t) /\ t.recvN \in Nat /\ t.recvN <= e.n
        /\ t.recvChain = ChainAt(e.dhPub, t.recvN)
    BY <2>1, TurnedInTurn
  <2>3. skipMessageKeys(t, e.n).recvChain = ChainAt(e.dhPub, e.n)
    BY <1>1, <2>2, ChainReaches
  <2> QED
    BY <1>1, <1>3, <2>3 DEF Opens, KeyAt
<1> QED
  BY <1>2, <1>3

LEMMA AppendRange ==
  ASSUME NEW q \in Seq(Nat), NEW m \in Nat
  PROVE  m \in Range(Append(q, m)) /\ Range(q) \subseteq Range(Append(q, m))
<1>1. /\ DOMAIN Append(q, m) = 1..(Len(q) + 1) /\ Append(q, m)[Len(q) + 1] = m
      /\ DOMAIN q = 1..Len(q) /\ \A i \in 1..Len(q) : Append(q, m)[i] = q[i]
      /\ Len(q) \in Nat
  OBVIOUS
<1> QED
  BY <1>1 DEF Range

(* What p sends and what it knows of the turns stays, or p takes its turn. *)
StaysOrTurns(p, u) ==
  LET s == state[p]
      r == state[Peer(p)]
  IN  \/ /\ pairs' = pairs /\ u.self = s.self /\ u.sendN = s.sendN
         /\ u.prevN = s.prevN /\ u.sendChain = s.sendChain
      \/ /\ pairs' = pairs + 1 /\ r.self = pairs /\ s.self + 1 = pairs /\ u.self = pairs + 1
         /\ u.prevN = s.sendN /\ u.sendN = 0 /\ u.sendChain # None /\ r.sendChain # None

LEMMA PartyMovesOn ==
  ASSUME ReadInv, InTurn, NEW p \in RatchetParties, NEW u, TakesTurns(u), StaysOrTurns(p, u),
         u.self = state[Peer(p)].self + 1 => u.recvN <= state[Peer(p)].sendN,
         state' = [state EXCEPT ![p] = u], UNCHANGED wire,
         \A q \in RatchetParties : q # p => plain'[q] = plain[q],
         BehindIsReadOrKept(p)'
  PROVE  InTurn'
<1> DEFINE s == state[p]
           q == Peer(p)
           r == state[q]
<1>1. /\ IsRatchetState(s) /\ TakesTurns(s) /\ TakesTurns(r) /\ SentInTurn(p) /\ SentInTurn(q)
      /\ BehindIsReadOrKept(q)
      /\ s.self \in Nat /\ r.self \in Nat /\ pairs \in Nat
      /\ \/ s.self = pairs /\ r.self + 1 = pairs
         \/ r.self = pairs /\ s.self + 1 = pairs
      /\ s.sendChain = None => r.self < 2
      /\ r.sendChain = None => s.self < 2
      /\ r.self = s.self + 1 => r.recvN <= s.sendN
      /\ q \in RatchetParties /\ q # p /\ Peer(q) = p /\ RatchetParties = {p, q}
  BY StatesInTurn
<1>2. state'[p] = u /\ state'[q] = r
  BY <1>1 DEF ReadInv
<1> HIDE DEF s, q, r
<1>3. /\ TakesTurns(u) /\ BehindIsReadOrKept(p)' /\ Peer(p) = q
      /\ u.self = r.self + 1 => u.recvN <= r.sendN
  BY DEF r, q
<1>4. \/ /\ pairs' = pairs /\ u.self = s.self /\ u.sendN = s.sendN /\ u.prevN = s.prevN
         /\ u.sendChain = s.sendChain
      \/ /\ pairs' = pairs + 1 /\ r.self = pairs /\ s.self + 1 = pairs /\ u.self = pairs + 1
         /\ u.prevN = s.sendN /\ u.sendN = 0 /\ u.sendChain # None /\ r.sendChain # None
  BY DEF StaysOrTurns, s, r, q
<1>5. \/ state'[p].self = pairs' /\ state'[q].self + 1 = pairs'
      \/ state'[q].self = pairs' /\ state'[p].self + 1 = pairs'
  BY <1>1, <1>2, <1>4
<1>6. SentInTurn(p)'
  <2>1. \A f \in Sent(p) :
          /\ f.dhPub \in Nat /\ f.key = KeyAt(f.dhPub, f.n) /\ f.dhPub # 0
          /\ \/ f.dhPub = s.self /\ s.sendChain # None /\ f.n < s.sendN /\ f.pn = s.prevN
             \/ f.dhPub + 2 = s.self /\ f.n < s.prevN
             \/ f.dhPub + 2 < s.self
    BY <1>1, SentFacts DEF s
  <2>2. \A f \in Sent(p) :
          /\ f.key = KeyAt(f.dhPub, f.n) /\ f.dhPub # 0
          /\ \/ f.dhPub = u.self /\ u.sendChain # None /\ f.n < u.sendN /\ f.pn = u.prevN
             \/ f.dhPub + 2 = u.self /\ f.n < u.prevN
             \/ f.dhPub + 2 < u.self
    <3>1. CASE /\ u.self = s.self /\ u.sendN = s.sendN /\ u.prevN = s.prevN
               /\ u.sendChain = s.sendChain
      BY <2>1, <3>1
    <3>2. CASE u.self = s.self + 2 /\ u.prevN = s.sendN
      BY <1>1, <2>1, <3>2
    <3> QED
      BY <1>1, <1>4, <3>1, <3>2
  <2> QED
    BY <1>2, <2>2 DEF SentInTurn, Sent
<1>7. SentInTurn(q)'
  BY <1>1, <1>2 DEF SentInTurn, Sent, r
<1>8. BehindIsReadOrKept(q)'
  BY <1>1, <1>2 DEF BehindIsReadOrKept, Sent, r
<1>9. /\ state'[p].sendChain = None => state'[q].self < 2
      /\ state'[q].sendChain = None => state'[p].self < 2
  BY <1>1, <1>2, <1>4
<1>10. state'[p].self = state'[q].self + 1 => state'[p].recvN <= state'[q].sendN
  BY <1>2, <1>3
<1>11. state'[q].self = state'[p].self + 1 => state'[q].recvN <= state'[p].sendN
  BY <1>1, <1>2, <1>4
<1>12. \A f, g \in wire' : f.from = g.from /\ f.dhPub = g.dhPub /\ f.n = g.n => f = g
  BY DEF InTurn
<1>13. \E a \in RatchetParties : state'[a].self = pairs' /\ state'[Peer(a)].self + 1 = pairs'
  BY <1>1, <1>3, <1>5
<1>14. \A a \in RatchetParties :
         /\ TakesTurns(state'[a]) /\ SentInTurn(a)' /\ BehindIsReadOrKept(a)'
         /\ state'[a].sendChain = None => state'[Peer(a)].self < 2
         /\ state'[a].self = state'[Peer(a)].self + 1 => state'[a].recvN <= state'[Peer(a)].sendN
  <2>1. /\ TakesTurns(state'[p]) /\ SentInTurn(p)' /\ BehindIsReadOrKept(p)'
        /\ state'[p].sendChain = None => state'[Peer(p)].self < 2
        /\ state'[p].self = state'[Peer(p)].self + 1 => state'[p].recvN <= state'[Peer(p)].sendN
    BY <1>2, <1>3, <1>6, <1>9, <1>10
  <2>2. /\ TakesTurns(state'[q]) /\ SentInTurn(q)' /\ BehindIsReadOrKept(q)'
        /\ state'[q].sendChain = None => state'[Peer(q)].self < 2
        /\ state'[q].self = state'[Peer(q)].self + 1 => state'[q].recvN <= state'[Peer(q)].sendN
    BY <1>1, <1>2, <1>7, <1>8, <1>9, <1>11
  <2> QED
    BY <1>1, <2>1, <2>2
<1> QED
  BY <1>12, <1>13, <1>14 DEF InTurn

(* The parties still take turns when one has turned, or read on.           *)
LEMMA PartyReadsOn ==
  ASSUME ReadInv, InTurn, NEW p \in RatchetParties, NEW e \in Sent(Peer(p)),
         InChain(state[p], e) \/ InNewChain(p, e), NEW u, TakesTurns(u),
         u.self = Turned(state[p], e).self, u.sendN = Turned(state[p], e).sendN,
         u.prevN = Turned(state[p], e).prevN, u.sendChain = Turned(state[p], e).sendChain,
         u.recvN = Turned(state[p], e).recvN \/ u.recvN = e.n + 1,
         state' = [state EXCEPT ![p] = u],
         pairs' = IF IsNewKey(state[p], e) THEN pairs + 1 ELSE pairs, UNCHANGED wire,
         \A q \in RatchetParties : q # p => plain'[q] = plain[q],
         BehindIsReadOrKept(p)'
  PROVE  InTurn'
<1> DEFINE s == state[p]
           q == Peer(p)
           r == state[q]
           t == Turned(s, e)
<1>1. /\ IsRatchetState(s) /\ TakesTurns(s) /\ TakesTurns(r) /\ SentInTurn(p) /\ SentInTurn(q)
      /\ BehindIsReadOrKept(q)
      /\ s.self \in Nat /\ r.self \in Nat /\ pairs \in Nat
      /\ \/ s.self = pairs /\ r.self + 1 = pairs
         \/ r.self = pairs /\ s.self + 1 = pairs
      /\ s.sendChain = None => r.self < 2
      /\ r.sendChain = None => s.self < 2
      /\ r.self = s.self + 1 => r.recvN <= s.sendN
      /\ q \in RatchetParties /\ q # p /\ Peer(q) = p /\ RatchetParties = {p, q}
  BY StatesInTurn
<1>2. /\ e.dhPub \in Nat /\ e.n \in Nat /\ r.sendN \in Nat
      /\ e.dhPub = r.self => e.n < r.sendN
  <2>1. r.sendN \in Nat
    BY StatesInTurn DEF IsRatchetState
  <2> QED
    BY <1>1, <2>1, SentFacts DEF IsRatchetState
<1>3. /\ t.self = e.dhPub + 1 /\ t.recvN \in Nat /\ t.recvN <= e.n
      /\ \/ InChain(s, e) /\ t = s
         \/ /\ InNewChain(p, e) /\ t.self = pairs + 1 /\ t.recvN = 0
            /\ t.prevN = s.sendN /\ t.sendN = 0 /\ t.sendChain # None
  BY TurnedInTurn
<1> HIDE DEF s, q, r, t
<1>4. /\ u.self = t.self /\ u.sendN = t.sendN /\ u.prevN = t.prevN /\ u.sendChain = t.sendChain
      /\ u.recvN \in Nat /\ u.recvN <= e.n + 1
      /\ pairs' = IF IsNewKey(s, e) THEN pairs + 1 ELSE pairs
  BY <1>2, <1>3 DEF s, t
<1>5. \/ /\ pairs' = pairs /\ u.self = s.self /\ u.sendN = s.sendN /\ u.prevN = s.prevN
         /\ u.sendChain = s.sendChain
      \/ /\ pairs' = pairs + 1 /\ r.self = pairs /\ s.self + 1 = pairs /\ u.self = pairs + 1
         /\ u.prevN = s.sendN /\ u.sendN = 0 /\ u.sendChain # None /\ r.sendChain # None
  <2>1. CASE InChain(s, e) /\ t = s
    BY <1>4, <2>1 DEF InChain
  <2>2. CASE /\ InNewChain(p, e) /\ t.self = pairs + 1 /\ t.recvN = 0
             /\ t.prevN = s.sendN /\ t.sendN = 0 /\ t.sendChain # None
    BY <1>1, <1>4, <2>2 DEF InNewChain, s, r, q
  <2> QED
    BY <1>3, <2>1, <2>2
<1>6. StaysOrTurns(p, u)
  BY <1>5 DEF StaysOrTurns, s, r, q
<1>7. u.self = r.self + 1 => u.recvN <= r.sendN
  <2>1. u.self = r.self + 1 => e.dhPub = r.self
    BY <1>1, <1>2, <1>3, <1>4
  <2> QED
    BY <1>2, <1>4, <2>1
<1> QED
  BY <1>6, <1>7, PartyMovesOn DEF r, q

(***************************************************************************)
(* The steps, while nothing is handed over twice.                          *)
(***************************************************************************)

LEMMA SkippedInTurn ==
  ASSUME ReadInv, InTurn, NEW p \in RatchetParties, NEW e \in Sent(Peer(p)),
         trySkipped(p, e), ~repeated'
  PROVE  InTurn'
<1> DEFINE s == state[p]
           u == Forget(s, e)
           left == Restrict(s.skipped, DOMAIN s.skipped \ {<<e.dhPub, e.n>>})
<1>1. /\ IsRatchetState(s) /\ TakesTurns(s) /\ BehindIsReadOrKept(p)
      /\ DOMAIN state = RatchetParties
      /\ s.self = state[Peer(p)].self + 1 => s.recvN <= state[Peer(p)].sendN
      /\ plain \in [RatchetParties -> Seq(Nat)]
  BY StatesInTurn DEF ReadInv
<1>2. /\ KeptFor(s, e) /\ e.key = KeyAt(e.dhPub, e.n)
      /\ state' = [state EXCEPT ![p] = u] /\ UNCHANGED <<pairs, wire>>
      /\ Result(p, e, s.skipped[<<e.dhPub, e.n>>])
  BY SentFacts DEF trySkipped
<1>3. plain' = [plain EXCEPT ![p] = Append(@, e.body)]
  <2>1. s.skipped[<<e.dhPub, e.n>>] = e.key
    BY <1>1, <1>2 DEF TakesTurns, KeptFor
  <2> QED
    BY <1>2, <2>1 DEF Result
<1>4. /\ u = [s EXCEPT !.skipped = left]
      /\ DOMAIN left = DOMAIN s.skipped \ {<<e.dhPub, e.n>>}
      /\ \A id \in DOMAIN left : left[id] = s.skipped[id]
  BY DEF Forget, Restrict
<1> HIDE DEF left, u, s
<1>5. u = [root |-> s.root, self |-> s.self, remote |-> s.remote,
           sendChain |-> s.sendChain, recvChain |-> s.recvChain, sendN |-> s.sendN,
           recvN |-> s.recvN, prevN |-> s.prevN, skipped |-> left]
  BY <1>1, <1>4 DEF IsRatchetState
<1>6. TakesTurns(u)
  BY <1>1, <1>4, <1>5 DEF TakesTurns
<1>7. StaysOrTurns(p, u)
  BY <1>2, <1>5 DEF StaysOrTurns, s
<1>8. BehindIsReadOrKept(p)'
  <2>1. /\ e.body \in Range(plain'[p]) /\ Range(plain[p]) \subseteq Range(plain'[p])
    <3>1. plain[p] \in Seq(Nat) /\ plain'[p] = Append(plain[p], e.body) /\ e.body \in Nat
      BY <1>1, <1>3, EnvelopeFacts
    <3>2. /\ e.body \in Range(Append(plain[p], e.body))
          /\ Range(plain[p]) \subseteq Range(Append(plain[p], e.body))
      BY <3>1, AppendRange
    <3> QED
      BY <3>1, <3>2
  <2>2. state'[p] = u
    BY <1>1, <1>2
  <2>3. ASSUME NEW f \in Sent(Peer(p)), Behind(u, f)
        PROVE  f.body \in Range(plain'[p]) \/ KeptFor(u, f)
    <3>1. f.body \in Range(plain[p]) \/ KeptFor(s, f)
      BY <1>1, <1>5, <2>3 DEF BehindIsReadOrKept, Behind, s
    <3>2. CASE <<f.dhPub, f.n>> = <<e.dhPub, e.n>>
      <4>1. f \in wire /\ e \in wire /\ f.from = e.from /\ f.dhPub = e.dhPub /\ f.n = e.n
        BY <3>2 DEF Sent
      <4>2. f = e
        BY <4>1 DEF InTurn
      <4> QED
        BY <2>1, <4>2
    <3>3. CASE <<f.dhPub, f.n>> # <<e.dhPub, e.n>>
      BY <1>4, <1>5, <2>1, <3>1, <3>3 DEF KeptFor
    <3> QED
      BY <3>2, <3>3
  <2> QED
    BY <1>2, <2>2, <2>3 DEF BehindIsReadOrKept, Sent
<1>9. \A q \in RatchetParties : q # p => plain'[q] = plain[q]
  BY <1>1, <1>3
<1> QED
  BY <1>1, <1>2, <1>5, <1>6, <1>7, <1>8, <1>9, PartyMovesOn DEF s

(* What is read is at its place in the receiving chain.                    *)
LEMMA ChainInTurn ==
  ASSUME ReadInv, InTurn, NEW p \in RatchetParties, NEW e \in Sent(Peer(p)),
         ratchetDecrypt(p, e), ~repeated'
  PROVE  InTurn'
<1> DEFINE s == state[p]
           t == Turned(s, e)
           v == skipMessageKeys(t, e.n)
           u == [v EXCEPT !.recvChain = kdfChainKey(@), !.recvN = @ + 1]
<1>1. /\ ~KeptFor(s, e)
      /\ IsNewKey(s, e) => pairs < MaxDhKeys
      /\ state' = [state EXCEPT ![p] = u] /\ UNCHANGED wire
      /\ pairs' = IF IsNewKey(s, e) THEN pairs + 1 ELSE pairs
      /\ Result(p, e, MessageKey(v.recvChain))
  BY DEF ratchetDecrypt
<1>2. /\ e.dhPub \in Nat /\ e.n \in Nat /\ e.key = KeyAt(e.dhPub, e.n)
      /\ BehindIsReadOrKept(p) /\ DOMAIN state = RatchetParties
      /\ plain \in [RatchetParties -> Seq(Nat)] /\ e.body \in Nat
  BY SentFacts, EnvelopeFacts, StatesInTurn DEF ReadInv
<1>3. InChain(s, e) \/ InNewChain(p, e)
  <2>1. e.body \notin Range(plain[p])
    BY <1>1 DEF Result
  <2> QED
    BY <1>1, <1>2, <2>1, WhereItIs DEF BehindIsReadOrKept
<1>4. /\ TakesTurns(t) /\ t.self = e.dhPub + 1 /\ t.recvN \in Nat /\ t.recvN <= e.n
      /\ t.recvChain = ChainAt(e.dhPub, t.recvN)
      /\ \A f \in Sent(Peer(p)) : Behind(t, f) => f.body \in Range(plain[p]) \/ KeptFor(t, f)
  BY <1>3, TurnedInTurn
<1>5. IsRatchetState(t) /\ t.recvChain # None
  BY <1>1, TurnedKeeps DEF Keeps
<1>6. /\ TakesTurns(v) /\ IsStateRecord(v)
      /\ v.self = t.self /\ v.sendN = t.sendN /\ v.prevN = t.prevN /\ v.root = t.root
      /\ v.sendChain = t.sendChain /\ v.remote = t.remote
      /\ v.recvN = IF e.n <= t.recvN THEN t.recvN ELSE e.n
      /\ \A id : id \in DOMAIN v.skipped <=>
           id \in DOMAIN t.skipped \/ \E n \in t.recvN..(e.n - 1) : id = <<t.remote, n>>
      /\ v.recvChain = ChainAt(e.dhPub, e.n)
  <2>1. IsStateRecord(t)
    BY <1>5 DEF IsRatchetState, IsStateRecord
  <2>2. v.recvChain = ChainAt(e.dhPub, e.n)
    BY <1>2, <1>4, <2>1, ChainReaches
  <2>3. IsStateRecord(v)
    BY <1>5, SkipIsRecord DEF IsStateRecord
  <2> HIDE DEF t
  <2> QED
    BY <1>2, <1>4, <1>5, <2>2, <2>3, SkipFills
<1>7. v.recvN = e.n /\ t.remote = e.dhPub
  BY <1>2, <1>4, <1>6 DEF TakesTurns
<1>8. plain' = [plain EXCEPT ![p] = Append(@, e.body)]
  BY <1>1, <1>2, <1>6 DEF Result, KeyAt
<1> HIDE DEF s, t, v, u
<1>9. u = [root |-> v.root, self |-> v.self, remote |-> v.remote,
           sendChain |-> v.sendChain, recvChain |-> ChainAt(e.dhPub, e.n + 1),
           sendN |-> v.sendN, recvN |-> e.n + 1, prevN |-> v.prevN, skipped |-> v.skipped]
  <2>1. kdfChainKey(v.recvChain) = ChainAt(e.dhPub, e.n + 1)
    BY <1>2, <1>6, ChainSteps
  <2>2. u = [v EXCEPT !.recvChain = ChainAt(e.dhPub, e.n + 1), !.recvN = e.n + 1]
    BY <1>6, <1>7, <2>1 DEF u, IsStateRecord
  <2> QED
    BY <1>6, <2>2 DEF IsStateRecord
<1>10. TakesTurns(u)
  <2>1. u.self - 1 = e.dhPub /\ u.self = v.self /\ ~(u.self < 2)
    <3>1. e.dhPub # 0
      BY SentFacts
    <3> QED
      BY <1>2, <1>4, <1>6, <1>9, <3>1
  <2> QED
    BY <1>6, <1>9, <2>1 DEF TakesTurns
<1>11. BehindIsReadOrKept(p)'
  <2>1. /\ e.body \in Range(plain'[p]) /\ Range(plain[p]) \subseteq Range(plain'[p])
    <3>1. plain[p] \in Seq(Nat) /\ plain'[p] = Append(plain[p], e.body)
      BY <1>2, <1>8
    <3>2. /\ e.body \in Range(Append(plain[p], e.body))
          /\ Range(plain[p]) \subseteq Range(Append(plain[p], e.body))
      BY <1>2, <3>1, AppendRange
    <3> QED
      BY <3>1, <3>2
  <2>2. state'[p] = u
    BY <1>1, <1>2
  <2>3. ASSUME NEW f \in Sent(Peer(p)), Behind(u, f)
        PROVE  f.body \in Range(plain'[p]) \/ KeptFor(u, f)
    <3>1. f.n \in Nat /\ f.dhPub \in Nat
      BY SentFacts
    <3>2. CASE Behind(t, f)
      BY <1>4, <1>6, <1>9, <2>1, <3>2 DEF KeptFor
    <3>3. CASE ~Behind(t, f)
      <4>1. f.dhPub = e.dhPub /\ f.n >= t.recvN /\ f.n < e.n + 1
        BY <1>2, <1>4, <1>6, <1>9, <2>3, <3>1, <3>3 DEF Behind
      <4>2. CASE f.n = e.n
        <5>1. f \in wire /\ e \in wire /\ f.from = e.from /\ f.dhPub = e.dhPub /\ f.n = e.n
          BY <4>1, <4>2 DEF Sent
        <5>2. f = e
          BY <5>1 DEF InTurn
        <5> QED
          BY <2>1, <5>2
      <4>3. CASE f.n # e.n
        <5>1. f.n \in t.recvN..(e.n - 1)
          BY <1>2, <1>4, <3>1, <4>1, <4>3
        <5>2. <<f.dhPub, f.n>> \in DOMAIN u.skipped
          BY <1>6, <1>7, <1>9, <4>1, <5>1
        <5> QED
          BY <5>2 DEF KeptFor
      <4> QED
        BY <4>2, <4>3
    <3> QED
      BY <3>2, <3>3
  <2> QED
    BY <1>1, <2>2, <2>3 DEF BehindIsReadOrKept, Sent
<1>12. \A q \in RatchetParties : q # p => plain'[q] = plain[q]
  BY <1>2, <1>8
<1>13. /\ u.self = t.self /\ u.sendN = t.sendN /\ u.prevN = t.prevN
       /\ u.sendChain = t.sendChain /\ u.recvN = e.n + 1
  BY <1>6, <1>9
<1> QED
  BY <1>1, <1>3, <1>10, <1>11, <1>12, <1>13, PartyReadsOn DEF s, t

(* A refusal is for a chain too far on, which is where p stays or turns.   *)
LEMMA RefusalInTurn ==
  ASSUME ReadInv, InTurn, NEW p \in RatchetParties, NEW e \in Sent(Peer(p)),
         TooManySkipped(p, e), ~repeated'
  PROVE  InTurn'
<1> DEFINE s == state[p]
           t == Turned(s, e)
<1>1. /\ BehindIsReadOrKept(p) /\ DOMAIN state = RatchetParties
      /\ ~KeptFor(s, e) /\ e.body \notin Range(plain[p]) /\ UNCHANGED <<wire, plain>>
  BY StatesInTurn DEF ReadInv, TooManySkipped
<1>2. InChain(s, e) \/ InNewChain(p, e)
  BY <1>1, WhereItIs DEF BehindIsReadOrKept
<1>3. CASE UNCHANGED <<state, pairs>>
  BY <1>1, <1>3 DEF InTurn, SentInTurn, BehindIsReadOrKept, Sent
<1>4. CASE /\ state' = [state EXCEPT ![p] = t]
           /\ pairs' = IF IsNewKey(s, e) THEN pairs + 1 ELSE pairs
  <2>1. /\ TakesTurns(t)
        /\ \A f \in Sent(Peer(p)) : Behind(t, f) => f.body \in Range(plain[p]) \/ KeptFor(t, f)
    BY <1>2, TurnedInTurn
  <2>2. state'[p] = t
    BY <1>1, <1>4
  <2>3. BehindIsReadOrKept(p)'
    <3> HIDE DEF t
    <3> QED
      BY <1>1, <2>1, <2>2 DEF BehindIsReadOrKept, Sent
  <2> QED
    BY <1>1, <1>2, <1>4, <2>1, <2>3, PartyReadsOn
<1> QED
  BY <1>3, <1>4 DEF TooManySkipped

(* A party in its turn sends along the chain of its own key pair.          *)
LEMMA SendChainInTurn ==
  ASSUME NEW s, IsRatchetState(s), TakesTurns(s), MaySend(s)
  PROVE  LET t == WithSendChain(s)
             u == [t EXCEPT !.sendChain = kdfChainKey(@), !.sendN = @ + 1]
         IN  /\ TakesTurns(u) /\ s.self # 0
             /\ MessageKey(t.sendChain) = KeyAt(s.self, s.sendN)
             /\ t.self = s.self /\ t.sendN = s.sendN /\ t.prevN = s.prevN
             /\ u.self = s.self /\ u.recvN = s.recvN /\ u.prevN = s.prevN
             /\ u.sendN = s.sendN + 1 /\ u.sendChain # None /\ u.skipped = s.skipped
<1> DEFINE t == WithSendChain(s)
           u == [t EXCEPT !.sendChain = kdfChainKey(@), !.sendN = @ + 1]
<1>1. /\ s.self \in Nat /\ s.sendN \in Nat /\ IsStateRecord(s)
      /\ s.self # 0
  BY DEF IsRatchetState, IsStateRecord, TakesTurns, MaySend
<1>2. /\ t = [root |-> RootOf(s.self), self |-> s.self, remote |-> s.remote,
              sendChain |-> ChainAt(s.self, s.sendN), recvChain |-> s.recvChain,
              sendN |-> s.sendN, recvN |-> s.recvN, prevN |-> s.prevN, skipped |-> s.skipped]
  <2>1. CASE s.sendChain # None
    <3>1. s.sendChain = ChainAt(s.self, s.sendN) /\ s.root = RootOf(s.self)
      BY <2>1 DEF TakesTurns
    <3> QED
      BY <1>1, <2>1, <3>1 DEF WithSendChain, IsStateRecord
  <2>2. CASE s.sendChain = None
    <3>1. s.self = 1 /\ s.remote = 0 /\ s.sendN = 0 /\ s.root = RootOf(0)
      BY <1>1, <2>2, ChainSteps DEF TakesTurns
    <3>2. Append(s.root, dh(s.self, s.remote)) = RootOf(1)
      <4>1. Append(RootOf(0), dh(0 + 1, 0)) = RootOf(0 + 1)
        BY RootGrows
      <4> QED
        BY <3>1, <4>1
    <3>3. t = [s EXCEPT !.root = RootOf(1), !.sendChain = ChainOf(RootOf(1))]
      BY <2>2, <3>2 DEF WithSendChain
    <3>4. ChainOf(RootOf(1)) = ChainAt(1, 0)
      BY ChainSteps
    <3> QED
      BY <1>1, <3>1, <3>3, <3>4 DEF IsStateRecord
  <2> QED
    BY <2>1, <2>2
<1> HIDE DEF t
<1>3. kdfChainKey(t.sendChain) = ChainAt(s.self, s.sendN + 1)
  BY <1>1, <1>2, ChainSteps
<1>4. u = [root |-> RootOf(s.self), self |-> s.self, remote |-> s.remote,
           sendChain |-> ChainAt(s.self, s.sendN + 1), recvChain |-> s.recvChain,
           sendN |-> s.sendN + 1, recvN |-> s.recvN, prevN |-> s.prevN,
           skipped |-> s.skipped]
  <2>1. u = [t EXCEPT !.sendChain = kdfChainKey(t.sendChain), !.sendN = t.sendN + 1]
    BY <1>2
  <2>2. t.sendN = s.sendN
    BY <1>2
  <2> HIDE DEF u
  <2> QED
    BY <1>2, <1>3, <2>1, <2>2
<1> HIDE DEF u
<1>5. TakesTurns(u)
  BY <1>1, <1>4 DEF TakesTurns
<1>6. u.sendChain # None
  BY <1>1, <1>4, ChainSteps
<1>7. MessageKey(t.sendChain) = KeyAt(s.self, s.sendN)
  BY <1>2 DEF KeyAt
<1> QED
  BY <1>1, <1>2, <1>4, <1>5, <1>6, <1>7 DEF t, u

LEMMA EncryptInTurn ==
  ASSUME ReadInv, InTurn, NEW p \in RatchetParties, ratchetEncrypt(p)
  PROVE  InTurn'
<1> DEFINE s == state[p]
           q == Peer(p)
           r == state[q]
           t == WithSendChain(s)
           u == [t EXCEPT !.sendChain = kdfChainKey(@), !.sendN = @ + 1]
           new == [from |-> p, dhPub |-> t.self, pn |-> t.prevN, n |-> t.sendN,
                   key |-> MessageKey(t.sendChain), body |-> Cardinality(Sent(p)) + 1]
<1>1. /\ IsRatchetState(s) /\ TakesTurns(s) /\ TakesTurns(r) /\ SentInTurn(p) /\ SentInTurn(q)
      /\ BehindIsReadOrKept(p) /\ BehindIsReadOrKept(q)
      /\ s.self \in Nat /\ r.self \in Nat /\ pairs \in Nat
      /\ \/ s.self = pairs /\ r.self + 1 = pairs
         \/ r.self = pairs /\ s.self + 1 = pairs
      /\ r.sendChain = None => s.self < 2
      /\ s.self = r.self + 1 => s.recvN <= r.sendN
      /\ r.self = s.self + 1 => r.recvN <= s.sendN
      /\ q \in RatchetParties /\ q # p /\ Peer(q) = p /\ RatchetParties = {p, q}
      /\ DOMAIN state = RatchetParties /\ Peer(p) = q
  BY StatesInTurn DEF ReadInv
<1>2. s.sendN \in Nat /\ s.recvN \in Nat /\ r.recvN \in Nat
  BY StatesInTurn DEF IsRatchetState
<1>3. /\ wire' = wire \union {new} /\ state' = [state EXCEPT ![p] = u]
      /\ UNCHANGED <<pairs, plain>> /\ MaySend(s)
  BY DEF ratchetEncrypt
<1>4. /\ TakesTurns(u) /\ s.self # 0
      /\ MessageKey(t.sendChain) = KeyAt(s.self, s.sendN)
      /\ t.self = s.self /\ t.sendN = s.sendN /\ t.prevN = s.prevN
      /\ u.self = s.self /\ u.recvN = s.recvN /\ u.prevN = s.prevN
      /\ u.sendN = s.sendN + 1 /\ u.sendChain # None /\ u.skipped = s.skipped
  BY <1>1, <1>3, SendChainInTurn
<1>5. /\ new.from = p /\ new.dhPub = s.self /\ new.pn = s.prevN /\ new.n = s.sendN
      /\ new.key = KeyAt(s.self, s.sendN)
  BY <1>4
<1> HIDE DEF s, q, r, t, u, new
<1>6. /\ Sent(p)' = Sent(p) \union {new} /\ Sent(q)' = Sent(q)
      /\ state'[p] = u /\ state'[q] = r
  <2>1. state[q] = r
    BY DEF r
  <2> QED
    BY <1>1, <1>3, <1>5, <2>1 DEF Sent
<1>7. \A f \in Sent(p) :
        /\ f.dhPub \in Nat /\ f.n \in Nat /\ f.key = KeyAt(f.dhPub, f.n) /\ f.dhPub # 0
        /\ \/ f.dhPub = s.self /\ s.sendChain # None /\ f.n < s.sendN /\ f.pn = s.prevN
           \/ f.dhPub + 2 = s.self /\ f.n < s.prevN
           \/ f.dhPub + 2 < s.self
  BY <1>1, SentFacts DEF s
<1>8. \A f \in Sent(p)' :
        /\ f.key = KeyAt(f.dhPub, f.n) /\ f.dhPub # 0
        /\ \/ f.dhPub = u.self /\ u.sendChain # None /\ f.n < u.sendN /\ f.pn = u.prevN
           \/ f.dhPub + 2 = u.self /\ f.n < u.prevN
           \/ f.dhPub + 2 < u.self
  <2>1. ASSUME NEW f \in Sent(p)
        PROVE  /\ f.key = KeyAt(f.dhPub, f.n) /\ f.dhPub # 0
               /\ \/ f.dhPub = u.self /\ u.sendChain # None /\ f.n < u.sendN /\ f.pn = u.prevN
                  \/ f.dhPub + 2 = u.self /\ f.n < u.prevN
                  \/ f.dhPub + 2 < u.self
    BY <1>2, <1>4, <1>7
  <2>2. /\ new.key = KeyAt(new.dhPub, new.n) /\ new.dhPub # 0 /\ new.dhPub = u.self
        /\ new.n < u.sendN /\ new.pn = u.prevN
    BY <1>2, <1>4, <1>5
  <2> QED
    BY <1>4, <1>6, <2>1, <2>2
<1>9. SentInTurn(p)' /\ SentInTurn(q)'
  BY <1>1, <1>6, <1>8 DEF SentInTurn, r
<1>10. BehindIsReadOrKept(p)'
  BY <1>1, <1>3, <1>4, <1>6 DEF BehindIsReadOrKept, Behind, KeptFor, s
<1>11. BehindIsReadOrKept(q)'
  <2>1. ~Behind(r, new)
    BY <1>1, <1>2, <1>5 DEF Behind
  <2>2. \A f \in Sent(p) : Behind(r, f) => f.body \in Range(plain[q]) \/ KeptFor(r, f)
    BY <1>1 DEF BehindIsReadOrKept, r
  <2> QED
    BY <1>1, <1>3, <1>6, <2>1, <2>2 DEF BehindIsReadOrKept
<1>12. \A f, g \in wire' : f.from = g.from /\ f.dhPub = g.dhPub /\ f.n = g.n => f = g
  <2>1. \A f \in wire : f.from = p => f.dhPub # new.dhPub \/ f.n # new.n
    <3>1. \A f \in Sent(p) : f.dhPub # s.self \/ f.n # s.sendN
      BY <1>1, <1>2, <1>7
    <3> QED
      BY <1>5, <3>1 DEF Sent
  <2>2. \A f, g \in wire : f.from = g.from /\ f.dhPub = g.dhPub /\ f.n = g.n => f = g
    BY DEF InTurn
  <2> QED
    BY <1>3, <1>5, <2>1, <2>2
<1>13. \E a \in RatchetParties : state'[a].self = pairs' /\ state'[Peer(a)].self + 1 = pairs'
  BY <1>1, <1>3, <1>4, <1>6
<1>14. \A a \in RatchetParties :
         /\ TakesTurns(state'[a]) /\ SentInTurn(a)' /\ BehindIsReadOrKept(a)'
         /\ state'[a].sendChain = None => state'[Peer(a)].self < 2
         /\ state'[a].self = state'[Peer(a)].self + 1 => state'[a].recvN <= state'[Peer(a)].sendN
  <2>1. /\ TakesTurns(state'[p]) /\ state'[p].sendChain # None
        /\ state'[p].self = state'[q].self + 1 => state'[p].recvN <= state'[q].sendN
    BY <1>1, <1>4, <1>6
  <2>2. /\ TakesTurns(state'[q])
        /\ state'[q].sendChain = None => state'[p].self < 2
        /\ state'[q].self = state'[p].self + 1 => state'[q].recvN <= state'[p].sendN
    BY <1>1, <1>2, <1>4, <1>6
  <2> QED
    BY <1>1, <1>9, <1>10, <1>11, <2>1, <2>2
<1> QED
  BY <1>12, <1>13, <1>14 DEF InTurn

LEMMA OpenInit == RatchetInit => OpenInv
<1> SUFFICES ASSUME RatchetInit PROVE OpenInv
  OBVIOUS
<1>1. ReadInv
  BY ReadInit
<1>2. /\ state[Alice] = InitiatorState /\ state[Bob] = ResponderState
      /\ wire = {} /\ pairs = 1
      /\ Peer(Alice) = Bob /\ Peer(Bob) = Alice /\ RatchetParties = {Alice, Bob}
  BY PartiesAssumption DEF RatchetInit, RatchetParties, Peer
<1>3. RootOf(0) = << >>
  BY DEF RootOf
<1>4. /\ InitiatorState.self = 1 /\ InitiatorState.remote = 0 /\ InitiatorState.sendN = 0
      /\ InitiatorState.sendChain = None /\ InitiatorState.recvChain = None
      /\ InitiatorState.root = RootOf(0) /\ InitiatorState.recvN = 0
      /\ DOMAIN InitiatorState.skipped = {}
      /\ ResponderState.self = 0 /\ ResponderState.remote = NoKey /\ ResponderState.sendN = 0
      /\ ResponderState.sendChain = None /\ ResponderState.recvChain = None
      /\ ResponderState.root = RootOf(0) /\ ResponderState.recvN = 0
      /\ DOMAIN ResponderState.skipped = {}
  BY <1>3 DEF InitiatorState, ResponderState, SharedSecret
<1>5. TakesTurns(InitiatorState) /\ TakesTurns(ResponderState)
  BY <1>4 DEF TakesTurns
<1>6. InTurn
  BY <1>2, <1>4, <1>5 DEF InTurn, SentInTurn, BehindIsReadOrKept, Sent
<1> QED
  BY <1>1, <1>6 DEF OpenInv

LEMMA OpenStep ==
  ASSUME OpenInv, [RatchetNext]_ratchetVars
  PROVE  OpenInv'
<1>1. ReadInv' /\ ReadInv
  BY RatchetStep DEF OpenInv
<1>2. ASSUME ~repeated' PROVE InTurn'
  <2>1. InTurn
    <3>1. CASE UNCHANGED ratchetVars
      BY <1>2, <3>1 DEF OpenInv, ratchetVars
    <3>2. ASSUME NEW p \in RatchetParties, ratchetEncrypt(p)
          PROVE  InTurn
      BY <1>2, <3>2 DEF OpenInv, ratchetEncrypt
    <3>3. ASSUME NEW p \in RatchetParties, NEW e \in Sent(Peer(p)),
                 trySkipped(p, e) \/ ratchetDecrypt(p, e) \/ TooManySkipped(p, e)
          PROVE  InTurn
      <4>1. repeated' = (repeated \/ e.body \in Range(plain[p]))
        BY <3>3 DEF trySkipped, ratchetDecrypt, TooManySkipped, Result
      <4> QED
        BY <1>2, <4>1 DEF OpenInv
    <3> QED
      BY <3>1, <3>2, <3>3 DEF RatchetNext
  <2>2. CASE UNCHANGED ratchetVars
    BY <2>1, <2>2 DEF ratchetVars, InTurn, SentInTurn, BehindIsReadOrKept, Sent
  <2>3. ASSUME NEW p \in RatchetParties, ratchetEncrypt(p)
        PROVE  InTurn'
    BY <1>1, <2>1, <2>3, EncryptInTurn
  <2>4. ASSUME NEW p \in RatchetParties, NEW e \in Sent(Peer(p)),
               trySkipped(p, e) \/ ratchetDecrypt(p, e) \/ TooManySkipped(p, e)
        PROVE  InTurn'
    BY <1>1, <1>2, <2>1, <2>4, SkippedInTurn, ChainInTurn, RefusalInTurn
  <2> QED
    BY <2>2, <2>3, <2>4 DEF RatchetNext
<1> QED
  BY <1>1, <1>2 DEF OpenInv

(* For any number of messages, key pairs, skipped keys and refusals: as    *)
(* long as nothing is handed over twice, an envelope that was not read     *)
(* opens whenever it comes, unless more than MAX_SKIP before it are        *)
(* missing.                                                                *)
THEOREM EnvelopesOpen == RatchetSpec => []AnyOrderOpens
<1>1. OpenInv => AnyOrderOpens
  BY UnreadOpens DEF OpenInv, AnyOrderOpens
<1> QED
  BY <1>1, OpenInit, OpenStep, PTL DEF RatchetSpec

(***************************************************************************)
(* The types.  What a party read are as many messages as it read.          *)
(***************************************************************************)

RatchetTypes ==
  /\ refused \in 0..MaxRepeats /\ repeated \in BOOLEAN
  /\ \A p \in RatchetParties : /\ state[p].self \in 0..pairs
                               /\ state[p].remote \in (0..pairs) \union {NoKey}
                               /\ Len(plain[p]) = Cardinality(Range(plain[p]))
  /\ \A e \in wire : e.dhPub \in 0..pairs

LEMMA ReadAreWritten ==
  ASSUME ReadInv, NEW p \in RatchetParties
  PROVE  /\ IsFiniteSet(Range(plain[p]))
         /\ Cardinality(Range(plain[p])) <= Cardinality(Sent(Peer(p)))
<1> DEFINE c == Cardinality(Sent(Peer(p)))
<1>1. Sent(Peer(p)) \subseteq wire /\ IsFiniteSet(wire)
  BY DEF Sent, ReadInv, EnvelopesAreNumbered
<1>2. c \in Nat
  BY <1>1, FS_Subset, FS_CardinalityType
<1>3. \A m \in Range(plain[p]) : m \in 1..c
  BY EnvelopeFacts DEF ReadInv, ReadKeysAreSpent
<1>4. IsFiniteSet(1..c) /\ Cardinality(1..c) = c
  BY <1>2, FS_Interval
<1>5. Range(plain[p]) \in SUBSET (1..c)
  BY <1>3
<1> HIDE DEF c
<1> QED
  BY <1>4, <1>5, FS_Subset DEF c

LEMMA TypesHold ==
  ASSUME ReadInv, RatchetTypes
  PROVE  RatchetTypeOK
<1>1. \A p \in RatchetParties : Len(plain[p]) <= Cardinality(Sent(Peer(p)))
  BY ReadAreWritten DEF RatchetTypes
<1>2. \A p \in RatchetParties : \A id \in DOMAIN state[p].skipped :
        state[p].skipped[id].key = "message"
  BY DEF ReadInv, IsRatchetState, MessageKeys
<1> QED
  BY <1>1, <1>2 DEF ReadInv, RatchetTypes, RatchetTypeOK

(* Decrypting adds a message that was not read before, or none.            *)
LEMMA LengthsStep ==
  ASSUME ReadInv, RatchetTypes, [Channel!ChannelNext]_(Channel!channelVars)
  PROVE  \A p \in RatchetParties : Len(plain'[p]) = Cardinality(Range(plain'[p]))
<1>1. /\ plain \in [RatchetParties -> Seq(Nat)]
      /\ \A p \in RatchetParties : Len(plain[p]) = Cardinality(Range(plain[p]))
  BY DEF ReadInv, RatchetTypes
<1>2. CASE UNCHANGED plain
  BY <1>1, <1>2
<1>3. ASSUME NEW p \in RatchetParties, Channel!Decrypt(p)
      PROVE  \A q \in RatchetParties : Len(plain'[q]) = Cardinality(Range(plain'[q]))
  <2>1. PICK m \in Nat :
          /\ m \notin Channel!ToSet(plain[p])
          /\ plain' = [plain EXCEPT ![p] = Append(@, m)]
    <3>1. PICK q \in RatchetParties \ {p} :
            \E m \in (1..Cardinality(Sent(q))) \ Channel!ToSet(plain[p]) :
              plain' = [plain EXCEPT ![p] = Append(@, m)]
      BY <1>3 DEF Channel!Decrypt
    <3>2. PICK m \in (1..Cardinality(Sent(q))) \ Channel!ToSet(plain[p]) :
            plain' = [plain EXCEPT ![p] = Append(@, m)]
      BY <3>1
    <3>3. \A c : \A i \in 1..c : i \in Nat
      OBVIOUS
    <3>4. m \in Nat /\ m \notin Channel!ToSet(plain[p])
      BY <3>2, <3>3
    <3> QED
      BY <3>2, <3>4
  <2>2. m \in Nat /\ m \notin Range(plain[p]) /\ plain[p] \in Seq(Nat)
    BY <1>1, <2>1 DEF Channel!ToSet, Range
  <2>3. /\ plain'[p] = Append(plain[p], m)
        /\ \A r \in RatchetParties : r # p => plain'[r] = plain[r]
    BY <1>1, <2>1
  <2>4. Range(plain'[p]) = Range(plain[p]) \union {m} /\ Len(plain'[p]) = Len(plain[p]) + 1
    <3>1. \A x \in Range(Append(plain[p], m)) : x \in Range(plain[p]) \/ x = m
      BY <2>2 DEF Range
    <3>2. m \in Range(Append(plain[p], m)) /\ Range(plain[p]) \subseteq Range(Append(plain[p], m))
      BY <2>2, AppendRange
    <3>3. Len(Append(plain[p], m)) = Len(plain[p]) + 1
      BY <2>2
    <3> QED
      BY <2>3, <3>1, <3>2, <3>3
  <2>5. IsFiniteSet(Range(plain[p]))
    BY ReadAreWritten
  <2>6. Cardinality(Range(plain'[p])) = Cardinality(Range(plain[p])) + 1
    BY <2>2, <2>4, <2>5, FS_AddElement
  <2> QED
    BY <1>1, <2>3, <2>4, <2>6
<1> QED
  BY <1>2, <1>3 DEF Channel!ChannelNext, Channel!channelVars, Channel!Encrypt

LEMMA TurnTypes ==
  ASSUME ReadInv, RatchetTypes, NEW p \in RatchetParties, NEW e \in Sent(Peer(p)),
         IsNewKey(state[p], e) => pairs < MaxDhKeys
  PROVE  LET t == Turned(state[p], e)
             next == IF IsNewKey(state[p], e) THEN pairs + 1 ELSE pairs
         IN  t.self \in 0..next /\ t.remote \in (0..next) \union {NoKey} /\ next >= pairs
<1>1. /\ IsRatchetState(state[p]) /\ InOrder(state[p]) /\ pairs \in 1..MaxDhKeys
      /\ e.dhPub \in 0..MaxDhKeys /\ e.pn \in Nat /\ e.dhPub \in 0..pairs
      /\ state[p].self \in 0..pairs /\ state[p].remote \in (0..pairs) \union {NoKey}
  BY EnvelopeFacts DEF ReadInv, RatchetTypes
<1>2. CASE IsNewKey(state[p], e)
  <2>1. pairs + 1 \in 0..MaxDhKeys
    BY <1>1, <1>2, BoundsAssumption
  <2>2. Turned(state[p], e) = dhRatchetStep(state[p], e, pairs + 1)
    BY <1>2 DEF Turned
  <2>3. Turned(state[p], e).self = pairs + 1 /\ Turned(state[p], e).remote = e.dhPub
    BY <1>1, <2>1, <2>2, TurnKeeps
  <2> QED
    BY <1>1, <1>2, <2>3
<1>3. CASE ~IsNewKey(state[p], e)
  BY <1>1, <1>3 DEF Turned
<1> QED
  BY <1>2, <1>3

(* A party whose key pairs are known, while nothing is sent.               *)
LEMMA KnownPairs ==
  ASSUME ReadInv, RatchetTypes, NEW p \in RatchetParties, NEW u,
         state' = [state EXCEPT ![p] = u], UNCHANGED wire, pairs' >= pairs, pairs' \in Nat,
         u.self \in 0..pairs', u.remote \in (0..pairs') \union {NoKey}
  PROVE  /\ \A q \in RatchetParties : /\ state'[q].self \in 0..pairs'
                                      /\ state'[q].remote \in (0..pairs') \union {NoKey}
         /\ \A e \in wire' : e.dhPub \in 0..pairs'
<1>1. /\ DOMAIN state = RatchetParties /\ pairs \in Nat
      /\ \A q \in RatchetParties : /\ state[q].self \in 0..pairs
                                   /\ state[q].remote \in (0..pairs) \union {NoKey}
      /\ \A e \in wire : e.dhPub \in 0..pairs
  BY DEF ReadInv, RatchetTypes
<1>2. \A i \in 0..pairs : i \in 0..pairs'
  BY <1>1
<1>3. state'[p] = u /\ \A q \in RatchetParties : q # p => state'[q] = state[q]
  BY <1>1
<1> QED
  BY <1>1, <1>2, <1>3

LEMMA TypesStep ==
  ASSUME ReadInv, RatchetTypes, [RatchetNext]_ratchetVars
  PROVE  RatchetTypes'
<1>1. /\ \A p \in RatchetParties : Len(plain'[p]) = Cardinality(Range(plain'[p]))
      /\ \A p \in RatchetParties : IsRatchetState(state[p]) /\ InOrder(state[p])
      /\ pairs \in Nat /\ refused \in 0..MaxRepeats /\ repeated \in BOOLEAN
      /\ \A p \in RatchetParties : /\ state[p].self \in 0..pairs
                                   /\ state[p].remote \in (0..pairs) \union {NoKey}
      /\ DOMAIN state = RatchetParties
  BY RatchetStep, LengthsStep DEF ReadInv, RatchetTypes
<1>2. CASE UNCHANGED ratchetVars
  BY <1>2 DEF ratchetVars, RatchetTypes
<1>3. ASSUME NEW p \in RatchetParties, ratchetEncrypt(p)
      PROVE  RatchetTypes'
  <2> DEFINE s == WithSendChain(state[p])
             u == [s EXCEPT !.sendChain = kdfChainKey(@), !.sendN = @ + 1]
  <2>1. /\ state' = [state EXCEPT ![p] = u]
        /\ \A e \in wire' : e \in wire \/ e.dhPub = s.self
        /\ UNCHANGED <<pairs, refused, repeated>>
    BY <1>3 DEF ratchetEncrypt
  <2>2. u.self = state[p].self /\ u.remote = state[p].remote /\ s.self = state[p].self
    BY <1>1, SendChainKeeps
  <2> HIDE DEF s, u
  <2>3. state'[p] = u /\ \A q \in RatchetParties : q # p => state'[q] = state[q]
    BY <1>1, <2>1
  <2> QED
    BY <1>1, <2>1, <2>2, <2>3 DEF RatchetTypes
<1>4. ASSUME NEW p \in RatchetParties, NEW e \in Sent(Peer(p)),
             trySkipped(p, e) \/ ratchetDecrypt(p, e) \/ TooManySkipped(p, e)
      PROVE  RatchetTypes'
  <2>1. /\ repeated' = (repeated \/ e.body \in Range(plain[p])) /\ UNCHANGED wire
        /\ refused' = refused \/ (refused < MaxRepeats /\ refused' = refused + 1)
    BY <1>4 DEF trySkipped, ratchetDecrypt, TooManySkipped, Result
  <2>2. refused' \in 0..MaxRepeats /\ repeated' \in BOOLEAN
    BY <1>1, <2>1, BoundsAssumption
  <2>3. ASSUME ~UNCHANGED <<state, pairs>>
        PROVE  \E u : /\ state' = [state EXCEPT ![p] = u] /\ pairs' >= pairs /\ pairs' \in Nat
                     /\ u.self \in 0..pairs' /\ u.remote \in (0..pairs') \union {NoKey}
    <3> DEFINE t == Turned(state[p], e)
               v == skipMessageKeys(t, e.n)
    <3>1. CASE trySkipped(p, e)
      <4>1. /\ state' = [state EXCEPT ![p] = Forget(state[p], e)] /\ pairs' = pairs
            /\ KeptFor(state[p], e)
        BY <3>1 DEF trySkipped
      <4>2. /\ Forget(state[p], e).self = state[p].self
            /\ Forget(state[p], e).remote = state[p].remote
        BY <1>1, <4>1, ForgetSpends
      <4>3. /\ Forget(state[p], e).self \in 0..pairs'
            /\ Forget(state[p], e).remote \in (0..pairs') \union {NoKey}
            /\ pairs' >= pairs /\ pairs' \in Nat
        BY <1>1, <4>1, <4>2
      <4> QED
        BY <4>1, <4>3
    <3>2. CASE ratchetDecrypt(p, e)
      <4> DEFINE u == [v EXCEPT !.recvChain = kdfChainKey(@), !.recvN = @ + 1]
      <4>1. /\ state' = [state EXCEPT ![p] = u]
            /\ IsNewKey(state[p], e) => pairs < MaxDhKeys
            /\ pairs' = IF IsNewKey(state[p], e) THEN pairs + 1 ELSE pairs
        BY <3>2 DEF ratchetDecrypt
      <4>2. /\ t.self \in 0..pairs' /\ t.remote \in (0..pairs') \union {NoKey}
            /\ pairs' >= pairs /\ pairs' \in Nat
        BY <1>1, <4>1, TurnTypes
      <4>3. Keeps(state[p], t) /\ t.recvChain # None /\ e.n \in Nat
        BY <4>1, TurnedKeeps, EnvelopeFacts
      <4> HIDE DEF t
      <4>4. Keeps(t, v) /\ v.recvChain # None /\ v.self = t.self /\ v.remote = t.remote
        BY <4>3, SkipKeeps DEF Keeps
      <4> HIDE DEF v
      <4>5. u.self = t.self /\ u.remote = t.remote
        BY <4>4, ChainAdvances DEF Keeps
      <4> QED
        BY <4>1, <4>2, <4>5
    <3>3. CASE TooManySkipped(p, e)
      <4>1. /\ state' = [state EXCEPT ![p] = t]
            /\ IsNewKey(state[p], e) => pairs < MaxDhKeys
            /\ pairs' = IF IsNewKey(state[p], e) THEN pairs + 1 ELSE pairs
        BY <2>3, <3>3 DEF TooManySkipped
      <4>2. /\ t.self \in 0..pairs' /\ t.remote \in (0..pairs') \union {NoKey}
            /\ pairs' >= pairs /\ pairs' \in Nat
        BY <1>1, <4>1, TurnTypes
      <4> QED
        BY <4>1, <4>2
    <3> QED
      BY <1>4, <3>1, <3>2, <3>3
  <2>4. /\ \A q \in RatchetParties : /\ state'[q].self \in 0..pairs'
                                     /\ state'[q].remote \in (0..pairs') \union {NoKey}
        /\ \A f \in wire' : f.dhPub \in 0..pairs'
    <3>1. CASE UNCHANGED <<state, pairs>>
      BY <1>1, <2>1, <3>1 DEF RatchetTypes
    <3>2. CASE ~UNCHANGED <<state, pairs>>
      BY <2>1, <2>3, <3>2, KnownPairs
    <3> QED
      BY <3>1, <3>2
  <2> QED
    BY <1>1, <2>2, <2>4 DEF RatchetTypes
<1> QED
  BY <1>2, <1>3, <1>4 DEF RatchetNext

(* Ratchet keys are pairs there are, and a party reads no more messages    *)
(* than were written to it.                                                *)
THEOREM RatchetTyped == RatchetSpec => []RatchetTypeOK
<1>1. RatchetInit => ReadInv /\ RatchetTypes
  <2> SUFFICES ASSUME RatchetInit PROVE RatchetTypes
    BY ReadInit
  <2>1. /\ state[Alice] = InitiatorState /\ state[Bob] = ResponderState
        /\ wire = {} /\ pairs = 1 /\ refused = 0 /\ repeated = FALSE
        /\ plain[Alice] = << >> /\ plain[Bob] = << >>
    BY PartiesAssumption DEF RatchetInit, RatchetParties
  <2>2. Range(<< >>) = {} /\ Len(<< >>) = 0
    BY DEF Range
  <2>3. /\ InitiatorState.self = 1 /\ InitiatorState.remote = 0
        /\ ResponderState.self = 0 /\ ResponderState.remote = NoKey
    BY DEF InitiatorState, ResponderState
  <2>4. Cardinality({}) = 0
    BY FS_EmptySet
  <2>5. /\ state[Alice].self \in 0..pairs /\ state[Alice].remote \in 0..pairs
        /\ state[Bob].self \in 0..pairs /\ state[Bob].remote = NoKey
    BY <2>1, <2>3
  <2>6. /\ Len(plain[Alice]) = Cardinality(Range(plain[Alice]))
        /\ Len(plain[Bob]) = Cardinality(Range(plain[Bob]))
    BY <2>1, <2>2, <2>4
  <2>7. refused \in 0..MaxRepeats /\ repeated \in BOOLEAN
    <3>1. repeated \in BOOLEAN
      BY <2>1
    <3>2. 0 \in 0..MaxRepeats
      BY BoundsAssumption
    <3> QED
      BY <2>1, <3>1, <3>2
  <2>8. \A p \in RatchetParties : /\ state[p].self \in 0..pairs
                                  /\ state[p].remote \in (0..pairs) \union {NoKey}
                                  /\ Len(plain[p]) = Cardinality(Range(plain[p]))
    BY <2>5, <2>6 DEF RatchetParties
  <2> QED
    BY <2>1, <2>7, <2>8 DEF RatchetTypes
<1>2. ReadInv /\ RatchetTypes /\ [RatchetNext]_ratchetVars => (ReadInv /\ RatchetTypes)'
  BY RatchetStep, TypesStep
<1> QED
  BY <1>1, <1>2, TypesHold, PTL DEF RatchetSpec
================================================================================

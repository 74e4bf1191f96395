--------------------------- MODULE MCGroupMessages ---------------------------
EXTENDS GroupMessages, TLC
CONSTANTS c, b, e, dc, db
MCOwner == [d \in Devices |-> IF d = dc THEN c ELSE b]
Symm == Permutations(Requests)

(* What the properties can still tell apart.  A refused message is never   *)
(* read, and what of a stored one is received matters on devices of who    *)
(* was evicted before it: a request is sent once, so which accounts these  *)
(* may be shows early.  What the others hold matters while they may seal,  *)
(* or add members.                                                         *)
At(pcs)     == {m \in Messages : msg[m].pc \in pcs}
ToStore     == At({"none", "sealed", "authorized"})
MayEvict(u) == \E r \in Requests :
  req[r].pc = "unsent" \/ (req[r].op = "remove" /\ req[r].target = u)
Readers     == {d \in Devices : \/ ToStore # {} /\ MayEvict(Owner[d])
                                \/ \E m \in Stored : Owner[d] \in msg[m].evicted}
Waiting     == {d \in Readers : ~(ToStore \union Stored \subseteq seen[d])}
KeyHolders  == {d \in Devices : d \in Readers \/ At({"none"}) # {} \/ Owner[d] = Owner[Creator]}
KindMatters == At({"none"}) # {} \/ \E m \in At({"sealed"}) : Owner[msg[m].dev] # Owner[Creator]
MessageView(m) ==
  IF m \in Stored
    THEN [msg[m] EXCEPT !.pc = IF Waiting = {} THEN "sent" ELSE @,
                        !.to = @ \intersect (IF msg[m].pc = "sent" THEN {}
                                             ELSE {Owner[d] : d \in Waiting})]
    ELSE msg[m]
View ==
  IF ToStore \union Stored = {} THEN <<"refused">>
  ELSE <<serverVars, identity, unlocked, req,
         [d \in KeyHolders |-> <<cache[d], fetching[d]>>],
         [m \in Messages |-> MessageView(m)], IF KindMatters THEN kind ELSE "",
         Waiting \intersect online, Waiting \intersect room,
         {d \in Waiting : loading[d]}, [d \in Readers |-> seen[d]]>>
===============================================================================

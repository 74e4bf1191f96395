----------------------------- MODULE KeyAgreement -----------------------------
(***************************************************************************)
(* What conversation keys are for: of each slot, which is a direct chat or *)
(* a version of a group's key, one key is chosen, once and for this slot   *)
(* alone, and whoever holds a key of the slot holds the chosen one.        *)
(*                                                                         *)
(* The agreement lasts until a step ends it; nothing is promised of what   *)
(* comes after.  DirectChats and ConversationKeys implement it.  Sources:  *)
(* the contract of generateCK, sealCKToMembers, primeCK and getCK in       *)
(* client/src/lib/crypto/conversationKeys.ts.                              *)
(***************************************************************************)

CONSTANTS
  Slots,    \* what keys are chosen for
  Keys,     \* keys that may be generated
  NoKey,    \* no key: none chosen, or no copy held
  Holders   \* where copies are: rows of the server, caches, messages

VARIABLES
  chosen,   \* the key of each slot
  held,     \* the copies
  lasting   \* the agreement has not ended

agreementVars == <<chosen, held, lasting>>

Nothing == [s \in Slots |-> NoKey]

AgreementInit ==
  /\ chosen = Nothing /\ held = [h \in Holders |-> Nothing]
  /\ lasting = TRUE

(* Holders may take copies and drop them, in any number.                   *)
Copies(c) ==
  {f \in [Holders -> [Slots -> Keys \union {NoKey}]] :
     \A h \in Holders, s \in Slots : f[h][s] \in {NoKey, c[s]}}

Choose(s, k) ==
  /\ chosen[s] = NoKey /\ \A t \in Slots : chosen[t] # k
  /\ chosen' = [chosen EXCEPT ![s] = k]
  /\ held' \in Copies(chosen')
  /\ UNCHANGED lasting

Copy == held' \in Copies(chosen) /\ UNCHANGED <<chosen, lasting>>

End ==
  /\ chosen' = Nothing /\ held' = [h \in Holders |-> Nothing]
  /\ lasting' = FALSE

AgreementNext ==
  lasting /\ (Copy \/ End \/ \E s \in Slots, k \in Keys : Choose(s, k))

AgreementSpec == AgreementInit /\ [][AgreementNext]_agreementVars
===============================================================================

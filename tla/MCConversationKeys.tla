-------------------------- MODULE MCConversationKeys --------------------------
EXTENDS ConversationKeys, TLC
CONSTANTS c, b, e, dc, db
MCOwner == [d \in Devices |-> IF d = dc THEN c ELSE b]
Symm == Permutations(Requests)
===============================================================================

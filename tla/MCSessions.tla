----------------------------- MODULE MCSessions -----------------------------
EXTENDS Sessions, TLC
Symm == Permutations(Sessions) \union Permutations(Handlers)
===============================================================================

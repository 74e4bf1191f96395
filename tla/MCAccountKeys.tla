----------------------------- MODULE MCAccountKeys -----------------------------
EXTENDS AccountKeys, TLC
Symm == Permutations(Calls) \union Permutations(Tokens) \union Permutations(Codes)
===============================================================================

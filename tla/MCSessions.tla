----------------------------- MODULE MCSessions -----------------------------
EXTENDS Sessions, TLC

Identical == Permutations(Clients) \cup Permutations(Stores)
=============================================================================

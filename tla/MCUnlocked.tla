----------------------------- MODULE MCUnlocked -----------------------------
EXTENDS Unlocked, TLC

\* Batches, values, and workers that prune, are alike.
Identical == Permutations(Batches) \cup Permutations(Values) \cup Permutations(Pruners)
=============================================================================

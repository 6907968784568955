------------------------------- MODULE MCRuns -------------------------------
EXTENDS Runs, TLC

Identical == Permutations(Runs) \cup Permutations(Recoverers)
=============================================================================

------------------------ MODULE MCPublicationStream -------------------------
EXTENDS PublicationStream, TLC

Identical == Permutations(Watchers) \cup Permutations(Pruners)
=============================================================================

--------------------------- MODULE MCPublications ---------------------------
EXTENDS Publications, TLC

CONSTANTS r1, r2, a1, a2

OneFamily == [r \in Requests |-> a1]
TwoFamilies == (r1 :> a1) @@ (r2 :> a2)

Identical == Permutations(Ops) \cup Permutations(Workers) \cup Permutations(Clients) \cup Permutations(Keys)
=============================================================================

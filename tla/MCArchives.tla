----------------------------- MODULE MCArchives -----------------------------
EXTENDS Archives, TLC

CONSTANTS v1, v2

Sizes == (v1 :> 1) @@ (v2 :> 2)
=============================================================================

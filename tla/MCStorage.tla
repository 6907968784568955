------------------------------ MODULE MCStorage -----------------------------
EXTENDS Storage, TLC

CONSTANTS manifest, file, small, large

\* A directory of one file, and that file as an output of its own.
OneDirectory == manifest :> {file} @@ file :> {}

Sizes == small :> 1 @@ large :> 2
=============================================================================

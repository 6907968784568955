---------------------------- MODULE MCMemberships ---------------------------
EXTENDS Memberships

CONSTANTS f, p
=============================================================================

--------------------------- MODULE MCProvisioning ---------------------------
EXTENDS Provisioning

CONSTANTS main, side
=============================================================================

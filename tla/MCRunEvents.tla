----------------------------- MODULE MCRunEvents ----------------------------
EXTENDS RunEvents
=============================================================================

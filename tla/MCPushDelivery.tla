--------------------------- MODULE MCPushDelivery ---------------------------
(***************************************************************************)
(* Small instances of PushDelivery.                                          *)
(***************************************************************************)
EXTENDS PushDelivery

CONSTANTS i1, e1, e2, w1, w2
=============================================================================

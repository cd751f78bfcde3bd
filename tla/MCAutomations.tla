--------------------------- MODULE MCAutomations ---------------------------
(***************************************************************************)
(* Small instances of Automations.                                           *)
(***************************************************************************)
EXTENDS Automations

CONSTANTS a1, w1, w2
=============================================================================

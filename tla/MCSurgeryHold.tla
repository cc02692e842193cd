--------------------------- MODULE MCSurgeryHold ---------------------------
(* The primary and a fork for TLC.                                          *)
EXTENDS SurgeryHold

CONSTANTS p, f
=============================================================================

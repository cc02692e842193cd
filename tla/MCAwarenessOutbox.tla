------------------------- MODULE MCAwarenessOutbox -------------------------
(* One or two marks, a rollback and a suppression for TLC.                  *)
EXTENDS AwarenessOutbox

CONSTANTS m1, b1, b2, r1

(* Both surgeries removed every message.                                    *)
MCRefsOf == [b \in Batch |-> Mark]
=============================================================================

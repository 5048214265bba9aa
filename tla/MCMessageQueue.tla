--------------------------- MODULE MCMessageQueue ---------------------------
(* The instance of ConcurrentMessageQueue for TLC.  The threads are model   *)
(* values, not interchangeable: AllDelivered is a liveness property, for    *)
(* which TLC's symmetry reduction is not sound.                             *)
EXTENDS ConcurrentMessageQueue

=============================================================================

------------------------------ MODULE MCSnapshot ----------------------------
(* UbiSnapshot with every kind of failure. *)
EXTENDS UbiSnapshot

AllFaults == FaultKind
=============================================================================

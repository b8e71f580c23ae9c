------------------------------- MODULE MCDelta ------------------------------
(* DeltaFile for TLC. *)
EXTENDS DeltaFile

\* No two blocks of the snapshots are equal.
MCSource == [k \in Copy |-> [c \in Cluster |-> [o \in Offset |-> (k - 1) * 8 + c * BPC + o + 1]]]
MCValue == 0 .. 8 * MaxCopies
=============================================================================

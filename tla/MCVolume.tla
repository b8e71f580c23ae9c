------------------------------ MODULE MCVolume ------------------------------
(* Instances of UbiVolume: two clusters of two blocks. *)
EXTENDS UbiVolume

MCValue == {0, 1}

MCImage == [c \in Cluster |-> [o \in Offset |-> 1]]

\* Created without a snapshot_path: cluster_map stays zero.
NoDelta == [alloc |-> {}, data |-> [c \in Cluster |-> [o \in Offset |-> 0]]]

\* Created from a snapshot file that has cluster 0.
DeltaOf0 == [alloc |-> {0},
             data  |-> [c \in Cluster |-> [o \in Offset |-> IF c = 0 /\ o = 0 THEN 0 ELSE 1]]]
=============================================================================

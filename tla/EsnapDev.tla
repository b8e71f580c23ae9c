------------------------------ MODULE EsnapDev ------------------------------
(***************************************************************************)
(* The read-only backing device of a ubi bdev (spdk_bs_dev_uring.c): the   *)
(* image file, overlaid with the clusters of the snapshot file the bdev    *)
(* was created from.  Addresses are pairs of a cluster and an offset in    *)
(* it, which is what lba_to_cluster_shift and lba_offset_mask compute.     *)
(***************************************************************************)
EXTENDS Integers

CONSTANTS
  NumClusters,  \* clusters of the blob: spdk_bs_total_data_cluster_count
  BPC,          \* blocks per cluster: cluster_size / blocklen
  ImageBlocks,  \* base.blockcnt of the device: size of the image / blocklen
  Value,        \* what a block may hold
  Zero,         \* a block of zeroes
  Image,        \* the image file, block by block
  Base          \* the snapshot file: which clusters its map has, and their data

Cluster == 0 .. NumClusters - 1
Offset  == 0 .. BPC - 1
Block   == Cluster \X Offset

\* A set of clusters and their contents: a blob, or a snapshot file.
Layer == [alloc : SUBSET Cluster, data : [Cluster -> [Offset -> Value]]]

ZeroCluster == [o \in Offset |-> Zero]
NoClusters  == [alloc |-> {}, data |-> [c \in Cluster |-> ZeroCluster]]

ASSUME EsnapAssumption ==
  /\ NumClusters \in Nat \ {0}
  /\ BPC \in Nat \ {0}
  /\ ImageBlocks \in Nat
  /\ Zero \in Value
  /\ Image \in [Cluster -> [Offset -> Value]]
  /\ Base \in Layer

\* lba: the linear address that blockcnt is compared with.
Lba(c, o) == c * BPC + o

InImage(c, o) == Lba(c, o) < ImageBlocks

\* What the device is promised to show: the snapshot file's clusters over the image.
Promised(c, o) == IF c \in Base.alloc THEN Base.data[c][o] ELSE Image[c][o]

\* set_io_opts: a zero cluster_map entry sends the read to the image, any
\* other one to the snapshot file.
set_io_opts(c, o) == IF c \notin Base.alloc THEN Image[c][o] ELSE Base.data[c][o]

\* bs_dev_uring_readv of one block: the values the caller's buffer may hold
\* afterwards.  At or after blockcnt the request succeeds at once and the
\* buffer keeps whatever it held.
bs_dev_uring_readv(c, o) ==
  IF InImage(c, o) THEN {set_io_opts(c, o)} ELSE Value

\* bs_dev_uring_read of a whole cluster, the read of a copy-on-write.
bs_dev_uring_read(c) ==
  IF InImage(c, 0)
  THEN {f \in [Offset -> Value] : \A o \in Offset : f[o] \in bs_dev_uring_readv(c, o)}
  ELSE [Offset -> Value]

\* bs_dev_uring_is_range_valid, asked for a whole cluster.
bs_dev_uring_is_range_valid(c) ==
  IF InImage(c, 0) THEN Lba(c, 0) + BPC <= ImageBlocks ELSE c \in Base.alloc

bs_dev_uring_is_zeroes_Valid(c) == bs_dev_uring_is_range_valid(c)

bs_dev_uring_is_zeroes(c) == ~bs_dev_uring_is_range_valid(c)

\* The clusters that lie wholly inside the image.
Covered == {c \in Cluster : \A o \in Offset : InImage(c, o)}
CoveredBlock == Covered \X Offset
=============================================================================

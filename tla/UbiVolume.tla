----------------------------- MODULE UbiVolume ------------------------------
(***************************************************************************)
(* The data path of a ubi bdev: the blob that takes the writes, the        *)
(* snapshots below it, the backing device below those, and the delta files *)
(* that snapshots are copied to while writes go on.                        *)
(*                                                                         *)
(* The blobstore belongs to SPDK.  It is modelled from how this code uses  *)
(* it: a read of an unallocated cluster goes to the layer below; the first *)
(* write to a cluster copies it up, unless the layer below says that it is *)
(* zeroes; a snapshot takes the blob's clusters and leaves it empty.       *)
(***************************************************************************)
EXTENDS EsnapDev

CONSTANT MaxSnaps   \* bound: how many snapshots a behaviour takes

ASSUME MaxSnapsAssumption == MaxSnaps \in Nat

VARIABLES
  live,     \* the clusters of ubi_bdev->blob itself
  lower,    \* the clusters of the snapshots below it, the newest on top
  nsnaps,   \* snapshots taken so far
  snaps,    \* the snapshots: their clusters and the delta file they go to
  disk,     \* history: what the user has been told the device holds
  written   \* history: the blocks written since the device was created

vars == <<live, lower, nsnaps, snaps, disk, written>>

SnapState == {"none", "nofile", "copying", "done", "failed", "aborted"}

\* src and at never change: the snapshot's own clusters, and what the device
\* held when it was taken.  The delta file has the clusters of copied, but its
\* cluster map on disk names those of map only.
Snapshot == [st : SnapState, src : Layer, at : [Cluster -> [Offset -> Value]],
             copied : SUBSET Cluster, map : SUBSET Cluster,
             file : [Cluster -> [Offset -> Value]]]

Created == [c \in Cluster |-> [o \in Offset |->
              IF InImage(c, o) THEN Promised(c, o) ELSE Zero]]

NoSnapshot == [st |-> "none", src |-> NoClusters, at |-> Created, copied |-> {},
               map |-> {}, file |-> NoClusters.data]

\* Formatting the base bdev: an empty blob over an empty snapshot over the
\* backing device.
Init ==
  /\ live = NoClusters
  /\ lower = NoClusters
  /\ nsnaps = 0
  /\ snaps = [i \in 1 .. MaxSnaps |-> NoSnapshot]
  /\ disk = Created
  /\ written = {}

-----------------------------------------------------------------------------
\* The values a read of one block may return.
BlobRead(c, o) ==
  IF c \in live.alloc THEN {live.data[c][o]}
  ELSE IF c \in lower.alloc THEN {lower.data[c][o]}
  ELSE bs_dev_uring_readv(c, o)

CowSource_SkipsSnapshots(c) ==
  IF bs_dev_uring_is_zeroes(c) THEN {ZeroCluster} ELSE bs_dev_uring_read(c)

\* What a cluster holds when the first write to it allocates it.
CowSource(c) ==
  IF c \in lower.alloc THEN {lower.data[c]}
  ELSE IF bs_dev_uring_is_zeroes(c) THEN {ZeroCluster}
  ELSE bs_dev_uring_read(c)

Write_NextCluster(c, o, v) ==
  /\ \E old \in IF c \in live.alloc THEN {live.data[c]} ELSE CowSource(c) :
       live' = [alloc |-> live.alloc \cup {c + 1},
                data  |-> [live.data EXCEPT ![c] = [old EXCEPT ![o] = v]]]
  /\ disk' = [disk EXCEPT ![c][o] = v]
  /\ written' = written \cup {<<c, o>>}
  /\ UNCHANGED <<lower, nsnaps, snaps>>

Write(c, o, v) ==
  /\ \E old \in IF c \in live.alloc THEN {live.data[c]} ELSE CowSource(c) :
       live' = [alloc |-> live.alloc \cup {c},
                data  |-> [live.data EXCEPT ![c] = [old EXCEPT ![o] = v]]]
  /\ disk' = [disk EXCEPT ![c][o] = v]
  /\ written' = written \cup {<<c, o>>}
  /\ UNCHANGED <<lower, nsnaps, snaps>>

Merge(top, bottom) ==
  [alloc |-> top.alloc \cup bottom.alloc,
   data  |-> [c \in Cluster |-> IF c \in top.alloc THEN top.data[c] ELSE bottom.data[c]]]

\* bdev_ubi_snapshot: the new snapshot takes the blob's clusters.  With an
\* empty path that is all; otherwise a read-only clone of the snapshot is made,
\* decoupled from it (so that it owns the snapshot's clusters and only those)
\* and copied to a delta file whose cluster map is written as zeroes first.
TakeSnapshot(withFile) ==
  /\ nsnaps < MaxSnaps
  /\ nsnaps' = nsnaps + 1
  /\ snaps' = [snaps EXCEPT ![nsnaps + 1] =
                 [NoSnapshot EXCEPT !.st = IF withFile THEN "copying" ELSE "nofile",
                                    !.src = live, !.at = disk]]
  /\ lower' = Merge(live, lower)
  /\ live' = NoClusters
  /\ UNCHANGED <<disk, written>>

CopyCluster_FromLive(i, c) ==
  /\ snaps[i].st = "copying"
  /\ c \in snaps[i].src.alloc \ snaps[i].copied
  /\ snaps' = [snaps EXCEPT ![i].copied = @ \cup {c}, ![i].file[c] = disk[c]]
  /\ UNCHANGED <<live, lower, nsnaps, disk, written>>

WithCluster(s, c) ==
  [s EXCEPT !.copied = s.copied \cup {c}, !.file = [s.file EXCEPT ![c] = s.src.data[c]]]

\* One bs_dev_delta_write: the shallow copy goes through the clone's clusters.
CopyCluster(i, c) ==
  /\ snaps[i].st = "copying"
  /\ c \in snaps[i].src.alloc \ snaps[i].copied
  /\ snaps' = [snaps EXCEPT ![i] = WithCluster(snaps[i], c)]
  /\ UNCHANGED <<live, lower, nsnaps, disk, written>>

WithMap(s) == [s EXCEPT !.st = "done", !.map = s.copied]

\* The last cluster is copied and bs_dev_delta_destroy_channel_cb writes the map.
FinishCopy(i) ==
  /\ snaps[i].st = "copying"
  /\ snaps[i].copied = snaps[i].src.alloc
  /\ snaps' = [snaps EXCEPT ![i] = WithMap(snaps[i])]
  /\ UNCHANGED <<live, lower, nsnaps, disk, written>>

\* A read or a write of the copy fails at cluster c: the channel is destroyed
\* like after a complete copy, so the map is written with what was copied, and
\* with c as well when it was the write that failed (bs_dev_delta_write enters
\* the cluster before it writes it).  snapshot_status.result has the error.
FailCopy(i, c, inWrite) ==
  /\ snaps[i].st = "copying"
  /\ c \in snaps[i].src.alloc \ snaps[i].copied
  /\ snaps' = [snaps EXCEPT ![i] =
                 [snaps[i] EXCEPT !.st = "failed",
                                  !.map = snaps[i].copied \cup (IF inWrite THEN {c} ELSE {})]]
  /\ UNCHANGED <<live, lower, nsnaps, disk, written>>

\* The process dies and the bdev is created again with format_bdev false:
\* spdk_bs_load finds the blob and its snapshots, every copy is given up, and
\* its file keeps the zeroed map.  Base bdevs that lose completed writes are
\* the subject of UbiIo.
Restart ==
  /\ snaps' = [i \in 1 .. MaxSnaps |->
                 IF snaps[i].st = "copying" THEN [snaps[i] EXCEPT !.st = "aborted"]
                 ELSE snaps[i]]
  /\ snaps' # snaps
  /\ UNCHANGED <<live, lower, nsnaps, disk, written>>

Next ==
  \/ \E c \in Cluster, o \in Offset, v \in Value : Write(c, o, v)
  \/ \E withFile \in BOOLEAN : TakeSnapshot(withFile)
  \/ \E i \in 1 .. MaxSnaps, c \in Cluster : CopyCluster(i, c)
  \/ \E i \in 1 .. MaxSnaps : FinishCopy(i)
  \/ \E i \in 1 .. MaxSnaps, c \in Cluster, inWrite \in BOOLEAN : FailCopy(i, c, inWrite)
  \/ Restart

Spec == Init /\ [][Next]_vars

-----------------------------------------------------------------------------
(* Properties *)

\* The state has the shape the code gives it.
TypeOK ==
  /\ live \in Layer
  /\ lower \in Layer
  /\ nsnaps \in 0 .. MaxSnaps
  /\ snaps \in [1 .. MaxSnaps -> Snapshot]
  /\ disk \in [Cluster -> [Offset -> Value]]
  /\ written \subseteq Block

\* Every read has one possible result, the last value written to the block or
\* else the one it was created with, in each cluster that lies wholly in the
\* image; outside, for each block that was written.  It is about the routing of
\* ubi_submit_request through blob, snapshots, delta file and image, and about
\* copy-on-write reading and answering is_zeroes right for a partial write.
ReadCurrent ==
  \A c \in Cluster, o \in Offset :
    (c \in Covered \/ <<c, o>> \in written) => BlobRead(c, o) = {disk[c][o]}

\* The delta files of the first i snapshots, applied in order over the file the
\* device was created from, give one block.
Restored(i, c, o) ==
  LET has == {k \in 1 .. i : c \in snaps[k].map}
  IN  IF has = {} THEN Created[c][o]
      ELSE snaps[CHOOSE k \in has : \A m \in has : m <= k].file[c][o]

\* When the delta files of the first i snapshots are complete, they restore the
\* device as it was when bdev_ubi_snapshot took the i-th one, whatever was
\* written and copied, by however many copies at once, in the meantime.
DeltaChain ==
  \A i \in 1 .. MaxSnaps :
    (\A k \in 1 .. i : snaps[k].st = "done")
      => \A c \in Covered, o \in Offset : Restored(i, c, o) = snaps[i].at[c][o]

Visible == [b \in CoveredBlock |-> CHOOSE v \in BlobRead(b[1], b[2]) : TRUE]

AbstractDisk ==
  INSTANCE Disk WITH Block   <- CoveredBlock,
                     Content <- [b \in CoveredBlock |-> Promised(b[1], b[2])],
                     disk    <- Visible

\* On the clusters that the image covers the device is a disk: a write changes
\* the one block it names, and taking a snapshot, copying it out, or restarting
\* changes nothing a read can see.
ImplementsDisk == AbstractDisk!Spec

\* README.md: a device "initialized with an image file", whose stripe is fetched
\* before an I/O to it is served.  A block of the image that nobody wrote reads
\* as the image has it, also in a cluster that the image fills only in part.
ImageKept ==
  \A c \in Cluster, o \in Offset :
    (InImage(c, o) /\ <<c, o>> \notin written) => BlobRead(c, o) = {Promised(c, o)}
=============================================================================

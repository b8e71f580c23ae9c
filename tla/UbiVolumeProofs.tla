-------------------------- MODULE UbiVolumeProofs ---------------------------
(***************************************************************************)
(* Proofs about UbiVolume, for every number and size of clusters, every    *)
(* image (ending anywhere), every snapshot file below the device and any   *)
(* number of snapshots.                                                    *)
(***************************************************************************)
EXTENDS UbiVolume, TLAPS

USE EsnapAssumption, MaxSnapsAssumption

\* A cluster of zeroes and the empty layer have their types.
LEMMA EmptyTypes ==
  /\ ZeroCluster \in [Offset -> Value]
  /\ NoClusters \in Layer
  /\ Created \in [Cluster -> [Offset -> Value]]
  /\ NoSnapshot \in Snapshot
<1>1. ZeroCluster \in [Offset -> Value]
  BY Zenon DEF ZeroCluster
<1>2. NoClusters \in Layer
  BY <1>1, Zenon DEF NoClusters, Layer
<1>3. Created \in [Cluster -> [Offset -> Value]]
  BY Zenon DEF Created, Promised, Layer
<1>4. NoSnapshot \in Snapshot
  BY <1>2, <1>3, Zenon DEF NoSnapshot, Snapshot, SnapState, Layer
<1> QED BY <1>1, <1>2, <1>3, <1>4, Zenon

\* What a copy-on-write puts in a cluster is a cluster.
LEMMA CowType ==
  ASSUME TypeOK, NEW c \in Cluster
  PROVE  CowSource(c) \subseteq [Offset -> Value]
BY EmptyTypes DEF TypeOK, CowSource, bs_dev_uring_read, Layer

\* Merging two layers gives a layer.
LEMMA MergeType ==
  ASSUME NEW a \in Layer, NEW b \in Layer
  PROVE  Merge(a, b) \in Layer
BY Zenon DEF Merge, Layer

\* The steps of a copy keep the shape of the snapshot.
LEMMA SnapshotSteps ==
  ASSUME NEW s \in Snapshot
  PROVE  /\ \A c \in Cluster : WithCluster(s, c) \in Snapshot
         /\ WithMap(s) \in Snapshot
<1>1. ASSUME NEW c \in Cluster PROVE WithCluster(s, c) \in Snapshot
  <2>1. s.src.data[c] \in [Offset -> Value]
    BY Zenon DEF Snapshot, Layer
  <2>2. [s.file EXCEPT ![c] = s.src.data[c]] \in [Cluster -> [Offset -> Value]]
    BY <2>1, Zenon DEF Snapshot
  <2>3. s.copied \cup {c} \in SUBSET Cluster
    BY Zenon DEF Snapshot
  <2> QED BY <2>2, <2>3, Zenon DEF Snapshot, WithCluster
<1>2. WithMap(s) \in Snapshot
  BY Zenon DEF Snapshot, WithMap, SnapState
<1> QED BY <1>1, <1>2, Zenon

\* The type invariant holds: every handler keeps the shape of the state.
THEOREM VolumeTypes == Spec => []TypeOK
<1>1. Init => TypeOK
  BY EmptyTypes DEF Init, TypeOK
<1>2. TypeOK /\ [Next]_vars => TypeOK'
  <2> SUFFICES ASSUME TypeOK, [Next]_vars PROVE TypeOK'
    BY Zenon
  <2>1. ASSUME NEW c \in Cluster, NEW o \in Offset, NEW v \in Value, Write(c, o, v)
        PROVE  TypeOK'
    <3>1. PICK old \in IF c \in live.alloc THEN {live.data[c]} ELSE CowSource(c) :
            live' = [alloc |-> live.alloc \cup {c},
                     data  |-> [live.data EXCEPT ![c] = [old EXCEPT ![o] = v]]]
      BY <2>1, Zenon DEF Write
    <3>2. old \in [Offset -> Value]
      BY <3>1, CowType, Zenon DEF TypeOK, Layer
    <3>3. live' \in Layer
      BY <3>1, <3>2, Zenon DEF TypeOK, Layer
    <3>4. disk' \in [Cluster -> [Offset -> Value]]
      BY <2>1, Zenon DEF Write, TypeOK
    <3>5. written' \subseteq Block
      BY <2>1 DEF Write, TypeOK, Block
    <3> QED BY <2>1, <3>3, <3>4, <3>5, Zenon DEF Write, TypeOK
  <2>2. ASSUME NEW w \in BOOLEAN, TakeSnapshot(w) PROVE TypeOK'
    <3>1. snaps' \in [1 .. MaxSnaps -> Snapshot]
      <4>1. [NoSnapshot EXCEPT !.st = IF w THEN "copying" ELSE "nofile",
                               !.src = live, !.at = disk] \in Snapshot
        BY EmptyTypes, Zenon DEF TypeOK, Snapshot, SnapState
      <4> QED BY <2>2, <4>1, Zenon DEF TakeSnapshot, TypeOK
    <3>2. lower' \in Layer /\ live' \in Layer
      BY <2>2, MergeType, EmptyTypes, Zenon DEF TakeSnapshot, TypeOK
    <3> QED BY <2>2, <3>1, <3>2 DEF TakeSnapshot, TypeOK
  <2>3. ASSUME NEW i \in 1 .. MaxSnaps, NEW c \in Cluster, CopyCluster(i, c)
        PROVE  TypeOK'
    BY <2>3, SnapshotSteps, Zenon DEF CopyCluster, TypeOK
  <2>4. ASSUME NEW i \in 1 .. MaxSnaps, FinishCopy(i) PROVE TypeOK'
    BY <2>4, SnapshotSteps, Zenon DEF FinishCopy, TypeOK
  <2>7. ASSUME NEW i \in 1 .. MaxSnaps, NEW c \in Cluster, NEW w \in BOOLEAN, FailCopy(i, c, w)
        PROVE  TypeOK'
    <3> DEFINE m == snaps[i].copied \cup (IF w THEN {c} ELSE {})
    <3>0. snaps[i] \in Snapshot
      BY Zenon DEF TypeOK
    <3>1. [snaps[i] EXCEPT !.st = "failed", !.map = m] \in Snapshot
      <4>1. m \in SUBSET Cluster
        BY <3>0, Zenon DEF Snapshot
      <4> HIDE DEF m
      <4> QED BY <3>0, <4>1, Zenon DEF Snapshot, SnapState
    <3>2. snaps' \in [1 .. MaxSnaps -> Snapshot]
      BY <2>7, <3>1, Zenon DEF FailCopy, TypeOK
    <3> QED BY <2>7, <3>2, Zenon DEF FailCopy, TypeOK
  <2>5. CASE Restart
    <3>1. snaps' \in [1 .. MaxSnaps -> Snapshot]
      <4>1. ASSUME NEW s \in Snapshot PROVE [s EXCEPT !.st = "aborted"] \in Snapshot
        BY Zenon DEF Snapshot, SnapState
      <4>2. \A i \in 1 .. MaxSnaps : snaps[i] \in Snapshot
        BY Zenon DEF TypeOK
      <4> QED BY <2>5, <4>1, <4>2, Zenon DEF Restart
    <3> QED BY <2>5, <3>1, Zenon DEF Restart, TypeOK
  <2>6. CASE UNCHANGED vars
    BY <2>6, Zenon DEF vars, TypeOK
  <2> QED BY <2>1, <2>2, <2>3, <2>4, <2>5, <2>6, <2>7, Zenon DEF Next
<1> QED BY <1>1, <1>2, PTL DEF Spec

-----------------------------------------------------------------------------
\* What ReadCurrent needs besides itself: a block that was written is in a
\* cluster that the blob or one of its snapshots owns, so that the next write to
\* the cluster copies it from there and not from the backing device.
ReadInv ==
  /\ TypeOK
  /\ \A c \in Cluster, o \in Offset :
       <<c, o>> \in written => c \in live.alloc \cup lower.alloc
  /\ ReadCurrent

\* The copy-on-write of a cluster in the image gives the cluster as the backing
\* device reads it: is_range_valid accepts it and the read does not end early.
LEMMA CowCovered ==
  ASSUME NEW c \in Covered, c \notin lower.alloc, NEW old \in CowSource(c), NEW o \in Offset
  PROVE  old[o] = set_io_opts(c, o)
<1>1. 0 \in Offset /\ BPC - 1 \in Offset /\ c \in Cluster
  BY DEF Offset, Covered
<1>2. InImage(c, 0) /\ InImage(c, BPC - 1) /\ InImage(c, o)
  BY <1>1, Zenon DEF Covered
<1>3. c * BPC \in Int
  BY <1>1 DEF Cluster
<1>4. ~bs_dev_uring_is_zeroes(c)
  BY <1>1, <1>2, <1>3 DEF InImage, Lba, bs_dev_uring_is_zeroes, bs_dev_uring_is_range_valid
<1>5. old \in bs_dev_uring_read(c)
  BY <1>4, Zenon DEF CowSource
<1> QED BY <1>2, <1>5, Zenon DEF bs_dev_uring_read, bs_dev_uring_readv

\* ReadInv holds in the initial state: the device reads as it was created.
LEMMA ReadInvInit == Init => ReadInv
<1> SUFFICES ASSUME Init PROVE ReadInv
  BY Zenon
<1>1. TypeOK
  BY EmptyTypes DEF Init, TypeOK
<1>2. live.alloc = {} /\ lower.alloc = {} /\ written = {}
  BY Zenon DEF Init, NoClusters
<1>3. ASSUME NEW c \in Covered, NEW o \in Offset
      PROVE  BlobRead(c, o) = {disk[c][o]}
  <2>1. InImage(c, o) /\ c \in Cluster
    BY Zenon DEF Covered
  <2>2. disk[c][o] = set_io_opts(c, o)
    BY <2>1, Zenon DEF Init, Created, Promised, set_io_opts
  <2> QED BY <1>2, <2>1, <2>2, Zenon DEF BlobRead, bs_dev_uring_readv
<1> QED BY <1>1, <1>2, <1>3, Zenon DEF ReadInv, ReadCurrent, Covered

\* A write keeps ReadInv: the block it names reads as written, every other
\* block of its cluster as before the cluster was copied up.
LEMMA WriteKeepsReads ==
  ASSUME ReadInv, TypeOK', NEW c \in Cluster, NEW o \in Offset, NEW v \in Value,
         Write(c, o, v)
  PROVE  ReadInv'
<1> USE DEF ReadInv
<1>1. PICK old \in IF c \in live.alloc THEN {live.data[c]} ELSE CowSource(c) :
        live' = [alloc |-> live.alloc \cup {c},
                 data  |-> [live.data EXCEPT ![c] = [old EXCEPT ![o] = v]]]
  BY Zenon DEF Write
<1>2. old \in [Offset -> Value]
  BY <1>1, CowType DEF TypeOK, Layer
<1>3. /\ live'.alloc = live.alloc \cup {c}
      /\ live'.data[c] = [old EXCEPT ![o] = v]
      /\ \A d \in Cluster : d # c => live'.data[d] = live.data[d]
  BY <1>1, Zenon DEF TypeOK, Layer
<1>4. /\ disk'[c] = [disk[c] EXCEPT ![o] = v]
      /\ \A d \in Cluster : d # c => disk'[d] = disk[d]
      /\ disk[c] \in [Offset -> Value]
  BY Zenon DEF Write, TypeOK
<1>5. lower' = lower /\ written' = written \cup {<<c, o>>}
  BY Zenon DEF Write
<1>6. \A d \in Cluster, p \in Offset : <<d, p>> \in written' => d \in live'.alloc \cup lower'.alloc
  BY <1>3, <1>5, Zenon
<1>7. ASSUME NEW d \in Cluster, NEW p \in Offset, d \in Covered \/ <<d, p>> \in written'
      PROVE  BlobRead(d, p)' = {disk'[d][p]}
  <2>1. CASE d # c
    <3>1. d \in Covered \/ <<d, p>> \in written
      BY <1>5, <1>7, <2>1, Zenon
    <3>2. BlobRead(d, p) = {disk[d][p]}
      BY <3>1, Zenon DEF ReadCurrent
    <3>3. (d \in live'.alloc) <=> (d \in live.alloc)
      BY <1>3, <2>1, Zenon
    <3> QED BY <1>3, <1>4, <1>5, <2>1, <3>2, <3>3, Zenon DEF BlobRead
  <2>2. CASE d = c
    <3>1. BlobRead(c, p)' = {live'.data[c][p]}
      BY <1>3, Zenon DEF BlobRead
    <3>2. CASE p = o
      BY <1>2, <1>3, <1>4, <2>2, <3>1, <3>2
    <3>3. CASE p # o
      <4>1. live'.data[c][p] = old[p] /\ disk'[c][p] = disk[c][p]
        BY <1>2, <1>3, <1>4, <3>3, Zenon
      <4>2. BlobRead(c, p) = {disk[c][p]} /\ (c \in Covered \/ c \in live.alloc \cup lower.alloc)
        BY <1>5, <1>7, <2>2, <3>3, Zenon DEF ReadCurrent
      <4>3. old[p] = disk[c][p]
        <5>1. CASE c \in live.alloc
          BY <1>1, <4>2, <5>1, Zenon DEF BlobRead
        <5>2. CASE c \notin live.alloc /\ c \in lower.alloc
          BY <1>1, <4>2, <5>2, Zenon DEF BlobRead, CowSource
        <5>3. CASE c \notin live.alloc /\ c \notin lower.alloc
          <6>1. c \in Covered /\ old \in CowSource(c)
            BY <1>1, <4>2, <5>3, Zenon
          <6>2. old[p] = set_io_opts(c, p)
            BY <5>3, <6>1, CowCovered, Zenon
          <6>3. InImage(c, p)
            BY <6>1, Zenon DEF Covered
          <6> QED BY <4>2, <5>3, <6>2, <6>3, Zenon DEF BlobRead, bs_dev_uring_readv
        <5> QED BY <5>1, <5>2, <5>3, Zenon
      <4> QED BY <2>2, <3>1, <4>1, <4>3, Zenon
    <3> QED BY <3>2, <3>3, Zenon
  <2> QED BY <2>1, <2>2, Zenon
<1>8. ReadCurrent'
  BY <1>7, Zenon DEF ReadCurrent
<1> QED BY <1>6, <1>8, Zenon

\* A snapshot moves the blob's clusters one layer down and changes no read.
LEMMA SnapshotKeepsReads ==
  ASSUME ReadInv, TypeOK', NEW w \in BOOLEAN, TakeSnapshot(w)
  PROVE  ReadInv'
<1> USE DEF ReadInv
<1>1. live'.alloc = {} /\ disk' = disk /\ written' = written
  BY Zenon DEF TakeSnapshot, NoClusters
<1>2. /\ lower'.alloc = live.alloc \cup lower.alloc
      /\ \A c \in Cluster :
           lower'.data[c] = IF c \in live.alloc THEN live.data[c] ELSE lower.data[c]
  BY Zenon DEF TakeSnapshot, Merge
<1>3. \A c \in Cluster, o \in Offset : BlobRead(c, o)' = BlobRead(c, o)
  BY <1>1, <1>2, Zenon DEF BlobRead
<1>4. ReadCurrent'
  BY <1>1, <1>3, Zenon DEF ReadCurrent
<1> QED BY <1>1, <1>2, <1>4, Zenon

\* ReadInv is inductive.
LEMMA ReadInvStep == ReadInv /\ TypeOK' /\ [Next]_vars => ReadInv'
<1> SUFFICES ASSUME ReadInv, TypeOK', [Next]_vars PROVE ReadInv'
  BY Zenon
<1>1. ASSUME UNCHANGED <<live, lower, disk, written>> PROVE ReadInv'
  <2>1. \A c \in Cluster, o \in Offset : BlobRead(c, o)' = BlobRead(c, o)
    BY <1>1, Zenon DEF BlobRead
  <2> QED BY <1>1, <2>1, Zenon DEF ReadInv, ReadCurrent
<1>2. ASSUME NEW c \in Cluster, NEW o \in Offset, NEW v \in Value, Write(c, o, v)
      PROVE  ReadInv'
  BY <1>2, WriteKeepsReads, Zenon
<1>3. ASSUME NEW w \in BOOLEAN, TakeSnapshot(w) PROVE ReadInv'
  BY <1>3, SnapshotKeepsReads, Zenon
<1>4. ASSUME NEW i \in 1 .. MaxSnaps, NEW c \in Cluster, CopyCluster(i, c) PROVE ReadInv'
  BY <1>1, <1>4, Zenon DEF CopyCluster
<1>5. ASSUME NEW i \in 1 .. MaxSnaps, FinishCopy(i) PROVE ReadInv'
  BY <1>1, <1>5, Zenon DEF FinishCopy
<1>8. ASSUME NEW i \in 1 .. MaxSnaps, NEW c \in Cluster, NEW w \in BOOLEAN, FailCopy(i, c, w)
      PROVE  ReadInv'
  BY <1>1, <1>8, Zenon DEF FailCopy
<1>6. CASE Restart
  BY <1>1, <1>6, Zenon DEF Restart
<1>7. CASE UNCHANGED vars
  BY <1>1, <1>7, Zenon DEF vars
<1> QED BY <1>2, <1>3, <1>4, <1>5, <1>6, <1>7, <1>8, Zenon DEF Next

\* Every read returns the last value written, or what the image or the snapshot
\* file holds, in every cluster the image covers and for every written block.
THEOREM VolumeReads == Spec => []ReadCurrent
<1>1. ReadInv => ReadCurrent
  BY Zenon DEF ReadInv
<1> QED BY <1>1, ReadInvInit, ReadInvStep, VolumeTypes, PTL DEF Spec

\* What nobody wrote is what the device was created with.
Unwritten ==
  \A c \in Cluster, o \in Offset : <<c, o>> \notin written => disk[c][o] = Created[c][o]

\* Unwritten always holds.
LEMMA UnwrittenHolds == Spec => []Unwritten
<1>1. Init => Unwritten
  BY Zenon DEF Init, Unwritten
<1>2. ASSUME TypeOK, Unwritten, NEW c \in Cluster, NEW o \in Offset, NEW v \in Value, Write(c, o, v)
      PROVE  Unwritten'
  <2> SUFFICES ASSUME NEW d \in Cluster, NEW p \in Offset, <<d, p>> \notin written'
               PROVE  disk'[d][p] = Created[d][p]
    BY Zenon DEF Unwritten, Created
  <2>1. <<d, p>> \notin written /\ <<d, p>> # <<c, o>>
    BY <1>2, Zenon DEF Write
  <2>2. d # c \/ p # o
    BY <2>1, Zenon
  <2>3. disk'[d][p] = disk[d][p]
    BY <1>2, <2>2, Zenon DEF Write, TypeOK
  <2> QED BY <1>2, <2>1, <2>3, Zenon DEF Unwritten
<1>3. TypeOK /\ Unwritten /\ [Next]_vars => Unwritten'
  BY <1>2, Zenon DEF Next, vars, TakeSnapshot, CopyCluster, FinishCopy, FailCopy, Restart, Unwritten
<1> QED BY <1>1, <1>3, VolumeTypes, PTL DEF Spec

\* In an image of whole clusters, a cluster that begins in it lies in it.
LEMMA WholeClusters ==
  ASSUME ImageBlocks % BPC = 0, NEW c \in Cluster, NEW o \in Offset, InImage(c, o)
  PROVE  c \in Covered
<1> DEFINE q == ImageBlocks \div BPC
<1>1. c \in Nat /\ BPC \in Nat \ {0} /\ ImageBlocks \in Nat /\ o \in Nat
  BY DEF Cluster, Offset
<1>2. q \in Nat /\ ImageBlocks = BPC * q
  BY <1>1
<1>3. c * BPC + o < ImageBlocks
  BY Zenon DEF InImage, Lba
<1> HIDE DEF q
<1>4. BPC * c \in Nat /\ BPC * c = c * BPC /\ BPC * c < BPC * q
  BY <1>1, <1>2, <1>3
<1>5. c < q
  BY <1>1, <1>2, <1>4
<1>6. BPC * (c + 1) <= BPC * q /\ BPC * (c + 1) = BPC * c + BPC
  BY <1>1, <1>2, <1>5
<1>7. \A p \in Offset : c * BPC + p < ImageBlocks
  BY <1>1, <1>2, <1>4, <1>6 DEF Offset
<1> QED BY <1>7, Zenon DEF Covered, InImage, Lba

\* An image of whole clusters is kept: every block of it that nobody wrote reads as
\* in the image, or the snapshot file over it, through any number of writes next to it,
\* snapshots and restarts.  It is lost only where the image ends inside a cluster.
THEOREM VolumeImageKept == ImageBlocks % BPC = 0 => (Spec => []ImageKept)
<1> SUFFICES ASSUME ImageBlocks % BPC = 0 PROVE Spec => []ImageKept
  BY Zenon
<1>1. ReadCurrent /\ Unwritten => ImageKept
  <2> SUFFICES ASSUME ReadCurrent, Unwritten, NEW c \in Cluster, NEW o \in Offset,
                      InImage(c, o), <<c, o>> \notin written
               PROVE  BlobRead(c, o) = {Promised(c, o)}
    BY Zenon DEF ImageKept
  <2>1. BlobRead(c, o) = {disk[c][o]}
    BY WholeClusters, Zenon DEF ReadCurrent
  <2>2. disk[c][o] = Promised(c, o)
    BY Zenon DEF Unwritten, Created
  <2> QED BY <2>1, <2>2, Zenon
<1> QED BY <1>1, VolumeReads, UnwrittenHolds, PTL

-----------------------------------------------------------------------------
\* The abstract disk is the history variable, on covered blocks.
DiskVisible == Visible = [b \in CoveredBlock |-> disk[b[1]][b[2]]]

\* The refinement mapping is what a user would compute: ReadCurrent makes each
\* read of a covered block single-valued.
LEMMA VisibleIsDisk == ReadInv => DiskVisible
<1> SUFFICES ASSUME ReadInv PROVE DiskVisible
  BY Zenon
<1>1. ASSUME NEW b \in CoveredBlock
      PROVE  (CHOOSE v \in BlobRead(b[1], b[2]) : TRUE) = disk[b[1]][b[2]]
  <2>1. b[1] \in Covered /\ b[1] \in Cluster /\ b[2] \in Offset
    BY Zenon DEF CoveredBlock, Covered
  <2>2. BlobRead(b[1], b[2]) = {disk[b[1]][b[2]]}
    BY <2>1, Zenon DEF ReadInv, ReadCurrent
  <2> QED BY <2>2, Zenon
<1> QED BY <1>1, Zenon DEF Visible, DiskVisible

\* The device implements the abstract disk: a write is a write of one block, or
\* invisible when the image does not cover it; every other step is a stutter.
THEOREM VolumeImplementsDisk == Spec => ImplementsDisk
<1>1. Init => AbstractDisk!Init
  <2> SUFFICES ASSUME Init PROVE AbstractDisk!Init
    BY Zenon
  <2>1. Visible = [b \in CoveredBlock |-> disk[b[1]][b[2]]]
    BY ReadInvInit, VisibleIsDisk, Zenon DEF DiskVisible
  <2>2. \A b \in CoveredBlock : disk[b[1]][b[2]] = Promised(b[1], b[2])
    BY Zenon DEF Init, Created, CoveredBlock, Covered
  <2>3. Visible = [b \in CoveredBlock |-> Promised(b[1], b[2])]
    BY <2>1, <2>2, Zenon
  <2> QED BY <2>3, Zenon DEF AbstractDisk!Init
<1>2. ReadInv /\ ReadInv' /\ [Next]_vars => [AbstractDisk!Next]_Visible
  <2> SUFFICES ASSUME ReadInv, ReadInv', [Next]_vars
               PROVE  [AbstractDisk!Next]_Visible
    BY Zenon
  <2>1. Visible = [b \in CoveredBlock |-> disk[b[1]][b[2]]]
    BY VisibleIsDisk, Zenon DEF DiskVisible
  <2>2. Visible' = [b \in CoveredBlock |-> disk'[b[1]][b[2]]]
    <3>1. DiskVisible'
      BY VisibleIsDisk, PTL
    <3> QED BY <3>1, Zenon DEF DiskVisible
  <2>3. ASSUME disk' = disk PROVE Visible' = Visible
    BY <2>1, <2>2, <2>3, Zenon
  <2>4. ASSUME NEW c \in Cluster, NEW o \in Offset, NEW v \in Value, Write(c, o, v)
        PROVE  [AbstractDisk!Next]_Visible
    <3>1. /\ disk'[c] = [disk[c] EXCEPT ![o] = v]
          /\ \A d \in Cluster : d # c => disk'[d] = disk[d]
          /\ disk[c] \in [Offset -> Value]
      BY <2>4, Zenon DEF Write, ReadInv, TypeOK
    <3>2. \A b \in CoveredBlock :
            /\ b[1] \in Cluster /\ b[2] \in Offset /\ b = <<b[1], b[2]>>
            /\ disk'[b[1]][b[2]] = IF b = <<c, o>> THEN v ELSE disk[b[1]][b[2]]
      BY <3>1 DEF CoveredBlock, Covered
    <3>3. CASE <<c, o>> \in CoveredBlock
      <4>1. Visible' = [Visible EXCEPT ![<<c, o>>] = v]
        BY <2>1, <2>2, <3>2, <3>3, Zenon
      <4> QED BY <3>3, <4>1, Zenon DEF AbstractDisk!Next, AbstractDisk!Write
    <3>4. CASE <<c, o>> \notin CoveredBlock
      <4>1. \A b \in CoveredBlock : disk'[b[1]][b[2]] = disk[b[1]][b[2]]
        BY <3>2, <3>4, Zenon
      <4> QED BY <2>1, <2>2, <4>1, Zenon
    <3> QED BY <3>3, <3>4, Zenon
  <2>5. ASSUME NEW w \in BOOLEAN, TakeSnapshot(w) PROVE disk' = disk
    BY <2>5, Zenon DEF TakeSnapshot
  <2>6. ASSUME NEW i \in 1 .. MaxSnaps, NEW c \in Cluster, CopyCluster(i, c) PROVE disk' = disk
    BY <2>6, Zenon DEF CopyCluster
  <2>7. ASSUME NEW i \in 1 .. MaxSnaps, FinishCopy(i) PROVE disk' = disk
    BY <2>7, Zenon DEF FinishCopy
  <2>10. ASSUME NEW i \in 1 .. MaxSnaps, NEW c \in Cluster, NEW w \in BOOLEAN, FailCopy(i, c, w)
         PROVE  disk' = disk
    BY <2>10, Zenon DEF FailCopy
  <2>8. CASE Restart
    BY <2>3, <2>8, Zenon DEF Restart
  <2>9. CASE UNCHANGED vars
    BY <2>3, <2>9, Zenon DEF vars
  <2> QED BY <2>3, <2>4, <2>5, <2>6, <2>7, <2>8, <2>9, <2>10, Zenon DEF Next
<1> QED BY <1>1, <1>2, ReadInvInit, ReadInvStep, VolumeTypes, PTL
       DEF Spec, ImplementsDisk, AbstractDisk!Spec

-----------------------------------------------------------------------------
\* Snapshot k is the newest of the first n that owns cluster c; none of them does.
Newest(n, c, k) ==
  /\ k \in 1 .. n
  /\ c \in snaps[k].src.alloc
  /\ \A m \in 1 .. n : c \in snaps[m].src.alloc => m <= k

Untouched(n, c) == \A m \in 1 .. n : c \notin snaps[m].src.alloc

\* The layer below the blob holds, for each cluster, what the newest snapshot
\* that owns it holds.
LowerInv ==
  \A c \in Cluster :
    /\ Untouched(nsnaps, c) <=> c \notin lower.alloc
    /\ \A k \in 1 .. nsnaps : Newest(nsnaps, c, k) => lower.data[c] = snaps[k].src.data[c]

\* What the device held at snapshot i is what the newest snapshot up to i holds.
AtInv ==
  \A i \in 1 .. nsnaps : \A c \in Covered :
    /\ Untouched(i, c) \/ \E k \in 1 .. i : Newest(i, c, k)
    /\ Untouched(i, c) => \A o \in Offset : snaps[i].at[c][o] = Created[c][o]
    /\ \A k \in 1 .. i : Newest(i, c, k) =>
         \A o \in Offset : snaps[i].at[c][o] = snaps[k].src.data[c][o]

\* A delta file holds the snapshot's clusters as far as they were copied, and a
\* finished one all of them.
CopyInv ==
  \A i \in 1 .. MaxSnaps :
    /\ snaps[i].st # "none" => i <= nsnaps
    /\ \A c \in snaps[i].copied : snaps[i].file[c] = snaps[i].src.data[c]
    /\ snaps[i].st = "done" =>
         snaps[i].map = snaps[i].src.alloc /\ snaps[i].copied = snaps[i].src.alloc

DeltaInv == ReadInv /\ LowerInv /\ AtInv /\ CopyInv

\* Steps that leave the snapshots' own clusters alone keep LowerInv and AtInv.
LEMMA FrozenStep ==
  ASSUME ReadInv, LowerInv, AtInv, UNCHANGED <<lower, nsnaps>>,
         \A k \in 1 .. MaxSnaps : /\ snaps'[k].src = snaps[k].src
                                  /\ snaps'[k].at = snaps[k].at
  PROVE  LowerInv' /\ AtInv'
<1>1. \A n \in 0 .. nsnaps, c \in Cluster :
        /\ Untouched(n, c)' <=> Untouched(n, c)
        /\ \A k \in 1 .. n : Newest(n, c, k)' <=> Newest(n, c, k)
  <2>1. \A n \in 0 .. nsnaps : 1 .. n \subseteq 1 .. MaxSnaps
    BY DEF ReadInv, TypeOK
  <2> QED BY <2>1, Zenon DEF Untouched, Newest
<1>2. nsnaps \in 0 .. nsnaps /\ \A i \in 1 .. nsnaps : i \in 0 .. nsnaps /\ i \in 1 .. MaxSnaps
  BY DEF ReadInv, TypeOK
<1>3. LowerInv'
  BY <1>1, <1>2 DEF LowerInv
<1>4. AtInv'
  <2> SUFFICES ASSUME NEW i \in 1 .. nsnaps, NEW c \in Covered
               PROVE  /\ Untouched(i, c)' \/ \E k \in 1 .. i : Newest(i, c, k)'
                      /\ Untouched(i, c)' => \A o \in Offset : snaps'[i].at[c][o] = Created[c][o]
                      /\ \A k \in 1 .. i : Newest(i, c, k)' =>
                           \A o \in Offset : snaps'[i].at[c][o] = snaps'[k].src.data[c][o]
    BY Zenon DEF AtInv
  <2>1. c \in Cluster
    BY Zenon DEF Covered
  <2>2. \A k \in 1 .. i : k \in 1 .. MaxSnaps
    BY <1>2
  <2>3. /\ Untouched(i, c)' <=> Untouched(i, c)
        /\ \A k \in 1 .. i : Newest(i, c, k)' <=> Newest(i, c, k)
    BY <1>1, <1>2, <2>1, Zenon
  <2>4. snaps'[i].at = snaps[i].at /\ \A k \in 1 .. i : snaps'[k].src = snaps[k].src
    BY <1>2, <2>2, Zenon
  <2>5. /\ Untouched(i, c) \/ \E k \in 1 .. i : Newest(i, c, k)
        /\ Untouched(i, c) => \A o \in Offset : snaps[i].at[c][o] = Created[c][o]
        /\ \A k \in 1 .. i : Newest(i, c, k) =>
             \A o \in Offset : snaps[i].at[c][o] = snaps[k].src.data[c][o]
    BY Zenon DEF AtInv
  <2>6. Untouched(i, c)' \/ \E k \in 1 .. i : Newest(i, c, k)'
    BY <2>3, <2>5, Zenon
  <2>7. Untouched(i, c)' => \A o \in Offset : snaps'[i].at[c][o] = Created[c][o]
    BY <2>3, <2>4, <2>5, Zenon
  <2>8. ASSUME NEW k \in 1 .. i, Newest(i, c, k)', NEW o \in Offset
        PROVE  snaps'[i].at[c][o] = snaps'[k].src.data[c][o]
    <3>1. snaps[i].at[c][o] = snaps[k].src.data[c][o]
      BY <2>3, <2>5, <2>8, Zenon
    <3> QED BY <2>4, <3>1, Zenon
  <2> QED BY <2>6, <2>7, <2>8, Zenon
<1> QED BY <1>3, <1>4, Zenon

\* Taking a snapshot: the new one is the newest owner of the blob's clusters,
\* and ReadCurrent says that it holds what the device showed.
LEMMA SnapshotKeepsDeltas ==
  ASSUME DeltaInv, TypeOK', NEW w \in BOOLEAN, TakeSnapshot(w)
  PROVE  DeltaInv'
<1>0. PICK n \in Nat : n = nsnaps + 1
  BY DEF DeltaInv, ReadInv, TypeOK
<1> DEFINE new == [NoSnapshot EXCEPT !.st = IF w THEN "copying" ELSE "nofile",
                                     !.src = live, !.at = disk]
<1> USE DEF DeltaInv
<1>1. /\ n \in 1 .. MaxSnaps /\ nsnaps' = n /\ nsnaps \in Nat
      /\ snaps' = [snaps EXCEPT ![n] = new]
      /\ n = nsnaps + 1
  BY <1>0 DEF TakeSnapshot, ReadInv, TypeOK
<1>2. new.src = live /\ new.at = disk /\ new.copied = {} /\ new.st # "done"
  BY Zenon DEF NoSnapshot
<1>3. /\ snaps'[n] = new
      /\ \A k \in 1 .. MaxSnaps : k # n => snaps'[k] = snaps[k]
  BY <1>1, Zenon DEF ReadInv, TypeOK
<1> HIDE DEF new
<1>4. ReadInv'
  BY SnapshotKeepsReads, Zenon
<1>5. /\ lower'.alloc = live.alloc \cup lower.alloc
      /\ \A c \in Cluster :
           lower'.data[c] = IF c \in live.alloc THEN live.data[c] ELSE lower.data[c]
  BY Zenon DEF TakeSnapshot, Merge
<1>6. \A i \in 0 .. nsnaps, c \in Cluster :
        /\ Untouched(i, c)' <=> Untouched(i, c)
        /\ \A k \in 1 .. i : Newest(i, c, k)' <=> Newest(i, c, k)
  <2>1. \A i \in 0 .. nsnaps : \A k \in 1 .. i : k \in 1 .. MaxSnaps /\ k # n
    BY <1>1
  <2> QED BY <1>3, <2>1, Zenon DEF Untouched, Newest
<1>7. 1 .. n = (1 .. nsnaps) \cup {n}
  BY <1>1
<1>8. ASSUME NEW c \in Cluster, c \in live.alloc
      PROVE  /\ ~Untouched(n, c)'
             /\ Newest(n, c, n)'
             /\ \A k \in 1 .. n : Newest(n, c, k)' => k = n
  <2>1. c \in snaps'[n].src.alloc
    BY <1>2, <1>3, <1>8, Zenon
  <2>2. n \in 1 .. n /\ \A m \in 1 .. n : m <= n
    BY <1>1
  <2>3. ~Untouched(n, c)'
    BY <2>1, <2>2, Zenon DEF Untouched
  <2>4. Newest(n, c, n)'
    BY <2>1, <2>2, Zenon DEF Newest
  <2>5. ASSUME NEW k \in 1 .. n, Newest(n, c, k)' PROVE k = n
    <3>1. n <= k
      BY <2>1, <2>2, <2>5, Zenon DEF Newest
    <3> QED BY <1>1, <3>1
  <2> QED BY <2>3, <2>4, <2>5, Zenon
<1>9. ASSUME NEW c \in Cluster, c \notin live.alloc
      PROVE  /\ Untouched(n, c)' <=> Untouched(nsnaps, c)
             /\ \A k \in 1 .. n : Newest(n, c, k)' <=> k \in 1 .. nsnaps /\ Newest(nsnaps, c, k)
  <2>1. c \notin snaps'[n].src.alloc
    BY <1>2, <1>3, <1>9, Zenon
  <2>2. \A k \in 1 .. nsnaps : snaps'[k] = snaps[k]
    BY <1>1, <1>3
  <2> QED BY <1>7, <2>1, <2>2, Zenon DEF Untouched, Newest
<1>10. LowerInv'
  <2> SUFFICES ASSUME NEW c \in Cluster
               PROVE  /\ Untouched(n, c)' <=> c \notin lower'.alloc
                      /\ \A k \in 1 .. n : Newest(n, c, k)' => lower'.data[c] = snaps'[k].src.data[c]
    BY <1>1, Zenon DEF LowerInv
  <2>1. CASE c \in live.alloc
    BY <1>2, <1>3, <1>5, <1>8, <2>1, Zenon
  <2>2. CASE c \notin live.alloc
    <3>1. \A k \in 1 .. nsnaps : snaps'[k] = snaps[k]
      BY <1>1, <1>3
    <3> QED BY <1>5, <1>9, <2>2, <3>1 DEF LowerInv
  <2> QED BY <2>1, <2>2, Zenon
<1>11. AtInv'
  <2> SUFFICES ASSUME NEW i \in 1 .. n, NEW c \in Covered
               PROVE  /\ Untouched(i, c)' \/ \E k \in 1 .. i : Newest(i, c, k)'
                      /\ Untouched(i, c)' => \A o \in Offset : snaps'[i].at[c][o] = Created[c][o]
                      /\ \A k \in 1 .. i : Newest(i, c, k)' =>
                           \A o \in Offset : snaps'[i].at[c][o] = snaps'[k].src.data[c][o]
    BY <1>1, Zenon DEF AtInv
  <2>0. c \in Cluster
    BY Zenon DEF Covered
  <2>1. CASE i # n
    <3>1. i \in 0 .. nsnaps /\ i \in 1 .. nsnaps /\ \A k \in 1 .. i : snaps'[k] = snaps[k]
      BY <1>1, <1>3, <2>1
    <3>2. snaps'[i] = snaps[i]
      BY <3>1
    <3> QED BY <1>6, <2>0, <3>1, <3>2 DEF AtInv
  <2>2. CASE i = n /\ c \in live.alloc
    <3>1. \A o \in Offset : disk[c][o] = live.data[c][o]
      <4>1. \A o \in Offset : BlobRead(c, o) = {disk[c][o]}
        BY <2>0, Zenon DEF ReadInv, ReadCurrent
      <4> QED BY <2>2, <4>1, Zenon DEF BlobRead
    <3> QED BY <1>1, <1>2, <1>3, <1>8, <2>0, <2>2, <3>1
  <2>3. CASE i = n /\ c \notin live.alloc
    <3>1. \A o \in Offset : disk[c][o] = IF c \in lower.alloc THEN lower.data[c][o] ELSE Created[c][o]
      <4> SUFFICES ASSUME NEW o \in Offset
                   PROVE  disk[c][o] = IF c \in lower.alloc THEN lower.data[c][o] ELSE Created[c][o]
        BY Zenon
      <4>1. BlobRead(c, o) = {disk[c][o]}
        BY <2>0, Zenon DEF ReadInv, ReadCurrent
      <4>2. InImage(c, o) /\ Created[c][o] = set_io_opts(c, o)
        BY <2>0, Zenon DEF Covered, Created, Promised, set_io_opts
      <4>3. CASE c \in lower.alloc
        BY <2>3, <4>1, <4>3, Zenon DEF BlobRead
      <4>4. CASE c \notin lower.alloc
        BY <2>3, <4>1, <4>2, <4>4, Zenon DEF BlobRead, bs_dev_uring_readv
      <4> QED BY <4>3, <4>4, Zenon
    <3>2. snaps'[i].at = disk /\ \A k \in 1 .. nsnaps : snaps'[k] = snaps[k]
      BY <1>1, <1>2, <1>3, <2>3
    <3>3. Untouched(i, c)' \/ \E k \in 1 .. i : Newest(i, c, k)'
      <4>1. CASE nsnaps = 0
        BY <1>9, <2>0, <2>3, <4>1 DEF Untouched
      <4>2. CASE nsnaps # 0
        <5>1. nsnaps \in 1 .. nsnaps
          BY <1>1, <4>2
        <5>2. Untouched(nsnaps, c) \/ \E k \in 1 .. nsnaps : Newest(nsnaps, c, k)
          BY <5>1, Zenon DEF AtInv
        <5> QED BY <1>7, <1>9, <2>0, <2>3, <5>2, Zenon
      <4> QED BY <4>1, <4>2, Zenon
    <3>4. Untouched(i, c)' => c \notin lower.alloc
      BY <1>9, <2>0, <2>3, Zenon DEF LowerInv
    <3>5. ASSUME NEW k \in 1 .. i, Newest(i, c, k)', NEW o \in Offset
          PROVE  snaps'[i].at[c][o] = snaps'[k].src.data[c][o]
      <4>1. k \in 1 .. nsnaps /\ Newest(nsnaps, c, k)
        BY <1>9, <2>0, <2>3, <3>5, Zenon
      <4>2. c \in lower.alloc /\ lower.data[c] = snaps[k].src.data[c]
        BY <2>0, <4>1, Zenon DEF LowerInv, Untouched, Newest
      <4> QED BY <3>1, <3>2, <4>1, <4>2, Zenon
    <3> QED BY <3>1, <3>2, <3>3, <3>4, <3>5, Zenon
  <2> QED BY <2>1, <2>2, <2>3, Zenon
<1>12. CopyInv'
  BY <1>1, <1>2, <1>3 DEF CopyInv
<1> QED BY <1>4, <1>10, <1>11, <1>12, Zenon

\* DeltaInv is inductive.
LEMMA DeltaInvStep == DeltaInv /\ ReadInv' /\ [Next]_vars => DeltaInv'
<1> SUFFICES ASSUME DeltaInv, ReadInv', [Next]_vars PROVE DeltaInv'
  BY Zenon
<1> USE DEF DeltaInv
<1>0. snaps \in [1 .. MaxSnaps -> Snapshot]
  BY Zenon DEF ReadInv, TypeOK
<1>1. ASSUME UNCHANGED <<lower, nsnaps, snaps>> PROVE DeltaInv'
  <2>1. LowerInv' /\ AtInv'
    BY <1>1, FrozenStep, Zenon
  <2> QED BY <1>1, <2>1, Zenon DEF CopyInv
<1>2. ASSUME NEW c \in Cluster, NEW o \in Offset, NEW v \in Value, Write(c, o, v)
      PROVE  DeltaInv'
  BY <1>1, <1>2, Zenon DEF Write
<1>3. ASSUME NEW w \in BOOLEAN, TakeSnapshot(w) PROVE DeltaInv'
  BY <1>3, SnapshotKeepsDeltas, Zenon DEF ReadInv
<1>4. ASSUME NEW i \in 1 .. MaxSnaps, NEW c \in Cluster, CopyCluster(i, c) PROVE DeltaInv'
  <2> DEFINE new == WithCluster(snaps[i], c)
  <2>1. snaps' = [snaps EXCEPT ![i] = new] /\ snaps[i].st = "copying"
    BY <1>4, Zenon DEF CopyCluster
  <2>2. /\ new.src = snaps[i].src /\ new.at = snaps[i].at /\ new.st = snaps[i].st
        /\ new.copied = snaps[i].copied \cup {c}
        /\ new.file = [snaps[i].file EXCEPT ![c] = snaps[i].src.data[c]]
    BY <1>0, Zenon DEF WithCluster, Snapshot
  <2>3. snaps[i].copied \subseteq Cluster /\ snaps[i].file \in [Cluster -> [Offset -> Value]]
    BY <1>0, Zenon DEF Snapshot
  <2> HIDE DEF new
  <2>4. snaps'[i] = new /\ \A k \in 1 .. MaxSnaps : k # i => snaps'[k] = snaps[k]
    BY <1>0, <2>1, Zenon
  <2>5. LowerInv' /\ AtInv'
    <3>1. UNCHANGED <<lower, nsnaps>>
      BY <1>4, Zenon DEF CopyCluster
    <3> QED BY <2>2, <2>4, <3>1, FrozenStep, Zenon
  <2>6. \A d \in new.copied : new.file[d] = new.src.data[d]
    BY <2>2, <2>3 DEF CopyInv
  <2>7. CopyInv'
    <3>1. nsnaps' = nsnaps
      BY <1>4, Zenon DEF CopyCluster
    <3>2. \A k \in 1 .. MaxSnaps : k # i =>
            /\ snaps'[k].st # "none" => k <= nsnaps'
            /\ \A d \in snaps'[k].copied : snaps'[k].file[d] = snaps'[k].src.data[d]
            /\ snaps'[k].st = "done" => /\ snaps'[k].map = snaps'[k].src.alloc
                                       /\ snaps'[k].copied = snaps'[k].src.alloc
      BY <2>4, <3>1 DEF CopyInv
    <3>3. i <= nsnaps
      BY <2>1, Zenon DEF CopyInv
    <3>4. /\ snaps'[i].st # "none" => i <= nsnaps'
          /\ \A d \in snaps'[i].copied : snaps'[i].file[d] = snaps'[i].src.data[d]
          /\ snaps'[i].st # "done"
      BY <2>1, <2>2, <2>4, <2>6, <3>1, <3>3, Zenon
    <3> QED BY <3>2, <3>4, Zenon DEF CopyInv
  <2> QED BY <2>5, <2>7, Zenon
<1>5. ASSUME NEW i \in 1 .. MaxSnaps, FinishCopy(i) PROVE DeltaInv'
  <2> DEFINE new == WithMap(snaps[i])
  <2>1. /\ snaps' = [snaps EXCEPT ![i] = new]
        /\ snaps[i].st = "copying"
        /\ snaps[i].copied = snaps[i].src.alloc
    BY <1>5, Zenon DEF FinishCopy
  <2>2. /\ new.src = snaps[i].src /\ new.at = snaps[i].at /\ new.file = snaps[i].file
        /\ new.copied = snaps[i].copied /\ new.map = snaps[i].copied
    BY <1>0, Zenon DEF WithMap, Snapshot
  <2> HIDE DEF new
  <2>3. snaps'[i] = new /\ \A k \in 1 .. MaxSnaps : k # i => snaps'[k] = snaps[k]
    BY <1>0, <2>1, Zenon
  <2>4. LowerInv' /\ AtInv'
    <3>1. UNCHANGED <<lower, nsnaps>>
      BY <1>5, Zenon DEF FinishCopy
    <3> QED BY <2>2, <2>3, <3>1, FrozenStep, Zenon
  <2>5. CopyInv'
    BY <1>5, <2>1, <2>2, <2>3 DEF CopyInv, FinishCopy
  <2> QED BY <2>4, <2>5, Zenon
<1>8. ASSUME NEW i \in 1 .. MaxSnaps, NEW c \in Cluster, NEW w \in BOOLEAN, FailCopy(i, c, w)
      PROVE  DeltaInv'
  <2> DEFINE new == [snaps[i] EXCEPT !.st = "failed",
                                     !.map = snaps[i].copied \cup (IF w THEN {c} ELSE {})]
  <2>1. snaps' = [snaps EXCEPT ![i] = new] /\ snaps[i].st = "copying"
    BY <1>8, Zenon DEF FailCopy
  <2>2. /\ new.src = snaps[i].src /\ new.at = snaps[i].at /\ new.file = snaps[i].file
        /\ new.copied = snaps[i].copied /\ new.st = "failed"
    BY <1>0, Zenon DEF Snapshot
  <2> HIDE DEF new
  <2>3. snaps'[i] = new /\ \A k \in 1 .. MaxSnaps : k # i => snaps'[k] = snaps[k]
    BY <1>0, <2>1, Zenon
  <2>4. UNCHANGED <<lower, nsnaps>>
    BY <1>8, Zenon DEF FailCopy
  <2>5. LowerInv' /\ AtInv'
    BY <2>2, <2>3, <2>4, FrozenStep, Zenon
  <2>6. CopyInv'
    BY <2>1, <2>2, <2>3, <2>4 DEF CopyInv
  <2> QED BY <2>5, <2>6, Zenon
<1>6. CASE Restart
  <2>1. \A k \in 1 .. MaxSnaps :
          /\ snaps'[k].src = snaps[k].src /\ snaps'[k].at = snaps[k].at
          /\ snaps'[k].copied = snaps[k].copied /\ snaps'[k].file = snaps[k].file
          /\ snaps'[k].map = snaps[k].map
          /\ snaps'[k].st = snaps[k].st \/ (snaps[k].st = "copying" /\ snaps'[k].st = "aborted")
    <3> SUFFICES ASSUME NEW k \in 1 .. MaxSnaps
                 PROVE  /\ snaps'[k].src = snaps[k].src /\ snaps'[k].at = snaps[k].at
                        /\ snaps'[k].copied = snaps[k].copied /\ snaps'[k].file = snaps[k].file
                        /\ snaps'[k].map = snaps[k].map
                        /\ \/ snaps'[k].st = snaps[k].st
                           \/ snaps[k].st = "copying" /\ snaps'[k].st = "aborted"
      BY Zenon
    <3>1. snaps[k] \in Snapshot
      BY <1>0, Zenon
    <3>2. CASE snaps[k].st # "copying"
      BY <1>6, <3>2, Zenon DEF Restart
    <3>3. CASE snaps[k].st = "copying"
      <4>1. snaps'[k] = [snaps[k] EXCEPT !.st = "aborted"]
        BY <1>6, <3>3, Zenon DEF Restart
      <4> QED BY <3>1, <3>3, <4>1, Zenon DEF Snapshot
    <3> QED BY <3>2, <3>3, Zenon
  <2>2. UNCHANGED <<lower, nsnaps>>
    BY <1>6, Zenon DEF Restart
  <2>3. LowerInv' /\ AtInv'
    BY <2>1, <2>2, FrozenStep, Zenon
  <2>4. CopyInv'
    BY <2>1, <2>2 DEF CopyInv
  <2> QED BY <2>3, <2>4, Zenon
<1>7. CASE UNCHANGED vars
  BY <1>1, <1>7, Zenon DEF vars
<1> QED BY <1>2, <1>3, <1>4, <1>5, <1>6, <1>7, <1>8, Zenon DEF Next

\* The complete delta files of the first snapshots restore the device as it was
\* when the last of them was taken.
LEMMA DeltaInvChain == DeltaInv => DeltaChain
<1> SUFFICES ASSUME DeltaInv,
                    NEW i \in 1 .. MaxSnaps, \A k \in 1 .. i : snaps[k].st = "done",
                    NEW c \in Covered, NEW o \in Offset
             PROVE  Restored(i, c, o) = snaps[i].at[c][o]
  BY Zenon DEF DeltaChain
<1> DEFINE has == {k \in 1 .. i : c \in snaps[k].map}
<1>1. \A k \in 1 .. i : /\ k \in 1 .. MaxSnaps
                        /\ snaps[k].map = snaps[k].src.alloc
                        /\ snaps[k].copied = snaps[k].src.alloc
  BY DEF DeltaInv, CopyInv
<1>2. i \in 1 .. nsnaps
  <2>1. snaps[i].st = "done" /\ nsnaps \in Nat
    BY DEF DeltaInv, ReadInv, TypeOK
  <2> QED BY <2>1 DEF DeltaInv, CopyInv
<1>3. has = {k \in 1 .. i : c \in snaps[k].src.alloc}
  BY <1>1, Zenon
<1>4. CASE has = {}
  <2>1. Untouched(i, c)
    BY <1>3, <1>4, Zenon DEF Untouched
  <2> QED BY <1>2, <1>4, <2>1, Zenon DEF DeltaInv, AtInv, Restored
<1>5. CASE has # {}
  <2>1. ~Untouched(i, c)
    BY <1>3, <1>5, Zenon DEF Untouched
  <2>2. PICK k \in 1 .. i : Newest(i, c, k)
    BY <1>2, <2>1, Zenon DEF DeltaInv, AtInv
  <2>3. k \in has /\ \A m \in has : m <= k
    BY <1>3, <2>2, Zenon DEF Newest
  <2>4. (CHOOSE j \in has : \A m \in has : m <= j) = k
    BY <2>3
  <2>5. Restored(i, c, o) = snaps[k].file[c][o]
    BY <1>5, <2>4, Zenon DEF Restored
  <2>6. snaps[k].file[c] = snaps[k].src.data[c]
    BY <1>1, <1>3, <2>3, Zenon DEF DeltaInv, CopyInv
  <2>7. snaps[i].at[c][o] = snaps[k].src.data[c][o]
    BY <1>2, <2>2 DEF DeltaInv, AtInv
  <2> QED BY <2>5, <2>6, <2>7, Zenon
<1> QED BY <1>4, <1>5, Zenon

\* Whatever is written while snapshots are copied, and however the copies
\* interleave, the delta files bdev_ubi_snapshot leaves are point-in-time.
THEOREM VolumeDeltas == Spec => []DeltaChain
<1>1. Init => DeltaInv
  <2> SUFFICES ASSUME Init PROVE DeltaInv
    BY Zenon
  <2>1. ReadInv
    BY ReadInvInit, Zenon
  <2>2. nsnaps = 0 /\ lower.alloc = {}
    BY Zenon DEF Init, NoClusters
  <2>3. LowerInv /\ AtInv
    BY <2>2 DEF LowerInv, AtInv, Untouched, Newest
  <2>4. CopyInv
    BY Zenon DEF Init, CopyInv, NoSnapshot
  <2> QED BY <2>1, <2>3, <2>4, Zenon DEF DeltaInv
<1>2. Spec => []ReadInv
  BY ReadInvInit, ReadInvStep, VolumeTypes, PTL DEF Spec
<1> QED BY <1>1, <1>2, DeltaInvStep, DeltaInvChain, PTL DEF Spec
=============================================================================

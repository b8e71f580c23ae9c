----------------------------- MODULE DeltaFile ------------------------------
(***************************************************************************)
(* The delta file of a snapshot (spdk_bs_dev_delta.c): a cluster map at    *)
(* the start of the file, then the clusters in the order they were         *)
(* written.  The blobstore's shallow copy opens a channel, writes each     *)
(* allocated cluster of the clone once, and releases the channel; only     *)
(* then is the map written.  Nothing locks the file or truncates it: it    *)
(* may be used again for a later snapshot, also while the copy before is   *)
(* still running, each with a descriptor and a map of its own.  A device   *)
(* created from the file keeps the map it read then.  Positions and sizes  *)
(* are in blocks.                                                          *)
(***************************************************************************)
EXTENDS Integers

CONSTANTS
  NumClusters,  \* clusters of the device, no more than MAX_CLUSTERS
  BPC,          \* blocks of a cluster
  Header,       \* blocks of the map: sizeof(cluster_map)
  Cap,          \* blocks the file may grow to
  Value,        \* what a block may hold
  MaxCopies,    \* bound: how many snapshots go to the file
  Source,       \* what the clusters of the clone of each copy hold
  Stale         \* what the file holds before anything is written to it

Cluster == 0 .. NumClusters - 1
Offset  == 0 .. BPC - 1
Copy    == 1 .. MaxCopies

ASSUME DeltaAssumption ==
  /\ NumClusters \in Nat \ {0}
  /\ BPC \in Nat \ {0}
  /\ Header \in Nat \ {0}
  /\ Cap \in Nat /\ Header <= Cap
  /\ MaxCopies \in Nat
  /\ Source \in [Copy -> [Cluster -> [Offset -> Value]]]
  /\ Stale \in Value

VARIABLES
  copies,  \* copies started; of each:
  alloc,   \* the clusters its clone has
  st,      \* none, open, failed (channel still open), done, error, unmapped
           \* (closed without its map), crashed
  copied,  \* clusters whose write was reported as a success
  map,     \* ch->cluster_map
  pos,     \* the position of ch->delta_file_fd
  cut,     \* history: clusters in its map that were not stored whole
  shared,  \* history: copies whose channel was open at the same time as another's
  file,    \* the blocks of the file, those of the map apart
  fileMap, \* the map at the start of the file
  reader   \* the map of a device created from the file, and the copies started by then

channels == <<copies, alloc, st, copied, map, pos, cut, shared>>
vars == <<channels, file, fileMap, reader>>

NoMap == [c \in Cluster |-> 0]
Open == {k \in Copy : st[k] \in {"open", "failed"}}

Init ==
  /\ copies = 0
  /\ alloc = [k \in Copy |-> {}]
  /\ st = [k \in Copy |-> "none"]
  /\ copied = [k \in Copy |-> {}]
  /\ map = [k \in Copy |-> NoMap]
  /\ pos = [k \in Copy |-> 0]
  /\ cut = [k \in Copy |-> {}]
  /\ shared = {}
  /\ file = [b \in 0 .. Cap - 1 |-> Stale]
  /\ fileMap = NoMap
  /\ reader = [map |-> NoMap, copies |-> 0]

-----------------------------------------------------------------------------
create_channel_cb_KeepsMap(k, clusters) ==
  /\ k = copies + 1
  /\ copies' = k
  /\ alloc' = [alloc EXCEPT ![k] = clusters]
  /\ st' = [st EXCEPT ![k] = "open"]
  /\ pos' = [pos EXCEPT ![k] = Header]
  /\ shared' = IF Open = {} THEN shared ELSE shared \cup Open \cup {k}
  /\ UNCHANGED <<copied, map, cut, file, fileMap, reader>>

\* bs_dev_delta_create_channel_cb, to write: the file is opened without being
\* truncated or locked and the map is reserved, as zeroes, in front of the clusters.
\* (If any of it fails the process is aborted: Crash.)
create_channel_cb(k, clusters) ==
  /\ k = copies + 1
  /\ copies' = k
  /\ alloc' = [alloc EXCEPT ![k] = clusters]
  /\ st' = [st EXCEPT ![k] = "open"]
  /\ fileMap' = NoMap
  /\ pos' = [pos EXCEPT ![k] = Header]
  /\ shared' = IF Open = {} THEN shared ELSE shared \cup Open \cup {k}
  /\ UNCHANGED <<copied, map, cut, file, reader>>

\* What write(2) may store of a cluster at p: some of it, within the limit of the file
\* (external).
Stored(p) == {n \in 1 .. BPC : p + n <= Cap}

\* The file with the first n blocks of the cluster at p.
Put(k, c, p, n) ==
  [b \in 0 .. Cap - 1 |-> IF b \in p .. p + n - 1 THEN Source[k][c][b - p] ELSE file[b]]

write_MapAfter(k, c, n) ==
  /\ st[k] = "open" /\ c \in alloc[k] \ copied[k] /\ n \in Stored(pos[k])
  /\ map' = [map EXCEPT ![k][c] = pos[k] + n]
  /\ file' = Put(k, c, pos[k], n)
  /\ pos' = [pos EXCEPT ![k] = @ + n]
  /\ copied' = [copied EXCEPT ![k] = @ \cup {c}]
  /\ cut' = IF n < BPC THEN [cut EXCEPT ![k] = @ \cup {c}] ELSE cut
  /\ UNCHANGED <<copies, alloc, st, shared, fileMap, reader>>

write_PosWhole(k, c, n) ==
  /\ st[k] = "open" /\ c \in alloc[k] \ copied[k] /\ n \in Stored(pos[k])
  /\ map' = [map EXCEPT ![k][c] = pos[k]]
  /\ file' = Put(k, c, pos[k], n)
  /\ pos' = [pos EXCEPT ![k] = @ + BPC]
  /\ copied' = [copied EXCEPT ![k] = @ \cup {c}]
  /\ cut' = IF n < BPC THEN [cut EXCEPT ![k] = @ \cup {c}] ELSE cut
  /\ UNCHANGED <<copies, alloc, st, shared, fileMap, reader>>

\* bs_dev_delta_write: the cluster is entered in the map at the file position,
\* then written there.  A write that stores anything counts as complete.
bs_dev_delta_write(k, c, n) ==
  /\ st[k] = "open" /\ c \in alloc[k] \ copied[k] /\ n \in Stored(pos[k])
  /\ map' = [map EXCEPT ![k][c] = pos[k]]
  /\ file' = Put(k, c, pos[k], n)
  /\ pos' = [pos EXCEPT ![k] = @ + n]
  /\ copied' = [copied EXCEPT ![k] = @ \cup {c}]
  /\ cut' = IF n < BPC THEN [cut EXCEPT ![k] = @ \cup {c}] ELSE cut
  /\ UNCHANGED <<copies, alloc, st, shared, fileMap, reader>>

\* The same, when write fails: -EIO, with the cluster already in the map.
bs_dev_delta_write_error(k, c) ==
  /\ st[k] = "open" /\ c \in alloc[k] \ copied[k]
  /\ map' = [map EXCEPT ![k][c] = pos[k]]
  /\ cut' = [cut EXCEPT ![k] = @ \cup {c}]
  /\ st' = [st EXCEPT ![k] = "failed"]
  /\ UNCHANGED <<copies, alloc, copied, pos, shared, file, fileMap, reader>>

\* A read of the clone fails, or lseek in bs_dev_delta_write: the copy gives up.
ReadError(k, c) ==
  /\ st[k] = "open" /\ c \in alloc[k] \ copied[k]
  /\ st' = [st EXCEPT ![k] = "failed"]
  /\ UNCHANGED <<copies, alloc, copied, map, pos, cut, shared, file, fileMap, reader>>

\* bs_dev_delta_destroy_channel_cb, after the last cluster or after an error:
\* back to the start of the file, and the map goes over what is there.
destroy_channel_cb(k) ==
  /\ st[k] = "failed" \/ (st[k] = "open" /\ copied[k] = alloc[k])
  /\ fileMap' = map[k]
  /\ st' = [st EXCEPT ![k] = IF @ = "open" THEN "done" ELSE "error"]
  /\ map' = [map EXCEPT ![k] = NoMap] /\ pos' = [pos EXCEPT ![k] = 0]
  /\ UNCHANGED <<copies, alloc, copied, cut, shared, file, reader>>

\* The same, when write fails: that is logged and no more.
destroy_channel_cb_error(k) ==
  /\ st[k] = "failed" \/ (st[k] = "open" /\ copied[k] = alloc[k])
  /\ st' = [st EXCEPT ![k] = "unmapped"]
  /\ map' = [map EXCEPT ![k] = NoMap] /\ pos' = [pos EXCEPT ![k] = 0]
  /\ UNCHANGED <<copies, alloc, copied, cut, shared, file, fileMap, reader>>

\* The process dies before the channels are released.
Crash ==
  /\ Open # {}
  /\ st' = [k \in Copy |-> IF k \in Open THEN "crashed" ELSE st[k]]
  /\ map' = [k \in Copy |-> NoMap] /\ pos' = [k \in Copy |-> 0]
  /\ UNCHANGED <<copies, alloc, copied, cut, shared, file, fileMap, reader>>

ubi_read_cluster_map_Bytes == [c \in Cluster |-> IF c < NumClusters \div 2 THEN fileMap[c] ELSE 0]

\* What ubi_read_cluster_map reads from the file.
ubi_read_cluster_map == fileMap

\* A device is created with this file as its snapshot_path: at any time, also while
\* a copy runs.  The device keeps the map and never reads it again.
bs_dev_uring_create ==
  /\ copies > 0
  /\ reader' = [map |-> ubi_read_cluster_map, copies |-> copies]
  /\ UNCHANGED <<channels, file, fileMap>>

Next ==
  \/ \E k \in Copy :
       \/ \E clusters \in SUBSET Cluster : create_channel_cb(k, clusters)
       \/ \E c \in Cluster :
            \/ \E n \in 1 .. BPC : bs_dev_delta_write(k, c, n)
            \/ bs_dev_delta_write_error(k, c) \/ ReadError(k, c)
       \/ destroy_channel_cb(k) \/ destroy_channel_cb_error(k)
  \/ Crash
  \/ bs_dev_uring_create

Spec == Init /\ [][Next]_vars

-----------------------------------------------------------------------------
(* Properties *)

\* The shape of the state.
TypeOK ==
  /\ copies \in 0 .. MaxCopies
  /\ alloc \in [Copy -> SUBSET Cluster]
  /\ st \in [Copy -> {"none", "open", "failed", "done", "error", "unmapped", "crashed"}]
  /\ copied \in [Copy -> SUBSET Cluster]
  /\ map \in [Copy -> [Cluster -> 0 .. Cap]]
  /\ pos \in [Copy -> 0 .. Cap]
  /\ cut \in [Copy -> SUBSET Cluster]
  /\ shared \subseteq Copy
  /\ file \in [0 .. Cap - 1 -> Value]
  /\ fileMap \in [Cluster -> 0 .. Cap]
  /\ reader \in [map : [Cluster -> 0 .. Cap], copies : 0 .. MaxCopies]

\* A map that gives for each cluster the copy reported as written a place that
\* holds it, and no place for the others.  The clusters in cut are the exception.
Shows(k, m) ==
  \A c \in Cluster \ cut[k] :
    IF c \in copied[k]
    THEN \A o \in Offset : /\ m[c] + o \in Header .. Cap - 1
                           /\ file[m[c] + o] = Source[k][c][o]
    ELSE m[c] = 0

\* The last copy to the file is k, and it never ran beside another.
Last(k) == k = copies /\ k \notin shared
Ended(k) == st[k] \in {"done", "error"}

\* A copy that has ended can be read back, and if it failed, what there is of it:
\* the clusters are untouched by those written after them, by the map, and by older
\* snapshots in the same file, those of copies that ran into each other included.  A
\* write that was cut short, and is still reported as a success (bs_dev_delta_write
\* checks ret < 0 only), or that failed with its cluster in the map already, spoils
\* that cluster alone.  Excepted: a copy that ran at the same time as another one to
\* the same file.
Restorable ==
  \A k \in Copy : Last(k) /\ Ended(k) =>
    /\ Shows(k, fileMap)
    /\ st[k] = "done" => copied[k] = alloc[k]

\* While a copy runs, after a crash cut it off, and when its map could not be
\* written, the file shows no cluster: a device created from it reads the image,
\* not half of a snapshot, and not an older snapshot whose clusters this one has
\* begun to overwrite (with the same exception).
CutOffIsEmpty == \A k \in Copy : Last(k) /\ ~Ended(k) => fileMap = NoMap

\* A device created from the file shows nothing of the copy, or exactly the clusters it
\* reported as written (all there are, unless it failed), whenever the device was
\* created and whatever became of the copy since, as long as no other copy has
\* been started to the same file (and with the same exception).
ReaderWhole ==
  \A k \in Copy : Last(k) /\ reader.copies = k =>
    reader.map = NoMap \/ (Ended(k) /\ Shows(k, reader.map))

\* No cluster changes under a device that was created from the file: not so when the
\* file is used again, or by two copies at once.  The device goes on with the old map
\* over the new clusters.
ReaderKept ==
  [][\A c \in Cluster, o \in Offset :
       UNCHANGED reader /\ reader.map[c] # 0 /\ reader.map[c] + o < Cap
         => file'[reader.map[c] + o] = file[reader.map[c] + o]]_vars

\* Restorable without the exception: refuted when two copies run at once, for each
\* writes from the same place on, and the map of the last to end is over the clusters
\* of both.
RestorableShared ==
  \A k \in Copy : k = copies /\ Ended(k) /\ Open = {} => Shows(k, fileMap)
=============================================================================

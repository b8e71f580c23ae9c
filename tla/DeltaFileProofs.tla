--------------------------- MODULE DeltaFileProofs --------------------------
(***************************************************************************)
(* Proofs about DeltaFile, for every number and size of clusters, every    *)
(* room in the file system and any number of copies to the same file.      *)
(***************************************************************************)
EXTENDS DeltaFile, TLAPS

USE DeltaAssumption

\* What write(2) stores is between one block and a cluster, and fits.
LEMMA StoredBounds ==
  ASSUME TypeOK, NEW k \in Copy, NEW n \in Stored(pos[k])
  PROVE  /\ n \in 1 .. BPC /\ pos[k] \in 0 .. Cap /\ pos[k] + n \in 0 .. Cap
         /\ n < BPC \/ n = BPC
<1>1. n \in 1 .. BPC /\ pos[k] + n <= Cap
  BY Zenon DEF Stored
<1>2. pos[k] \in 0 .. Cap
  BY Zenon DEF TypeOK
<1> QED BY <1>1, <1>2

\* The file has its shape after a write.
LEMMA PutType ==
  ASSUME TypeOK, NEW k \in Copy, NEW c \in Cluster, NEW n \in Stored(pos[k])
  PROVE  Put(k, c, pos[k], n) \in [0 .. Cap - 1 -> Value]
<1> SUFFICES ASSUME NEW b \in 0 .. Cap - 1
             PROVE  (IF b \in pos[k] .. pos[k] + n - 1 THEN Source[k][c][b - pos[k]] ELSE file[b])
                      \in Value
  BY Zenon DEF Put
<1>1. Source[k] \in [Cluster -> [Offset -> Value]]
  BY Zenon
<1>2. Source[k][c] \in [Offset -> Value] /\ file[b] \in Value
  BY <1>1, Zenon DEF TypeOK
<1>3. n \in 1 .. BPC /\ pos[k] \in 0 .. Cap
  BY StoredBounds, Zenon
<1>4. b \in pos[k] .. pos[k] + n - 1 => b - pos[k] \in Offset
  BY <1>3 DEF Offset
<1> QED BY <1>2, <1>4, Zenon

\* The type invariant is inductive.
LEMMA TypeStep == TypeOK /\ [Next]_vars => TypeOK'
<1> SUFFICES ASSUME TypeOK, [Next]_vars PROVE TypeOK'
  BY Zenon
<1>0. NoMap \in [Cluster -> 0 .. Cap] /\ Header \in 0 .. Cap /\ 0 \in 0 .. Cap
  BY DEF NoMap
<1>1. ASSUME NEW k \in Copy, NEW a \in SUBSET Cluster, create_channel_cb(k, a)
      PROVE  TypeOK'
  <2>1. k \in 0 .. MaxCopies
    BY DEF Copy
  <2>2. Open \subseteq Copy
    BY Zenon DEF Open
  <2> QED BY <1>0, <1>1, <2>1, <2>2, Zenon DEF create_channel_cb, TypeOK
<1>2. ASSUME NEW k \in Copy, NEW c \in Cluster, NEW n \in 1 .. BPC, bs_dev_delta_write(k, c, n)
      PROVE  TypeOK'
  <2>1. n \in Stored(pos[k])
    BY <1>2, Zenon DEF bs_dev_delta_write
  <2>2. pos[k] \in 0 .. Cap /\ pos[k] + n \in 0 .. Cap
    BY <2>1, StoredBounds, Zenon
  <2>3. file' \in [0 .. Cap - 1 -> Value]
    BY <1>2, <2>1, PutType, Zenon DEF bs_dev_delta_write
  <2> QED BY <1>2, <2>2, <2>3, Zenon DEF bs_dev_delta_write, TypeOK
<1>3. ASSUME NEW k \in Copy, NEW c \in Cluster, bs_dev_delta_write_error(k, c) PROVE TypeOK'
  BY <1>3, Zenon DEF bs_dev_delta_write_error, TypeOK
<1>4. ASSUME NEW k \in Copy, NEW c \in Cluster, ReadError(k, c) PROVE TypeOK'
  BY <1>4, Zenon DEF ReadError, TypeOK
<1>5. ASSUME NEW k \in Copy, destroy_channel_cb(k) PROVE TypeOK'
  BY <1>0, <1>5, Zenon DEF destroy_channel_cb, TypeOK
<1>6. ASSUME NEW k \in Copy, destroy_channel_cb_error(k) PROVE TypeOK'
  BY <1>0, <1>6, Zenon DEF destroy_channel_cb_error, TypeOK
<1>7. CASE Crash
  BY <1>0, <1>7, Zenon DEF Crash, TypeOK
<1>8. CASE bs_dev_uring_create
  BY <1>8, Zenon DEF bs_dev_uring_create, ubi_read_cluster_map, channels, TypeOK
<1>9. CASE UNCHANGED vars
  BY <1>9, Zenon DEF vars, channels, TypeOK
<1> QED BY <1>1, <1>2, <1>3, <1>4, <1>5, <1>6, <1>7, <1>8, <1>9, Zenon DEF Next

\* The initial state has its type.
LEMMA TypeInit == Init => TypeOK
<1>1. NoMap \in [Cluster -> 0 .. Cap]
  BY DEF NoMap
<1>2. 0 \in 0 .. MaxCopies /\ 0 \in 0 .. Cap
  OBVIOUS
<1>3. [b \in 0 .. Cap - 1 |-> Stale] \in [0 .. Cap - 1 -> Value]
  BY Zenon
<1>4. Init => reader \in [map : [Cluster -> 0 .. Cap], copies : 0 .. MaxCopies]
  BY <1>1, <1>2 DEF Init
<1> QED BY <1>1, <1>2, <1>3, <1>4, Zenon DEF Init, TypeOK

\* The type invariant holds.
THEOREM DeltaTypes == Spec => []TypeOK
BY TypeInit, TypeStep, PTL DEF Spec

-----------------------------------------------------------------------------
\* Copies are numbered as they are started, what has not been started has nothing,
\* and a last copy that has not shared the file is the only one that may be open.
Numbered ==
  /\ \A k \in Copy : k > copies => st[k] = "none" /\ copied[k] = {} /\ cut[k] = {} /\ map[k] = NoMap
  /\ \A k \in Copy : Last(k) => Open \subseteq {k}
  /\ \A k \in Copy : st[k] = "done" => copied[k] = alloc[k]

\* Why a copy can be read back: while the channel is open, the clusters copied so
\* far lie between the map and the file position, where the next write does not
\* reach, and the map has no others.
Placed(k, c) ==
  /\ map[k][c] >= Header
  /\ map[k][c] + BPC <= pos[k]
  /\ \A o \in Offset : file[map[k][c] + o] = Source[k][c][o]

InPlace(k) ==
  k \in Open =>
    /\ pos[k] >= Header
    /\ \A c \in Cluster \ cut[k] : IF c \in copied[k] THEN Placed(k, c) ELSE map[k][c] = 0

\* A map read since the copy was started is the one the file has, or none.
ReaderMap(k) == reader.copies = k => reader.map \in {NoMap, fileMap}

\* What holds of the last copy, if it has not shared the file.
Whole(k) ==
  /\ InPlace(k)
  /\ Ended(k) => Shows(k, fileMap)
  /\ ~Ended(k) => fileMap = NoMap
  /\ ReaderMap(k)

CopyInv ==
  /\ TypeOK /\ Numbered /\ reader.copies <= copies
  /\ \A k \in Copy : Last(k) => Whole(k)

\* A write keeps the clusters before it and puts its own at the file position.
LEMMA WriteInPlace ==
  ASSUME TypeOK, NEW k \in Copy, InPlace(k), NEW c \in Cluster, NEW n \in 1 .. BPC,
         bs_dev_delta_write(k, c, n)
  PROVE  InPlace(k)'
<1> DEFINE p == pos[k]
           m == map[k]
<1>1. /\ st[k] = "open" /\ n \in Stored(p) /\ c \notin copied[k]
      /\ copied'[k] = copied[k] \cup {c} /\ map'[k] = [m EXCEPT ![c] = p] /\ pos'[k] = p + n
      /\ cut'[k] = (IF n < BPC THEN cut[k] \cup {c} ELSE cut[k])
      /\ file' = [b \in 0 .. Cap - 1 |->
                    IF b \in p .. p + n - 1 THEN Source[k][c][b - p] ELSE file[b]]
  <2>1. /\ copied'[k] = copied[k] \cup {c} /\ map'[k] = [m EXCEPT ![c] = p] /\ pos'[k] = p + n
    BY Zenon DEF bs_dev_delta_write, TypeOK
  <2>2. cut'[k] = (IF n < BPC THEN cut[k] \cup {c} ELSE cut[k])
    BY Zenon DEF bs_dev_delta_write, TypeOK
  <2> QED BY <2>1, <2>2, Zenon DEF bs_dev_delta_write, Put
<1>2. /\ map'[k][c] = p
      /\ \A d \in Cluster : m[d] \in 0 .. Cap /\ (d # c => map'[k][d] = m[d])
  <2>1. m \in [Cluster -> 0 .. Cap]
    BY Zenon DEF TypeOK
  <2> QED BY <1>1, <2>1, Zenon
<1>3. k \in Open
  BY <1>1, Zenon DEF Open
<1>4. /\ p >= Header
      /\ \A d \in Cluster \ cut[k] : IF d \in copied[k] THEN Placed(k, d) ELSE m[d] = 0
  BY <1>3, Zenon DEF InPlace
<1>5. p \in 0 .. Cap /\ n \in 1 .. BPC /\ p + n <= Cap
  BY <1>1, StoredBounds DEF Stored
<1> HIDE DEF p, m
<1>6. pos'[k] >= Header
  BY <1>1, <1>4, <1>5
<1>7. ASSUME NEW d \in Cluster \ cut'[k], d \notin copied'[k] PROVE map'[k][d] = 0
  BY <1>1, <1>2, <1>4, <1>7, Zenon
<1>8. ASSUME NEW d \in Cluster \ cut'[k], d \in copied'[k] PROVE Placed(k, d)'
  <2>1. CASE d = c
    <3>1. n = BPC
      BY <1>1, <1>5, <2>1
    <3>2. \A o \in Offset : /\ p + o \in 0 .. Cap - 1
                            /\ p + o \in p .. p + n - 1
                            /\ (p + o) - p = o
      BY <1>5, <3>1 DEF Offset
    <3>3. \A o \in Offset : file'[p + o] = Source[k][c][o]
      BY <1>1, <3>2, Zenon
    <3>4. p + BPC <= pos'[k]
      BY <1>1, <1>5, <3>1
    <3> QED BY <1>2, <1>4, <2>1, <3>3, <3>4, Zenon DEF Placed
  <2>2. CASE d # c
    <3>1. d \in copied[k] /\ d \notin cut[k]
      BY <1>1, <1>8, <2>2, Zenon
    <3>2. m[d] >= Header /\ m[d] + BPC <= p /\ \A o \in Offset : file[m[d] + o] = Source[k][d][o]
      BY <1>4, <3>1, Zenon DEF Placed, m, p
    <3>3. \A o \in Offset : m[d] + o \in 0 .. Cap - 1 /\ m[d] + o \notin p .. p + n - 1
      BY <1>2, <1>5, <3>1, <3>2 DEF Offset
    <3>4. \A o \in Offset : file'[m[d] + o] = file[m[d] + o]
      BY <1>1, <3>3, Zenon
    <3>5. m[d] + BPC <= pos'[k]
      BY <1>1, <1>2, <1>5, <3>2
    <3> QED BY <1>2, <2>2, <3>2, <3>4, <3>5, Zenon DEF Placed
  <2> QED BY <2>1, <2>2, Zenon
<1> QED BY <1>6, <1>7, <1>8, Zenon DEF InPlace

\* The map in memory, once in the file, shows what was copied.
LEMMA InPlaceShows ==
  ASSUME TypeOK, NEW k \in Open, InPlace(k)
  PROVE  Shows(k, map[k])
<1>0. k \in Copy
  BY Zenon DEF Open
<1> SUFFICES ASSUME NEW c \in Cluster \ cut[k], c \in copied[k]
             PROVE  \A o \in Offset : /\ map[k][c] + o \in Header .. Cap - 1
                                      /\ file[map[k][c] + o] = Source[k][c][o]
  <2>1. \A c \in Cluster \ cut[k] : c \notin copied[k] => map[k][c] = 0
    BY Zenon DEF InPlace
  <2> QED BY <2>1, Zenon DEF Shows
<1>1. /\ map[k][c] >= Header /\ map[k][c] + BPC <= pos[k]
      /\ \A o \in Offset : file[map[k][c] + o] = Source[k][c][o]
  <2>1. Placed(k, c)
    BY Zenon DEF InPlace
  <2> QED BY <2>1, Zenon DEF Placed
<1>2. map[k][c] \in 0 .. Cap /\ pos[k] \in 0 .. Cap
  <2>1. map[k] \in [Cluster -> 0 .. Cap]
    BY <1>0, Zenon DEF TypeOK
  <2> QED BY <1>0, <2>1, Zenon DEF TypeOK
<1>3. \A o \in Offset : map[k][c] + o \in Header .. Cap - 1
  BY <1>1, <1>2 DEF Offset
<1> QED BY <1>1, <1>3, Zenon

-----------------------------------------------------------------------------
\* A step in which copy k, whose channel is open, goes on or ends.  If there is a last
\* copy that has not shared the file, it is k: so what holds of k is all there is to show.
LEMMA OneGoesOn ==
  ASSUME CopyInv, TypeOK', NEW k \in Open,
         UNCHANGED <<copies, shared, alloc, reader>>,
         \A q \in Copy : q # k => st'[q] = st[q] /\ copied'[q] = copied[q] /\ cut'[q] = cut[q]
                                  /\ map'[q] = map[q],
         st'[k] \in {"open", "failed", "done", "error", "unmapped", "crashed"},
         st'[k] = "done" => copied'[k] = alloc[k],
         Last(k) => Whole(k)'
  PROVE  CopyInv'
<1>1. k \in Copy /\ st[k] \in {"open", "failed"}
  BY Zenon DEF Open
<1>2. \A q \in Copy : Last(q)' = Last(q)
  BY Zenon DEF Last
<1>3. \A q \in Copy : Last(q) => q = k
  BY <1>1, Zenon DEF CopyInv, Numbered
<1>4. ~(k > copies)
  BY <1>1, Zenon DEF CopyInv, Numbered
<1>5. \A q \in Copy : Last(q) => Open' \subseteq {q}
  BY <1>3, Zenon DEF CopyInv, Numbered, Open
<1>6. Numbered'
  <2>1. \A q \in Copy : q > copies' => st'[q] = "none" /\ copied'[q] = {} /\ cut'[q] = {}
                                       /\ map'[q] = NoMap
    BY <1>4, Zenon DEF CopyInv, Numbered
  <2>2. \A q \in Copy : st'[q] = "done" => copied'[q] = alloc'[q]
    BY Zenon DEF CopyInv, Numbered
  <2> QED BY <1>2, <1>5, <2>1, <2>2, Zenon DEF Numbered, NoMap
<1> QED BY <1>2, <1>3, <1>6, Zenon DEF CopyInv

\* A copy is started.
LEMMA CreateInv ==
  ASSUME CopyInv, TypeOK', NEW k \in Copy, NEW a \in SUBSET Cluster, create_channel_cb(k, a)
  PROVE  CopyInv'
<1>1. /\ k = copies + 1 /\ copies' = k /\ copies \in Nat /\ reader' = reader /\ fileMap' = NoMap
      /\ shared' = IF Open = {} THEN shared ELSE shared \cup Open \cup {k}
      /\ st' = [st EXCEPT ![k] = "open"] /\ alloc' = [alloc EXCEPT ![k] = a]
      /\ pos' = [pos EXCEPT ![k] = Header] /\ copied' = copied /\ map' = map /\ cut' = cut
  BY DEF create_channel_cb, CopyInv, TypeOK
<1>2. k > copies /\ ~(k <= copies) /\ reader.copies # k /\ reader'.copies <= copies'
  BY <1>1 DEF CopyInv, TypeOK
<1>3. \A q \in Copy : q > copies' => q > copies /\ q # k
  BY <1>1 DEF Copy
<1>4. /\ st[k] = "none" /\ copied[k] = {} /\ cut[k] = {} /\ map[k] = NoMap
  BY <1>2, Zenon DEF CopyInv, Numbered
<1>5. /\ st'[k] = "open" /\ pos'[k] = Header /\ \A q \in Copy : q # k => st'[q] = st[q]
      /\ \A q \in Copy : q # k => alloc'[q] = alloc[q]
  BY <1>1, Zenon DEF CopyInv, TypeOK
<1>6. \A q \in Copy : Last(q)' => q = k /\ Open = {}
  BY <1>1, Zenon DEF Last
<1>7. Numbered'
  <2>1. \A q \in Copy : q > copies' => st'[q] = "none" /\ copied'[q] = {} /\ cut'[q] = {}
                                       /\ map'[q] = NoMap
    BY <1>1, <1>3, <1>5, Zenon DEF CopyInv, Numbered
  <2>2. \A q \in Copy : Last(q)' => Open' \subseteq {q}
    BY <1>5, <1>6, Zenon DEF Open
  <2>3. \A q \in Copy : st'[q] = "done" => copied'[q] = alloc'[q]
    BY <1>1, <1>5, Zenon DEF CopyInv, Numbered
  <2> QED BY <2>1, <2>2, <2>3, Zenon DEF Numbered, NoMap
<1>8. InPlace(k)'
  <2>1. pos'[k] >= Header
    BY <1>5
  <2>2. \A c \in Cluster : c \notin copied'[k] /\ map'[k][c] = 0
    BY <1>1, <1>4, Zenon DEF NoMap
  <2> QED BY <2>1, <2>2, Zenon DEF InPlace
<1>9. Whole(k)'
  BY <1>1, <1>2, <1>5, <1>8, Zenon DEF Whole, Ended, ReaderMap, NoMap
<1> QED BY <1>2, <1>6, <1>7, <1>9, Zenon DEF CopyInv

\* A cluster is written.
LEMMA WriteInv ==
  ASSUME CopyInv, TypeOK', NEW k \in Copy, NEW c \in Cluster, NEW n \in 1 .. BPC,
         bs_dev_delta_write(k, c, n)
  PROVE  CopyInv'
<1>1. /\ st[k] = "open" /\ UNCHANGED <<copies, shared, alloc, reader, st, fileMap>>
      /\ \A q \in Copy : q # k => copied'[q] = copied[q] /\ cut'[q] = cut[q] /\ map'[q] = map[q]
  BY Zenon DEF bs_dev_delta_write, CopyInv, TypeOK
<1>2. k \in Open /\ ~Ended(k)
  BY <1>1, Zenon DEF Open, Ended
<1>3. Last(k) => Whole(k)'
  <2> SUFFICES ASSUME Last(k) PROVE Whole(k)'
    BY Zenon
  <2>1. Whole(k)
    BY Zenon DEF CopyInv
  <2>2. InPlace(k)'
    BY <2>1, WriteInPlace, Zenon DEF Whole, CopyInv
  <2> QED BY <1>1, <1>2, <2>1, <2>2, Zenon DEF Whole, Ended, ReaderMap, NoMap
<1> QED BY <1>1, <1>2, <1>3, OneGoesOn, Zenon

\* A write fails, with its cluster in the map.
LEMMA WriteErrorInv ==
  ASSUME CopyInv, TypeOK', NEW k \in Copy, NEW c \in Cluster, bs_dev_delta_write_error(k, c)
  PROVE  CopyInv'
<1>1. /\ st[k] = "open" /\ UNCHANGED <<copies, shared, alloc, reader, fileMap, file, pos, copied>>
      /\ st'[k] = "failed" /\ cut'[k] = cut[k] \cup {c} /\ map'[k] = [map[k] EXCEPT ![c] = pos[k]]
      /\ \A q \in Copy : q # k => st'[q] = st[q] /\ cut'[q] = cut[q] /\ map'[q] = map[q]
  BY Zenon DEF bs_dev_delta_write_error, CopyInv, TypeOK
<1>2. k \in Open /\ ~Ended(k)
  BY <1>1, Zenon DEF Open, Ended
<1>3. Last(k) => Whole(k)'
  <2> SUFFICES ASSUME Last(k) PROVE Whole(k)'
    BY Zenon
  <2>1. Whole(k) /\ map[k] \in [Cluster -> 0 .. Cap]
    BY Zenon DEF CopyInv, TypeOK
  <2>2. \A d \in Cluster \ cut'[k] : map'[k][d] = map[k][d] /\ d \in Cluster \ cut[k]
    BY <1>1, <2>1, Zenon
  <2>3. /\ pos[k] >= Header
        /\ \A d \in Cluster \ cut[k] : IF d \in copied[k] THEN Placed(k, d) ELSE map[k][d] = 0
    BY <1>2, <2>1, Zenon DEF Whole, InPlace
  <2>4. \A d \in Cluster \ cut'[k] : Placed(k, d) => Placed(k, d)'
    BY <1>1, <2>2, Zenon DEF Placed
  <2>5. InPlace(k)'
    BY <1>1, <2>2, <2>3, <2>4, Zenon DEF InPlace
  <2> QED BY <1>1, <1>2, <2>1, <2>5, Zenon DEF Whole, Ended, ReaderMap, NoMap
<1> QED BY <1>1, <1>2, <1>3, OneGoesOn, Zenon

\* A read of the clone fails.
LEMMA ReadErrorInv ==
  ASSUME CopyInv, TypeOK', NEW k \in Copy, NEW c \in Cluster, ReadError(k, c)
  PROVE  CopyInv'
<1>1. /\ st[k] = "open"
      /\ UNCHANGED <<copies, shared, alloc, reader, fileMap, file, pos, copied, cut, map>>
      /\ st'[k] = "failed" /\ \A q \in Copy : q # k => st'[q] = st[q]
  BY Zenon DEF ReadError, CopyInv, TypeOK
<1>2. k \in Open /\ ~Ended(k)
  BY <1>1, Zenon DEF Open, Ended
<1>3. Last(k) => Whole(k)'
  BY <1>1, <1>2, Zenon DEF CopyInv, Whole, InPlace, Placed, Ended, ReaderMap, NoMap
<1> QED BY <1>1, <1>2, <1>3, OneGoesOn, Zenon

\* A channel is released and its map written.
LEMMA DestroyInv ==
  ASSUME CopyInv, TypeOK', NEW k \in Copy, destroy_channel_cb(k)
  PROVE  CopyInv'
<1>1. /\ st[k] \in {"open", "failed"} /\ (st[k] = "open" => copied[k] = alloc[k])
      /\ UNCHANGED <<copies, shared, alloc, reader, file, copied, cut>> /\ fileMap' = map[k]
      /\ st'[k] = (IF st[k] = "open" THEN "done" ELSE "error")
      /\ \A q \in Copy : q # k => st'[q] = st[q] /\ map'[q] = map[q]
  BY Zenon DEF destroy_channel_cb, CopyInv, TypeOK
<1>2. k \in Open /\ ~Ended(k) /\ k \notin Open' /\ st'[k] \in {"done", "error"}
  BY <1>1, Zenon DEF Open, Ended
<1>3. Last(k) => Whole(k)'
  <2> SUFFICES ASSUME Last(k) PROVE Whole(k)'
    BY Zenon
  <2>1. InPlace(k) /\ fileMap = NoMap /\ ReaderMap(k) /\ TypeOK
    BY <1>2, Zenon DEF CopyInv, Whole
  <2>2. Shows(k, map[k])
    BY <1>2, <2>1, InPlaceShows, Zenon
  <2>3. Shows(k, fileMap)'
    BY <1>1, <2>2, Zenon DEF Shows
  <2>4. ReaderMap(k)'
    BY <1>1, <2>1, Zenon DEF ReaderMap, NoMap
  <2> QED BY <1>2, <2>3, <2>4, Zenon DEF Whole, InPlace, Ended
<1> QED BY <1>1, <1>2, <1>3, OneGoesOn, Zenon

\* A channel is released and its map is not written.
LEMMA DestroyErrorInv ==
  ASSUME CopyInv, TypeOK', NEW k \in Copy, destroy_channel_cb_error(k)
  PROVE  CopyInv'
<1>1. /\ st[k] \in {"open", "failed"} /\ st'[k] = "unmapped"
      /\ UNCHANGED <<copies, shared, alloc, reader, file, copied, cut, fileMap>>
      /\ \A q \in Copy : q # k => st'[q] = st[q] /\ map'[q] = map[q]
  BY Zenon DEF destroy_channel_cb_error, CopyInv, TypeOK
<1>2. k \in Open /\ ~Ended(k) /\ k \notin Open'
  BY <1>1, Zenon DEF Open, Ended
<1>3. Last(k) => Whole(k)'
  BY <1>1, <1>2, Zenon DEF CopyInv, Whole, InPlace, Ended, ReaderMap, NoMap
<1> QED BY <1>1, <1>2, <1>3, OneGoesOn, Zenon

\* The process dies.
LEMMA CrashInv ==
  ASSUME CopyInv, TypeOK', Crash
  PROVE  CopyInv'
<1>1. /\ UNCHANGED <<copies, shared, alloc, reader, file, copied, cut, fileMap>>
      /\ st' = [k \in Copy |-> IF k \in Open THEN "crashed" ELSE st[k]]
      /\ map' = [k \in Copy |-> NoMap]
  BY Zenon DEF Crash
<1>2. \A q \in Copy : Last(q)' = Last(q)
  BY <1>1, Zenon DEF Last
<1>3. Open' = {}
  BY <1>1, Zenon DEF Open
<1>4. \A q \in Copy : st'[q] = "none" <=> st[q] = "none"
  BY <1>1, Zenon DEF Open
<1>5. \A q \in Copy : (Ended(q)' <=> Ended(q)) /\ (st'[q] = "done" <=> st[q] = "done")
  BY <1>1, Zenon DEF Open, Ended
<1>6. Numbered'
  BY <1>1, <1>3, <1>4, <1>5, Zenon DEF CopyInv, Numbered, NoMap
<1>7. ASSUME NEW q \in Copy, Last(q) PROVE Whole(q)'
  <2>1. Whole(q)
    BY <1>7, Zenon DEF CopyInv
  <2>2. Ended(q)' => Shows(q, fileMap)'
    BY <1>1, <1>5, <2>1, Zenon DEF Whole, Shows
  <2>3. InPlace(q)' /\ ReaderMap(q)'
    BY <1>1, <1>3, <2>1, Zenon DEF Whole, InPlace, ReaderMap, NoMap
  <2> QED BY <1>1, <1>5, <2>1, <2>2, <2>3, Zenon DEF Whole, NoMap
<1> QED BY <1>1, <1>2, <1>6, <1>7, Zenon DEF CopyInv

\* CopyInv is inductive.
LEMMA CopyInvStep == CopyInv /\ TypeOK' /\ [Next]_vars => CopyInv'
<1> SUFFICES ASSUME CopyInv, TypeOK', [Next]_vars PROVE CopyInv'
  BY Zenon
<1>1. CASE bs_dev_uring_create
  <2>1. /\ UNCHANGED <<channels, file, fileMap>>
        /\ reader' = [map |-> fileMap, copies |-> copies]
    BY <1>1, Zenon DEF bs_dev_uring_create, ubi_read_cluster_map
  <2>2. Numbered' /\ \A k \in Copy : Last(k)' = Last(k)
    BY <2>1, Zenon DEF channels, CopyInv, Numbered, Last, Open, NoMap
  <2>3. reader'.copies <= copies' /\ reader'.map = fileMap
    BY <2>1 DEF channels, CopyInv, TypeOK
  <2>4. ASSUME NEW k \in Copy, Last(k) PROVE Whole(k)'
    BY <2>1, <2>3, <2>4, Zenon DEF channels, CopyInv, Whole, InPlace, Placed, Open, Ended, Shows, ReaderMap,
                                   NoMap
  <2> QED BY <2>2, <2>3, <2>4, Zenon DEF CopyInv
<1>2. CASE UNCHANGED vars
  <2>1. Numbered' /\ \A k \in Copy : Last(k)' = Last(k)
    BY <1>2, Zenon DEF vars, channels, CopyInv, Numbered, Last, Open, NoMap
  <2>2. ASSUME NEW k \in Copy, Last(k) PROVE Whole(k)'
    BY <1>2, <2>2, Zenon DEF vars, channels, CopyInv, Whole, InPlace, Placed, Open, Ended, Shows, ReaderMap,
                             NoMap
  <2> QED BY <1>2, <2>1, <2>2, Zenon DEF vars, channels, CopyInv
<1> QED BY <1>1, <1>2, CreateInv, WriteInv, WriteErrorInv, ReadErrorInv, DestroyInv, DestroyErrorInv,
           CrashInv, Zenon DEF Next

\* CopyInv holds.
LEMMA DeltaCopyInv == Spec => []CopyInv
<1>1. Init => CopyInv
  <2> SUFFICES ASSUME Init PROVE CopyInv
    BY Zenon
  <2>1. copies = 0 /\ reader.copies = 0 /\ 0 <= 0
    BY DEF Init
  <2>2. \A k \in Copy : ~Last(k)
    BY <2>1 DEF Last, Copy
  <2>3. Numbered
    BY <2>2, Zenon DEF Init, Numbered
  <2> QED BY <2>1, <2>2, <2>3, TypeInit, Zenon DEF CopyInv
<1> QED BY <1>1, CopyInvStep, DeltaTypes, PTL DEF Spec

\* What a copy that ended has reported as written can be read back from the file,
\* except for a cluster that was not stored whole, if it is the last one to the file and
\* did not run beside another.
THEOREM DeltaRestorable == Spec => []Restorable
<1>1. CopyInv => Restorable
  BY Zenon DEF CopyInv, Restorable, Whole, Numbered
<1> QED BY <1>1, DeltaCopyInv, PTL

\* A copy that runs, was cut off or could not write its map leaves a file that
\* shows no cluster, under the same condition.
THEOREM DeltaCutOffIsEmpty == Spec => []CutOffIsEmpty
<1>1. CopyInv => CutOffIsEmpty
  BY Zenon DEF CopyInv, CutOffIsEmpty, Whole
<1> QED BY <1>1, DeltaCopyInv, PTL

\* A device created from the file shows nothing of the copy or what it reported as
\* written, until the file is used again.
THEOREM DeltaReaderWhole == Spec => []ReaderWhole
<1>1. CopyInv => ReaderWhole
  BY Zenon DEF CopyInv, ReaderWhole, Whole, ReaderMap
<1> QED BY <1>1, DeltaCopyInv, PTL

\* No cluster changes under a device created from the file, whatever happens to its
\* copy, if that copy has not run beside another and no other has been started since:
\* there is nothing left to write for a copy whose map can be read.
THEOREM DeltaReaderKept ==
  Spec => [][\A c \in Cluster, o \in Offset :
               /\ reader.copies = copies /\ copies \notin shared
               /\ UNCHANGED reader /\ reader.map[c] # 0 /\ reader.map[c] + o < Cap
               => file'[reader.map[c] + o] = file[reader.map[c] + o]]_vars
<1>1. ASSUME CopyInv, [Next]_vars, NEW c \in Cluster, reader.copies = copies, copies \notin shared,
             reader.map[c] # 0
      PROVE  file' = file
  <2>1. ASSUME NEW k \in Copy, NEW d \in Cluster, NEW n \in 1 .. BPC, bs_dev_delta_write(k, d, n)
        PROVE  FALSE
    <3>1. k \in Open /\ ~Ended(k)
      BY <2>1, Zenon DEF bs_dev_delta_write, Open, Ended
    <3>2. ~(k > copies) /\ copies \in 0 .. MaxCopies
      BY <1>1, <2>1, Zenon DEF CopyInv, Numbered, TypeOK, bs_dev_delta_write
    <3>3. copies \in Copy
      BY <3>2 DEF Copy
    <3>4. Last(copies)
      BY <1>1, Zenon DEF Last
    <3>5. k = copies
      BY <1>1, <3>1, <3>3, <3>4, Zenon DEF CopyInv, Numbered
    <3>6. fileMap = NoMap /\ ReaderMap(k)
      BY <1>1, <3>1, <3>3, <3>4, <3>5, Zenon DEF CopyInv, Whole
    <3> QED BY <1>1, <3>5, <3>6, Zenon DEF ReaderMap, NoMap
  <2> QED BY <1>1, <2>1, Zenon DEF Next, vars, create_channel_cb, bs_dev_delta_write_error,
             ReadError, destroy_channel_cb, destroy_channel_cb_error, Crash, bs_dev_uring_create
<1>2. CopyInv /\ [Next]_vars =>
        [\A c \in Cluster, o \in Offset :
           /\ reader.copies = copies /\ copies \notin shared
           /\ UNCHANGED reader /\ reader.map[c] # 0 /\ reader.map[c] + o < Cap
           => file'[reader.map[c] + o] = file[reader.map[c] + o]]_vars
  BY <1>1, Zenon
<1> QED BY <1>2, DeltaCopyInv, PTL DEF Spec
=============================================================================

----------------------------- MODULE DdLemmas -------------------------------
(***************************************************************************)
(* What the operations of DdCopy keep of the invariant of DdProofs: the    *)
(* contents of buffers and output, the counters, the queue.                *)
(***************************************************************************)
EXTENDS DdCopy, TLAPS

\* Where a region ends, from how long it is.
LEMMA SameEnd ==
  ASSUME NEW a \in Nat, NEW b \in Nat, NEW c \in Nat, a - c = b - c
  PROVE  a = b
OBVIOUS

USE DdAssumption

-----------------------------------------------------------------------------
(* Least elements and finite sets *)

\* What is needed of naturals and finite sets, which DdProofs shows from the library.
Basics ==
  /\ \A S \in SUBSET Nat : S # {} => \E x \in S : \A y \in S : x <= y
  /\ \A S \in SUBSET Io :
       /\ Cardinality(S) \in Nat /\ (Cardinality(S) = 0 <=> S = {})
       /\ \A i \in Io \ S : Cardinality(S \cup {i}) = Cardinality(S) + 1

\* A set of naturals that is not empty has a least element.
LEMMA Least ==
  ASSUME Basics, NEW S, S \subseteq Nat, S # {}
  PROVE  Min(S) \in S /\ \A y \in S : Min(S) <= y
<1>1. \E x \in S : \A y \in S : x <= y
  BY Zenon DEF Basics
<1> QED BY <1>1, Zenon DEF Min

\* The smaller of two numbers.
LEMMA LessOfTwo ==
  ASSUME NEW a \in Int, NEW b \in Int
  PROVE  Min({a, b}) = IF a <= b THEN a ELSE b
BY DEF Min

\* The larger of two numbers.
LEMMA MoreOfTwo ==
  ASSUME NEW a \in Int, NEW b \in Int
  PROVE  Max({a, b}) = IF a >= b THEN a ELSE b
BY DEF Max

-----------------------------------------------------------------------------
(* The operators the handlers are built from *)

ModeOK == mode \in Modes /\ data \subseteq 0 .. Size - 1

\* Where the copy starts and how much there is to copy are naturals.
LEMMA Places ==
  ASSUME ModeOK
  PROVE  Start \in Nat /\ OutStart \in Nat /\ copy_size \in Nat /\ out_block \in Nat \ {0}
<1>1. Start \in Nat /\ OutStart \in Nat
  BY DEF Start, OutStart
<1>2. mode.count \in Nat
  BY Zenon DEF ModeOK
<1>3. mode.count * Unit \in Nat
  BY <1>2
<1>4. Start <= Size
  BY Zenon DEF Start
<1> QED BY <1>1, <1>3, <1>4 DEF copy_size, out_block

\* Data from p on, and the first hole after it.
LEMMA Searches ==
  ASSUME Basics, ModeOK, NEW p \in Nat
  PROVE  /\ Data(p) # {} => Min(Data(p)) \in data /\ Min(Data(p)) >= p
         /\ p <= Size => NextHole(p) \in p .. Size
         /\ p \in data => NextHole(p) > p
<1>0. \A o \in data : o \in Nat /\ o < Size
  BY DEF ModeOK
<1>1. Data(p) \subseteq Nat
  BY <1>0, Zenon DEF Data
<1>2. Data(p) # {} => Min(Data(p)) \in Data(p)
  BY <1>1, Least, Zenon
<1>3. ASSUME p <= Size
      PROVE  NextHole(p) \in {o \in p .. Size : o \notin data}
  <2>1. Size \in {o \in p .. Size : o \notin data}
    BY <1>3 DEF ModeOK
  <2>2. {o \in p .. Size : o \notin data} \subseteq Nat
    OBVIOUS
  <2> QED BY <2>1, <2>2, Least, Zenon DEF NextHole
<1>4. p \in data => p <= Size
  BY DEF ModeOK
<1> QED BY <1>2, <1>3, <1>4 DEF Data

\* What is left is no more than asked for; it is nothing only at the end.
LEMMA LeftBounds ==
  ASSUME ModeOK, NEW j, j.pos \in Nat, NEW n \in 0 .. Unit
  PROVE  Left(j, n) \in 0 .. n /\ (Left(j, n) = 0 <=> n = 0 \/ AtEnd(j))
<1> DEFINE m == copy_size - (j.pos - Start)
<1>1. copy_size \in Nat /\ Start \in Nat
  BY Places, Zenon
<1>2. m \in Int /\ (copy_size >= j.pos - Start <=> m >= 0) /\ (AtEnd(j) <=> m = 0)
  <2>1. \A c, p, s \in Nat :
          /\ c - (p - s) \in Int /\ (c >= p - s <=> c - (p - s) >= 0)
          /\ c = p - s <=> c - (p - s) = 0
    OBVIOUS
  <2> QED BY <1>1, <2>1, Zenon DEF AtEnd
<1>3. Left(j, n) = IF m >= 0 THEN Min({n, m}) ELSE n
  BY <1>2, Zenon DEF Left
<1> HIDE DEF m
<1>4. n \in Int /\ n >= 0
  OBVIOUS
<1>5. Min({n, m}) = IF n <= m THEN n ELSE m
  BY <1>2, <1>4, LessOfTwo, Zenon
<1>6. /\ Left(j, n) = IF m >= 0 THEN IF n <= m THEN n ELSE m ELSE n
      /\ m = 0 <=> AtEnd(j)
  BY <1>2, <1>3, <1>5, Zenon
<1> QED BY <1>2, <1>4, <1>6

\* What a write covers, in whole blocks.
LEMMA CeilNat ==
  ASSUME ModeOK, NEW n \in Nat
  PROVE  CeilBlock(n) \in Nat /\ CeilBlock(n) >= n
<1>1. out_block \in Nat /\ out_block > 0
  BY Places
<1> DEFINE q == (n + out_block - 1) \div out_block
<1>2. q \in Nat /\ out_block * q + out_block > n + out_block - 1
  BY <1>1
<1>3. CeilBlock(n) = q * out_block
  BY Zenon DEF CeilBlock
<1> HIDE DEF q
<1>4. q * out_block = out_block * q /\ out_block * q \in Nat
  BY <1>1, <1>2, SMTT(30)
<1> QED BY <1>1, <1>2, <1>3, <1>4

\* What g_opts.queue_depth becomes is no more than --qd.
LEMMA DepthBound ==
  ASSUME ModeOK
  PROVE  queue_depth \in Int /\ queue_depth <= Depth
<1>1. ASSUME NEW d \in Int, NEW t \in Nat, NEW s \in Nat
      PROVE  AtMostUnits(d, t, s) \in Int /\ AtMostUnits(d, t, s) <= d
  <2> DEFINE e == t \div Unit - s + 1
  <2>1. e \in Int
    OBVIOUS
  <2> HIDE DEF e
  <2>2. Min({d, e}) \in Int /\ Min({d, e}) <= d
    BY <2>1, LessOfTwo
  <2> QED BY <2>2 DEF AtMostUnits, e
<1>0. total_size \in Nat
  <2>1. mode.count \in Nat
    BY Zenon DEF ModeOK
  <2>2. mode.count * Unit \in Nat
    BY <2>1
  <2> QED BY <2>2, Zenon DEF total_size
<1> DEFINE din == AtMostUnits(Depth, total_size, Skip)
           dout == IF mode.outb THEN AtMostUnits(din, OutSize, Seek) ELSE din
<1>2. din \in Int /\ din <= Depth
  <2>1. Depth \in Int /\ Skip \in Nat
    OBVIOUS
  <2> QED BY <1>0, <1>1, <2>1, Zenon
<1> HIDE DEF din
<1>3. AtMostUnits(din, OutSize, Seek) \in Int /\ AtMostUnits(din, OutSize, Seek) <= din
  BY <1>1, <1>2, Zenon
<1>4. dout \in Int /\ dout <= Depth
  BY <1>2, <1>3
<1> HIDE DEF dout
<1>5. mode.count \in Int
  BY DEF ModeOK
<1>6. Min({dout, mode.count}) \in Int /\ Min({dout, mode.count}) <= dout
  BY <1>4, <1>5, LessOfTwo
<1>7. queue_depth = IF mode.count # 0 THEN Min({dout, mode.count}) ELSE dout
  BY Zenon DEF queue_depth, dout, din
<1> QED BY <1>4, <1>6, <1>7

-----------------------------------------------------------------------------
(* The state of the copy.  X is the dd_io a handler is called for: its I/O has   *)
(* completed, and it is neither counted nor in the queue until it rests or has   *)
(* submitted the next.                                                           *)

Flying == {"populate", "read", "write", "seek_data", "seek_hole"}
InAir(j) == {n \in Io : j.st[n] \in Flying}
Busy(j) == {n \in Io : j.st[n] \in {"populate", "read", "write"}}
Seeking(j) == {n \in Io : j.st[n] \in {"seek_data", "seek_hole"}}

\* SeekStopped, of a job.
Faulty(j) == mode.sparse /\ mode.inb /\ Stop(j)

\* --sparse is used without --count.
Plain == \A m \in Modes : m.sparse => m.count = 0

Counts(j, X) ==
  /\ j.outstanding >= Cardinality(InAir(j) \ X)
  /\ ~Faulty(j) => j.outstanding = Cardinality(InAir(j) \ X)

Apart(j, i, k) == j.off[i] + j.len[i] <= j.off[k] \/ j.off[k] + j.len[k] <= j.off[i]

\* Every range in work has been passed by the input position, and no two overlap.
Ranges(j, X) ==
  \A i \in Busy(j) \ X :
    /\ j.off[i] >= Start /\ j.off[i] + j.len[i] <= j.pos
    /\ \A k \in Busy(j) \ X : i # k => Apart(j, i, k)

\* With dd_exit called, nothing is under way.
Shut(j, X) == Plain /\ j.exits > 0 => Faulty(j) \/ InAir(j) \ X = {}

\* A search for a hole starts from data.
OnData(j, X) ==
  mode.sparse /\ mode.inb /\ (\E n \in Io \ X : j.st[n] = "seek_hole") => j.pos \in data

Core(j, X) ==
  /\ j \in Job /\ j.pos >= Start
  /\ Counts(j, X) /\ Ranges(j, X) /\ Shut(j, X) /\ OnData(j, X)

\* The queue has no dd_io twice.  A dd_io that seeks is at its head.
Queue(j, X) ==
  /\ j.seek_queue # <<>> => mode.sparse /\ mode.inb
  /\ \A a, b \in 1 .. Len(j.seek_queue) : j.seek_queue[a] = j.seek_queue[b] => a = b
  /\ \A a \in 1 .. Len(j.seek_queue) :
       /\ j.seek_queue[a] \notin X
       /\ j.st[j.seek_queue[a]] \in {"queued", "rest", "seek_data", "seek_hole"}
  /\ \A n \in Seeking(j) \ X : j.seek_queue # <<>> /\ j.seek_queue[1] = n

\* A dd_io that dd_run has not started yet is as it was at first, and until dd_run
\* is done, dd_exit has been called only for a reason that lasts.
Loop ==
  /\ \A n \in Io : n >= next => job.st[n] = "new" /\ job.len[n] = Unit
  /\ next = 0 => job.outstanding = 0
  /\ Plain /\ next < queue_depth /\ job.exits > 0
       => Stop(job) \/ AtEnd(job) \/ (mode.sparse /\ ~mode.inb)
  /\ ~(mode.sparse /\ mode.inb) /\ next > 0 => InAir(job) # {} \/ job.exits > 0

DdInv ==
  /\ ModeOK /\ next \in 0 .. Depth /\ intr \in BOOLEAN /\ lost \in BOOLEAN /\ astray = FALSE
  /\ Core(job, {}) /\ Queue(job, {}) /\ Loop

-----------------------------------------------------------------------------
(* The operations under way and the queue *)

\* The operations under way can be counted.
LEMMA AirCounted ==
  ASSUME Basics, NEW j
  PROVE  /\ Cardinality(InAir(j)) \in Nat
         /\ Cardinality(InAir(j)) = 0 <=> InAir(j) = {}
<1>1. InAir(j) \in SUBSET Io
  BY Zenon DEF InAir
<1> QED BY <1>1, Zenon DEF Basics

\* The dd_io is at the head of the queue, and no other one seeks.
AtHead(j, i) ==
  /\ j.seek_queue # <<>> /\ j.seek_queue[1] = i /\ mode.sparse /\ mode.inb
  /\ \A a, b \in 1 .. Len(j.seek_queue) : j.seek_queue[a] = j.seek_queue[b] => a = b
  /\ \A a \in 2 .. Len(j.seek_queue) :
       j.st[j.seek_queue[a]] \in {"queued", "rest", "seek_data", "seek_hole"}
  /\ Seeking(j) \subseteq {i}

\* The operation of a dd_io is no longer counted.
Back(j, d) ==
  /\ d \in Job /\ d.st = j.st /\ d.seek_queue = j.seek_queue /\ d.pos = j.pos
  /\ d.outstanding = j.outstanding - 1 /\ (j.error => d.error)
  /\ d.exits = j.exits /\ d.off = j.off /\ d.len = j.len

\* Done takes the operation that came back off the count.
LEMMA DoneBack ==
  ASSUME Basics, ModeOK, NEW j, Core(j, {}), NEW i \in InAir(j)
  PROVE  Back(j, Done(j)) /\ Done(j).error = j.error /\ Done(j).size = j.size
<1>1. j \in Job /\ j.outstanding \in Nat
  BY Zenon DEF Core, Job
<1>2. j.outstanding > 0
  <2>1. InAir(j) \ {} = InAir(j) /\ InAir(j) # {}
    BY Zenon
  <2> QED BY <1>1, <2>1, AirCounted DEF Core, Counts
<1> DEFINE n == j.outstanding - 1
<1>3. n \in Nat /\ Done(j) = [j EXCEPT !.outstanding = n]
  BY <1>1, <1>2 DEF Done
<1> HIDE DEF n
<1>4. LET d == [j EXCEPT !.outstanding = n]
      IN  /\ d \in Job /\ d.st = j.st /\ d.seek_queue = j.seek_queue /\ d.pos = j.pos
          /\ d.outstanding = n /\ d.error = j.error /\ d.size = j.size
          /\ d.exits = j.exits /\ d.off = j.off /\ d.len = j.len
  BY <1>1, <1>3, Zenon DEF Job
<1> QED BY <1>3, <1>4, Zenon DEF Back, n

\* It leaves the queue if it was one, and no other seek is under way.
LEMMA Dequeued ==
  ASSUME NEW j, j \in Job, Queue(j, {}), NEW i \in Seeking(j), NEW d,
         d.st = j.st, d.seek_queue = Tail(j.seek_queue)
  PROVE  /\ Queue(d, {i}) /\ Seeking(d) \subseteq {i}
         /\ AtHead(j, i) /\ Tail(j.seek_queue) \in Seq(Io)
<1> DEFINE q == j.seek_queue
<1>1. q \in Seq(Io) /\ q # <<>> /\ q[1] = i /\ Len(q) \in Nat /\ Len(q) > 0
  BY SMTT(30) DEF Queue, Job
<1>2. /\ Tail(q) \in Seq(Io) /\ Len(Tail(q)) = Len(q) - 1
      /\ \A a \in 1 .. Len(Tail(q)) : Tail(q)[a] = q[a + 1] /\ a + 1 \in 2 .. Len(q) /\ a + 1 \in 1 .. Len(q)
  BY <1>1
<1>3. Seeking(d) \subseteq {i} /\ Seeking(j) \subseteq {i}
  BY <1>1, Zenon DEF Queue, Seeking
<1>4. \A a \in 2 .. Len(q) : /\ q[a] # i /\ q[a] \in Io
                             /\ j.st[q[a]] \in {"queued", "rest", "seek_data", "seek_hole"}
  BY <1>1 DEF Queue
<1>5. \A a, b \in 1 .. Len(Tail(q)) : Tail(q)[a] = Tail(q)[b] => a = b
  <2> TAKE a, b \in 1 .. Len(Tail(q))
  <2> HAVE Tail(q)[a] = Tail(q)[b]
  <2>1. q[a + 1] = q[b + 1] /\ a + 1 \in 1 .. Len(q) /\ b + 1 \in 1 .. Len(q)
    BY <1>2, Zenon
  <2>2. a + 1 = b + 1
    BY <2>1, Zenon DEF Queue
  <2> QED BY <1>2, <2>2
<1>6. Queue(d, {i})
  BY <1>1, <1>2, <1>3, <1>4, <1>5, SMTT(30) DEF Queue
<1>7. AtHead(j, i)
  BY <1>1, <1>3, <1>4, Zenon DEF AtHead, Queue, Seeking
<1> QED BY <1>2, <1>3, <1>6, <1>7, Zenon

\* The dd_io that seeks is at the head of the queue.
LEMMA Seeker ==
  ASSUME NEW j, j \in Job, Queue(j, {}), NEW i \in Seeking(j)
  PROVE  AtHead(j, i) /\ Tail(j.seek_queue) \in Seq(Io)
<1> DEFINE d == [st |-> j.st, seek_queue |-> Tail(j.seek_queue)]
<1>1. d.st = j.st /\ d.seek_queue = Tail(j.seek_queue)
  BY Zenon
<1> HIDE DEF d
<1> QED BY <1>1, Dequeued, Zenon

\* The queue gets shorter and nothing else changes.
Shorter(j, d) ==
  /\ d \in Job /\ d.st = j.st /\ d.seek_queue = Tail(j.seek_queue) /\ d.pos = j.pos
  /\ d.outstanding = j.outstanding /\ d.error = j.error /\ d.exits = j.exits
  /\ d.off = j.off /\ d.len = j.len

\* Dequeue changes the queue alone.
LEMMA DequeueShorter ==
  ASSUME NEW j, j \in Job, Tail(j.seek_queue) \in Seq(Io)
  PROVE  Shorter(j, Dequeue(j))
<1> DEFINE t == Tail(j.seek_queue)
<1> HIDE DEF t
<1>1. LET d == [j EXCEPT !.seek_queue = t]
      IN  /\ d \in Job /\ d.st = j.st /\ d.seek_queue = t /\ d.pos = j.pos
          /\ d.outstanding = j.outstanding /\ d.error = j.error /\ d.exits = j.exits
          /\ d.off = j.off /\ d.len = j.len
  BY Zenon DEF Job, t
<1>2. Dequeue(j) = [j EXCEPT !.seek_queue = t]
  BY Zenon DEF Dequeue, t
<1> QED BY <1>1, <1>2, Zenon DEF Shorter, t

\* The same, with no dd_io in the hands of a handler.
LEMMA CoreShorterAll ==
  ASSUME ModeOK, NEW j, Core(j, {}), NEW d, Shorter(j, d)
  PROVE  Core(d, {}) /\ InAir(d) = InAir(j)
<1>1. /\ d \in Job /\ d.st = j.st /\ d.pos = j.pos /\ d.outstanding = j.outstanding
      /\ d.error = j.error /\ d.exits = j.exits /\ d.off = j.off /\ d.len = j.len
  BY Zenon DEF Shorter
<1>2. InAir(d) = InAir(j) /\ Busy(d) = Busy(j)
  BY <1>1, Zenon DEF InAir, Busy
<1>3. Faulty(d) = Faulty(j)
  BY <1>1, Zenon DEF Faulty, Stop
<1>4. Counts(d, {}) /\ Shut(d, {})
  BY <1>1, <1>2, <1>3, Zenon DEF Core, Counts, Shut
<1>5. Ranges(d, {}) /\ OnData(d, {})
  BY <1>1, <1>2, Zenon DEF Core, Ranges, Apart, OnData
<1> QED BY <1>1, <1>2, <1>4, <1>5, Zenon DEF Core

-----------------------------------------------------------------------------
(* Whole blocks *)

\* A range that ends before the start of a block still does when it is rounded up
\* to whole blocks.
LEMMA RoundedApart ==
  ASSUME NEW n \in Nat \ {0}, NEW a \in Nat, NEW b \in Nat, NEW l \in Nat,
         a % n = 0, b % n = 0, a + l <= b
  PROVE  a + ((l + n - 1) \div n) * n <= b
<1> DEFINE x == a \div n
           y == b \div n
           q == (l + n - 1) \div n
<1>1. x \in Nat /\ y \in Nat /\ q \in Nat
  OBVIOUS
<1>2. a = n * x /\ b = n * y
  OBVIOUS
<1>3. n * q <= l + n - 1
  OBVIOUS
<1> HIDE DEF x, y, q
<1>4. q * n = n * q /\ n * (x + q) = n * x + n * q
  BY <1>1
<1>5. n * x + n * q <= n * y + n - 1
  <2> DEFINE nx == n * x
             ny == n * y
             nq == n * q
  <2>1. nx \in Int /\ ny \in Int /\ nq \in Int
    BY <1>1
  <2>2. nx + l <= ny /\ nq <= l + n - 1
    BY <1>2, <1>3, Zenon
  <2> HIDE DEF nx, ny, nq
  <2>3. nx + nq <= ny + n - 1
    BY <2>1, <2>2
  <2> QED BY <2>3, Zenon DEF nx, ny, nq
<1>6. x + q <= y
  <2>1. SUFFICES ASSUME x + q >= y + 1 PROVE FALSE
    BY <1>1
  <2>2. PICK z \in Nat : x + q = y + 1 + z
    <3>1. x + q - y - 1 \in Nat /\ x + q = y + 1 + (x + q - y - 1)
      BY <1>1, <2>1
    <3> QED BY <3>1, Zenon
  <2>3. n * (x + q) = n * y + n + n * z /\ n * z >= 0
    BY <1>1, <2>2
  <2> QED BY <1>1, <1>4, <1>5, <2>3
<1>7. PICK w \in Nat : y = x + q + w
  <2>1. y - x - q \in Nat /\ y = x + q + (y - x - q)
    BY <1>1, <1>6
  <2> QED BY <2>1, Zenon
<1>8. n * y = n * x + n * q + n * w /\ n * w >= 0
  BY <1>1, <1>7
<1>9. n * x + n * q <= n * y
  BY <1>1, <1>8
<1> QED BY <1>2, <1>4, <1>9, Zenon DEF q

\* Ranges of the input that are apart are so in whole blocks of the output.
LEMMA RangesApart ==
  ASSUME DdInv, NEW i \in Busy(job), NEW k \in Busy(job), OutTakes(job, i), OutTakes(job, k),
         job.off[i] + job.len[i] <= job.off[k]
  PROVE  WriteOffset(job, i) + CeilBlock(job.len[i]) <= WriteOffset(job, k)
<1> DEFINE a == WriteOffset(job, i)
           b == WriteOffset(job, k)
           l == job.len[i]
<1>1. /\ ModeOK /\ job \in Job /\ Ranges(job, {}) /\ i \in Io /\ k \in Io
  BY Zenon DEF DdInv, Core, Busy
<1>2. /\ job.off[i] \in Nat /\ job.off[k] \in Nat /\ l \in Nat
      /\ job.off[i] >= Start /\ job.off[k] >= Start
  BY <1>1, SMTT(30) DEF Job, Ranges
<1>3. Start \in Nat /\ OutStart \in Nat /\ out_block \in Nat \ {0}
  BY <1>1, Places, Zenon
<1>4. a \in Nat /\ b \in Nat /\ a + l <= b
  BY <1>2, <1>3, SMTT(30) DEF WriteOffset
<1> HIDE DEF a, b, l
<1>5. a % out_block = 0 /\ b % out_block = 0
  <2>1. CASE mode.outb
    BY <2>1, Zenon DEF OutTakes, BdevTakes, a, b
  <2>2. CASE ~mode.outb
    BY <1>4, <2>2, SMTT(30) DEF out_block
  <2> QED BY <2>1, <2>2, Zenon
<1>6. a + CeilBlock(l) <= b
  BY <1>2, <1>3, <1>4, <1>5, RoundedApart, Zenon DEF CeilBlock
<1> QED BY <1>6, Zenon DEF a, b, l

-----------------------------------------------------------------------------
(* What is copied where *)

\* The blocks of the input that dd_io i works on, and the rest of its last block
\* of the output.
Part(j, i) == j.off[i] .. j.off[i] + j.len[i] - 1
Pad(j, i) == j.len[i] .. CeilBlock(j.len[i]) - 1

\* Where block x of the input goes, and the blocks of the output that get one.
Place(x) == OutStart + x - Start
InPlace(o, x) == x < Size /\ o[Place(x)] = Source(x)
Meant(y) == y \in Region /\ (mode.sparse => Start + y - OutStart \in data)

\* A search that found no more data has brought an output file up to its size.
Nothing(j) ==
  mode.sparse /\ Data(j.pos) = {} /\ (~mode.outb => j.size >= OutStart + copy_size)

\* The output takes what is written or populated, the input has what is read, and
\* --sparse reads data only.
Sound(j, i) ==
  /\ j.st[i] # "read" \/ j.len[i] % out_block # 0 => OutTakes(j, i)
  /\ (j.st[i] = "read" /\ mode.inb) \/ j.st[i] = "write" => j.off[i] + j.len[i] <= Size
  /\ mode.sparse => Part(j, i) \subseteq data

\* Reading stays in the region; a dd_io reads whole units up to its end; and dd_exit
\* has been called only at its end, without an error or interrupt.
Plan(j) ==
  /\ j.pos - Start <= copy_size
  /\ \A i \in Busy(j) : Sound(j, i)
  /\ ~mode.sparse /\ ~Stop(j) => \A i \in Io : j.len[i] = Unit \/ AtEnd(j)
  /\ j.exits > 0 /\ ~Stop(j) => AtEnd(j) \/ Nothing(j)

\* Every block of the input before the position is in work, a hole that is skipped,
\* or in its place in output o.
Covered(j, o) ==
  \A x \in Start .. j.pos - 1 :
    \/ \E i \in Busy(j) : x \in Part(j, i)
    \/ mode.sparse /\ x \notin data
    \/ InPlace(o, x)

\* An output file has grown up to the position, or will.
Grown(j) ==
  \/ j.pos = Start
  \/ mode.sparse /\ j.pos \in data
  \/ j.size >= Place(j.pos)
  \/ \E i \in Busy(j) : j.off[i] + j.len[i] = j.pos
  \/ \E i \in Io : j.st[i] = "seek_hole"

\* What buffers b and output o hold, if no bdev I/O has failed unseen.
Held(j, b, o) ==
  /\ \A i \in Io : j.st[i] \in {"read", "write"}
       => \A k \in Pad(j, i) : b[i][k] = o[WriteOffset(j, i) + k]
  /\ \A i \in Io : j.st[i] = "write"
       => \A k \in 0 .. j.len[i] - 1 : b[i][k] = Source(j.off[i] + k)
  /\ \A y \in Blocks : ~Meant(y) => o[y] = 0
  /\ ~Stop(j) => Covered(j, o) /\ (~mode.outb => Grown(j))

CopyInv == Plan(job) /\ buf = [i \in Io |-> buf[i]] /\ (~lost => Held(job, buf, out))

-----------------------------------------------------------------------------
(* Handlers that take the next range *)

\* The dd_ios that are not at work or seeking a hole.
Idle == {"rest", "queued", "seek_data"}

\* Another dd_io is as it was.
Alike(j, n, k) ==
  /\ k.off[n] = j.off[n] /\ k.len[n] = j.len[n]
  /\ k.st[n] = j.st[n] \/ (k.st[n] \in Idle /\ j.st[n] \in Idle)

\* dd_io i has taken a range; what it passed over are holes.
Fresh(j, i, k) ==
  /\ k.st[i] \in {"populate", "read"}
  /\ k.st[i] = "read" => k.len[i] % out_block = 0 /\ InTakes(k, i)
  /\ k.st[i] = "populate" => OutTakes(k, i)
  /\ mode.sparse => Part(k, i) \subseteq data
  /\ k.off[i] >= j.pos /\ k.off[i] + k.len[i] = k.pos
  /\ \A x \in j.pos .. k.off[i] - 1 : mode.sparse /\ x \notin data

\* What such a handler, called for dd_io i, makes of job j.
Took(j, i, k) ==
  /\ \A n \in Io \ {i} : Alike(j, n, k)
  /\ k.size >= j.size /\ (j.error => k.error)
  /\ k.pos >= j.pos /\ k.pos - Start <= copy_size
  /\ k.st[i] # "write"
  /\ i \in Busy(k) => Fresh(j, i, k)
  /\ i \notin Busy(k) /\ ~Stop(k) =>
       /\ k.pos = j.pos \/ k.st[i] = "seek_hole" \/ (mode.sparse /\ k.pos \in data /\ k.exits = 0)
       /\ \A x \in j.pos .. k.pos - 1 : mode.sparse /\ x \notin data
  /\ ~mode.sparse /\ ~Stop(k) => k.len[i] = Unit \/ AtEnd(k)
  /\ ~Stop(k) /\ k.exits # j.exits => AtEnd(k) \/ Nothing(k)

\* The job, but for the states, the count, the errors and the exits.
Like(j, k) == k \in Job /\ k.pos = j.pos /\ k.size = j.size /\ k.off = j.off /\ k.len = j.len

\* A dd_io comes to rest, after an error or not, and the last one exits.
LEMMA RestLike ==
  ASSUME NEW j, j \in Job, NEW i \in Io
  PROVE  LET k == ExitIfIdle(Rest(j, i))
             e == ExitIfIdle([Rest(j, i) EXCEPT !.error = TRUE])
         IN  /\ Like(j, k) /\ k.st = [j.st EXCEPT ![i] = "rest"] /\ k.error = j.error
             /\ Like(j, e) /\ e.st = [j.st EXCEPT ![i] = "rest"] /\ e.error
             /\ k.seek_queue = j.seek_queue /\ e.seek_queue = j.seek_queue
<1> DEFINE r == Rest(j, i)
           s == [r EXCEPT !.error = TRUE]
<1>1. /\ r \in Job /\ Like(j, r) /\ r.st = [j.st EXCEPT ![i] = "rest"] /\ r.error = j.error
      /\ r.seek_queue = j.seek_queue
  BY Zenon DEF Rest, Job, States, Like
<1> HIDE DEF r
<1>2. /\ s \in Job /\ Like(j, s) /\ s.st = r.st /\ s.error /\ s.seek_queue = r.seek_queue
  BY <1>1, Zenon DEF Job, Like
<1> HIDE DEF s
<1>3. ASSUME NEW q, q \in Job, Like(j, q)
      PROVE  LET k == ExitIfIdle(q)
             IN  /\ Like(j, k) /\ k.st = q.st /\ k.error = q.error /\ k.seek_queue = q.seek_queue
  <2> DEFINE n == q.exits + 1
             k == [q EXCEPT !.exits = n]
  <2>1. n \in Nat
    BY <1>3, SMTT(30) DEF Job
  <2>2. ExitIfIdle(q) = q \/ ExitIfIdle(q) = k
    BY Zenon DEF ExitIfIdle, dd_exit
  <2> HIDE DEF n
  <2>3. Like(j, k) /\ k.st = q.st /\ k.error = q.error /\ k.seek_queue = q.seek_queue
    BY <1>3, <2>1, Zenon DEF Job, Like
  <2> HIDE DEF k
  <2> QED BY <1>3, <2>2, <2>3, Zenon
<1>4. LET k == ExitIfIdle(r)
      IN  /\ Like(j, k) /\ k.st = r.st /\ k.error = r.error /\ k.seek_queue = r.seek_queue
  BY <1>1, <1>3, Zenon
<1>5. LET k == ExitIfIdle(s)
      IN  /\ Like(j, k) /\ k.st = s.st /\ k.error = s.error /\ k.seek_queue = s.seek_queue
  BY <1>2, <1>3, Zenon
<1> QED BY <1>1, <1>2, <1>4, <1>5, Zenon DEF r, s

\* A search in a file fails: it is an error only if nothing is outstanding.
LEMMA FailLike ==
  ASSUME NEW j, j \in Job, NEW i \in Io
  PROVE  LET k == ExitIfIdle([Rest(j, i) EXCEPT !.error = @ \/ j.outstanding = 0])
         IN  /\ Like(j, k) /\ k.st = [j.st EXCEPT ![i] = "rest"] /\ (j.error => k.error)
             /\ k.seek_queue = j.seek_queue /\ (k.error \/ k.exits = j.exits)
<1> DEFINE r == Rest(j, i)
           k == ExitIfIdle([r EXCEPT !.error = @ \/ j.outstanding = 0])
           e == ExitIfIdle([r EXCEPT !.error = TRUE])
<1>1. /\ r \in Job /\ Like(j, r) /\ r.st = [j.st EXCEPT ![i] = "rest"] /\ r.error = j.error
      /\ r.seek_queue = j.seek_queue /\ r.outstanding = j.outstanding /\ r.exits = j.exits
  BY Zenon DEF Rest, Job, States, Like
<1>2. CASE j.outstanding = 0
  <2>1. Like(j, e) /\ e.st = [j.st EXCEPT ![i] = "rest"] /\ e.error /\ e.seek_queue = j.seek_queue
    BY RestLike, Zenon
  <2> HIDE DEF r
  <2>2. [r EXCEPT !.error = @ \/ j.outstanding = 0] = [r EXCEPT !.error = TRUE]
    BY <1>2, Zenon
  <2>3. k = e
    BY <2>2, Zenon
  <2> HIDE DEF k, e
  <2>4. Like(j, k) /\ k.st = [j.st EXCEPT ![i] = "rest"] /\ k.error /\ k.seek_queue = j.seek_queue
    BY <2>1, <2>3, Zenon
  <2> QED BY <2>4, Zenon DEF k, r
<1>3. CASE j.outstanding # 0
  <2> HIDE DEF r
  <2>1. r.error \in BOOLEAN
    BY <1>1, Zenon DEF Job
  <2>2. (r.error \/ j.outstanding = 0) = r.error
    BY <1>3, <2>1, Zenon
  <2>3. [r EXCEPT !.error = @ \/ j.outstanding = 0] = [r EXCEPT !.error = r.error]
    BY <2>2, Zenon
  <2>4. [r EXCEPT !.error = r.error] = r
    BY <1>1 DEF Job
  <2>5. k = ExitIfIdle(r)
    BY <2>3, <2>4, Zenon
  <2>6. k = r
    BY <1>1, <1>3, <2>5, Zenon DEF ExitIfIdle
  <2> HIDE DEF k
  <2>7. /\ Like(j, k) /\ k.st = [j.st EXCEPT ![i] = "rest"] /\ (j.error => k.error)
        /\ k.seek_queue = j.seek_queue /\ k.exits = j.exits
    BY <1>1, <2>6, Zenon
  <2> QED BY <2>7, Zenon DEF k, r
<1> QED BY <1>2, <1>3, Zenon

\* An operation is under way, or there is an error.
Sent(j, i, op, ok, k) ==
  /\ Like(j, k) /\ (j.error => k.error) /\ k.seek_queue = j.seek_queue
  /\ \/ ok /\ k.st = [j.st EXCEPT ![i] = op] /\ k.exits = j.exits
     \/ k.st = [j.st EXCEPT ![i] = "rest"] /\ k.error

\* Submit.
LEMMA SubmitLike ==
  ASSUME NEW j, j \in Job, NEW i \in Io, NEW op \in Flying, NEW ok \in BOOLEAN
  PROVE  Sent(j, i, op, ok, Submit(j, i, op, ok))
<1>1. CASE ok
  <2> DEFINE n == j.outstanding + 1
             k == [j EXCEPT !.outstanding = n, !.st[i] = op]
  <2>1. n \in Nat /\ op \in States
    BY SMTT(30) DEF Job, Flying, States
  <2>2. Submit(j, i, op, ok) = k
    BY <1>1, Zenon DEF Submit
  <2> HIDE DEF n
  <2>3. /\ Like(j, k) /\ k.st = [j.st EXCEPT ![i] = op] /\ k.exits = j.exits
        /\ k.error = j.error /\ k.seek_queue = j.seek_queue
    BY <2>1, Zenon DEF Job, Like
  <2> HIDE DEF k
  <2> QED BY <1>1, <2>2, <2>3, Zenon DEF Sent
<1>2. CASE ~ok
  BY <1>2, RestLike, Zenon DEF Submit, Sent
<1> QED BY <1>1, <1>2, Zenon

\* The rest of the region bounds what is left, which is all that was asked for or
\* reaches its end.
LEMMA LeftEnds ==
  ASSUME ModeOK, NEW j, j.pos \in Nat, NEW n \in 0 .. Unit, j.pos - Start <= copy_size
  PROVE  /\ j.pos + Left(j, n) - Start <= copy_size
         /\ Left(j, n) = n \/ copy_size = j.pos + Left(j, n) - Start
<1>1. copy_size \in Nat /\ Start \in Nat
  BY Places, Zenon
<1>2. copy_size - (j.pos - Start) \in Int
  BY <1>1
<1>3. Min({n, copy_size - (j.pos - Start)})
        = IF n <= copy_size - (j.pos - Start) THEN n ELSE copy_size - (j.pos - Start)
  BY <1>2, LessOfTwo
<1>4. Left(j, n) = IF n <= copy_size - (j.pos - Start) THEN n ELSE copy_size - (j.pos - Start)
  BY <1>1, <1>3, Zenon DEF Left
<1> QED BY <1>1, <1>4

\* dd_target_populate_buffer.
LEMMA PopulateTakes ==
  ASSUME ModeOK, NEW j, j \in Job, NEW i \in Io, NEW ok \in BOOLEAN,
         j.pos - Start <= copy_size,
         ~mode.sparse /\ ~Stop(j) => j.len[i] = Unit \/ AtEnd(j),
         mode.sparse => /\ j.len[i] > 0 /\ ~AtEnd(j)
                        /\ \A x \in j.pos .. j.pos + j.len[i] - 1 : x \in data
  PROVE  LET k == dd_target_populate_buffer(j, i, ok)
         IN  Took(j, i, k) /\ k \in Job /\ k.seek_queue = j.seek_queue
             /\ (mode.sparse => i \in Busy(k) \/ Stop(k))
<1> DEFINE L == Left(j, j.len[i])
           k == [j EXCEPT !.off[i] = j.pos, !.len[i] = L]
           m == [k EXCEPT !.pos = @ + k.len[i]]
           r == dd_target_populate_buffer(j, i, ok)
<1>1. /\ j.pos \in Nat /\ j.len \in [Io -> 0 .. Unit] /\ j.off \in [Io -> Nat]
      /\ j.len[i] \in 0 .. Unit /\ j.size \in Nat /\ j.exits \in Nat /\ j.st \in [Io -> States]
      /\ j.error \in BOOLEAN
  BY Zenon DEF Job
<1>2. /\ L \in 0 .. j.len[i] /\ (L = 0 <=> j.len[i] = 0 \/ AtEnd(j)) /\ L \in 0 .. Unit
      /\ j.pos + L - Start <= copy_size
      /\ L = j.len[i] \/ copy_size = j.pos + L - Start
  <2>1. L \in 0 .. j.len[i] /\ (L = 0 <=> j.len[i] = 0 \/ AtEnd(j))
    BY <1>1, LeftBounds, Zenon
  <2>2. j.pos + L - Start <= copy_size /\ (L = j.len[i] \/ copy_size = j.pos + L - Start)
    BY <1>1, LeftEnds, Zenon
  <2> QED BY <1>1, <2>1, <2>2
<1> HIDE DEF L
<1>3. /\ k \in Job /\ k.st = j.st /\ k.pos = j.pos /\ k.error = j.error /\ k.exits = j.exits
      /\ k.size = j.size /\ k.seek_queue = j.seek_queue
      /\ k.off = [j.off EXCEPT ![i] = j.pos] /\ k.len = [j.len EXCEPT ![i] = L]
  BY <1>1, <1>2, Zenon DEF Job
<1>4. k.len[i] = L /\ k.off[i] = j.pos /\ \A n \in Io \ {i} : k.off[n] = j.off[n] /\ k.len[n] = j.len[n]
  BY <1>1, <1>3, Zenon
<1>5. /\ m \in Job /\ m.st = j.st /\ m.pos = j.pos + L /\ m.error = j.error /\ m.exits = j.exits
      /\ m.size = j.size /\ m.seek_queue = j.seek_queue /\ m.off = k.off /\ m.len = k.len
  <2> DEFINE p == j.pos + L
  <2>1. p \in Nat
    BY <1>1, <1>2
  <2>2. m = [k EXCEPT !.pos = p]
    BY <1>3, <1>4, Zenon
  <2> HIDE DEF p, k, m
  <2>3. /\ m \in Job /\ m.st = j.st /\ m.pos = p /\ m.error = j.error /\ m.exits = j.exits
        /\ m.size = j.size /\ m.seek_queue = j.seek_queue /\ m.off = k.off /\ m.len = k.len
    BY <1>3, <2>1, <2>2, Zenon DEF Job
  <2> QED BY <2>3, Zenon DEF p
<1>6. r = IF k.len[i] = 0 \/ Stop(k) THEN ExitIfIdle(Rest(k, i))
          ELSE IF k.len[i] % out_block = 0 THEN dd_target_read(m, i, ok)
          ELSE Submit(m, i, "populate", ok /\ OutTakes(m, i))
  BY Zenon DEF dd_target_populate_buffer, L
<1> HIDE DEF k, m, r
<1>7. Start \in Nat /\ copy_size \in Nat
  BY Places, Zenon
<1>8. CASE k.len[i] = 0 \/ Stop(k)
  <2>1. r = ExitIfIdle(Rest(k, i))
    BY <1>6, <1>8, Zenon
  <2>2. Like(k, r) /\ r.st = [k.st EXCEPT ![i] = "rest"] /\ r.error = k.error /\ r.seek_queue = k.seek_queue
    BY <1>3, <2>1, RestLike, Zenon
  <2>3. /\ r \in Job /\ r.pos = j.pos /\ r.size = j.size /\ r.error = j.error
        /\ r.seek_queue = j.seek_queue /\ r.len[i] = L
        /\ \A n \in Io \ {i} : r.off[n] = j.off[n] /\ r.len[n] = j.len[n]
    BY <1>3, <1>4, <2>2, Zenon DEF Like
  <2>4. \A n \in Io : r.st[n] = IF n = i THEN "rest" ELSE j.st[n]
    BY <1>1, <1>3, <2>2, Zenon
  <2>5. Stop(r) = Stop(j) /\ Stop(k) = Stop(j) /\ AtEnd(r) = AtEnd(j) /\ i \notin Busy(r)
    BY <1>3, <2>3, <2>4, Zenon DEF Stop, AtEnd, Busy
  <2>6. Stop(r) \/ (AtEnd(r) /\ ~mode.sparse)
    BY <1>2, <1>4, <1>8, <2>5
  <2>7. Took(j, i, r)
    BY <1>1, <1>7, <2>3, <2>4, <2>5, <2>6 DEF Took, Alike
  <2> QED BY <2>3, <2>6, <2>7, Zenon DEF r
<1>9. CASE ~(k.len[i] = 0 \/ Stop(k))
  <2>1. ASSUME NEW op \in {"populate", "read"}, NEW t \in BOOLEAN, r = Submit(m, i, op, t),
               t => IF op = "read" THEN L % out_block = 0 /\ InTakes(m, i) ELSE OutTakes(m, i)
        PROVE  Took(j, i, r) /\ r \in Job /\ r.seek_queue = j.seek_queue
               /\ (mode.sparse => i \in Busy(r) \/ Stop(r))
    <3>1. /\ Like(m, r) /\ (m.error => r.error) /\ r.seek_queue = m.seek_queue
          /\ \/ t /\ r.st = [m.st EXCEPT ![i] = op] /\ r.exits = m.exits
             \/ r.st = [m.st EXCEPT ![i] = "rest"] /\ r.error
      <4>1. op \in Flying
        BY Zenon DEF Flying
      <4>2. Sent(m, i, op, t, Submit(m, i, op, t))
        BY <1>5, <4>1, SubmitLike, Zenon
      <4> QED BY <2>1, <4>2, Zenon DEF Sent
    <3>2. /\ r \in Job /\ r.pos = j.pos + L /\ r.size = j.size /\ (j.error => r.error)
          /\ r.off = m.off /\ r.len = m.len
          /\ r.seek_queue = j.seek_queue /\ r.len[i] = L /\ r.off[i] = j.pos
          /\ \A n \in Io \ {i} : r.off[n] = j.off[n] /\ r.len[n] = j.len[n]
      BY <1>4, <1>5, <3>1 DEF Like
    <3>3. CASE t /\ r.st = [m.st EXCEPT ![i] = op] /\ r.exits = m.exits
      <4>1. \A n \in Io : r.st[n] = IF n = i THEN op ELSE j.st[n]
        BY <1>1, <1>5, <3>3, Zenon
      <4>2. InTakes(r, i) = InTakes(m, i) /\ OutTakes(r, i) = OutTakes(m, i)
        BY <3>2, Zenon DEF InTakes, OutTakes, WriteOffset
      <4>3. mode.sparse => Part(r, i) \subseteq data
        BY <1>1, <1>2, <3>2 DEF Part
      <4>4. Fresh(j, i, r)
        <5>1. /\ op = "read" => L % out_block = 0 /\ InTakes(r, i)
              /\ op = "populate" => OutTakes(r, i)
          BY <2>1, <3>3, <4>2, Zenon
        <5>2. /\ r.off[i] >= j.pos /\ r.off[i] + r.len[i] = r.pos
              /\ \A x \in j.pos .. r.off[i] - 1 : FALSE
          BY <1>1, <1>2, <3>2
        <5> QED BY <3>2, <4>1, <4>3, <5>1, <5>2, Zenon DEF Fresh
      <4>5. ~mode.sparse => r.len[i] = Unit \/ AtEnd(r)
        <5>1. ~Stop(j)
          BY <1>3, <1>9, Zenon DEF Stop
        <5>2. L # 0 /\ ~AtEnd(j)
          BY <1>2, <1>4, <1>9, Zenon
        <5>3. L = j.len[i] \/ AtEnd(r)
          BY <1>1, <1>2, <1>7, <3>2 DEF AtEnd
        <5> QED BY <3>2, <5>1, <5>2, <5>3, Zenon
      <4>6. i \in Busy(r)
        BY <4>1, Zenon DEF Busy
      <4>7. r.pos >= j.pos /\ r.size >= j.size /\ r.exits = j.exits /\ r.pos - Start <= copy_size
        BY <1>1, <1>2, <1>5, <1>7, <3>2, <3>3
      <4> QED BY <3>2, <4>1, <4>4, <4>5, <4>6, <4>7, Zenon DEF Took, Alike
    <3>4. CASE r.st = [m.st EXCEPT ![i] = "rest"] /\ r.error
      <4>1. \A n \in Io : r.st[n] = IF n = i THEN "rest" ELSE j.st[n]
        BY <1>1, <1>5, <3>4, Zenon
      <4>2. i \notin Busy(r) /\ Stop(r)
        BY <3>4, <4>1, Zenon DEF Busy, Stop
      <4>3. r.pos >= j.pos /\ r.size >= j.size /\ r.pos - Start <= copy_size
        BY <1>1, <1>2, <1>5, <1>7, <3>2
      <4> QED BY <3>2, <4>1, <4>2, <4>3, Zenon DEF Took, Alike
    <3> QED BY <3>1, <3>3, <3>4, Zenon
  <2>2. CASE k.len[i] % out_block = 0
    <3> DEFINE t == (ok /\ InTakes(m, i))
    <3>1. ~Stop(m)
      BY <1>3, <1>5, <1>9, Zenon DEF Stop
    <3>2. r = Submit(m, i, "read", t) /\ t \in BOOLEAN
      BY <1>6, <1>9, <2>2, <3>1, Zenon DEF dd_target_read
    <3> QED BY <1>4, <2>1, <2>2, <3>2, Zenon DEF r
  <2>3. CASE k.len[i] % out_block # 0
    <3> DEFINE t == (ok /\ OutTakes(m, i))
    <3>1. r = Submit(m, i, "populate", t) /\ t \in BOOLEAN
      BY <1>6, <1>9, <2>3, Zenon
    <3> QED BY <2>1, <3>1, Zenon DEF r
  <2> QED BY <2>2, <2>3, Zenon
<1> QED BY <1>8, <1>9, Zenon

\* The search for data passes over holes, and the search for a hole over data.
LEMMA SearchEnds ==
  ASSUME Basics, ModeOK, NEW p \in Nat
  PROVE  /\ Data(p) # {} => \A x \in p .. Min(Data(p)) - 1 : x \notin data
         /\ p \in data => \A x \in p .. NextHole(p) - 1 : x \in data
<1>0. \A o \in data : o \in Nat /\ o < Size
  BY DEF ModeOK
<1>1. ASSUME Data(p) # {}, NEW x \in p .. Min(Data(p)) - 1
      PROVE  x \notin data
  <2>1. Min(Data(p)) \in data /\ \A y \in Data(p) : Min(Data(p)) <= y
    <3>1. Data(p) \subseteq Nat
      BY <1>0, Zenon DEF Data
    <3>2. Min(Data(p)) \in Data(p) /\ \A y \in Data(p) : Min(Data(p)) <= y
      BY <1>1, <3>1, Least, Zenon
    <3> QED BY <3>2, Zenon DEF Data
  <2> DEFINE d == Min(Data(p))
  <2>2. d \in Nat /\ x \in Nat /\ x >= p /\ x < d
    BY <1>0, <1>1, <2>1
  <2> HIDE DEF d
  <2>3. x \notin Data(p)
    BY <2>1, <2>2 DEF d
  <2> QED BY <2>2, <2>3, Zenon DEF Data
<1>2. ASSUME p \in data, NEW x \in p .. NextHole(p) - 1
      PROVE  x \in data
  <2> DEFINE H == {o \in p .. Size : o \notin data}
             h == NextHole(p)
  <2>1. Size \in H /\ H \subseteq Nat
    BY <1>0, <1>2
  <2>2. h \in H /\ \A y \in H : h <= y
    <3> HIDE DEF H
    <3>1. Min(H) \in H /\ \A y \in H : Min(H) <= y
      BY <2>1, Least, Zenon
    <3> QED BY <3>1, Zenon DEF NextHole, H
  <2>3. h \in p .. Size
    BY <2>2, Zenon
  <2>4. x \in p .. Size /\ x < h /\ h \in Nat
    BY <1>2, <2>3
  <2> HIDE DEF h
  <2>5. x \notin H
    <3> HIDE DEF H
    <3> QED BY <2>2, <2>4
  <2> QED BY <2>4, <2>5, Zenon
<1> QED BY <1>1, <1>2, Zenon

\* The same after a search that found data at p.
LEMMA SearchTakes ==
  ASSUME Basics, ModeOK, Plain, mode.sparse, NEW j, j \in Job, NEW i \in Io, NEW ok \in BOOLEAN,
         NEW p \in data, p >= j.pos, \A x \in j.pos .. p - 1 : x \notin data
  PROVE  LET k == dd_target_populate_buffer(FromTo(j, i, p, NextHole(p)), i, ok)
         IN  /\ Took(j, i, k) /\ k \in Job /\ k.seek_queue = j.seek_queue
             /\ i \in Busy(k) \/ Stop(k)
<1> DEFINE h == NextHole(p)
           l == Min({Unit, h - p})
           m == FromTo(j, i, p, h)
           k == dd_target_populate_buffer(m, i, ok)
<1>1. p \in Nat /\ p < Size
  BY DEF ModeOK
<1>2. h \in Nat /\ h > p /\ h <= Size
  <2>1. p <= Size
    BY <1>1
  <2>2. h \in p .. Size /\ h > p
    BY <1>1, <2>1, Searches, Zenon
  <2> HIDE DEF h
  <2> QED BY <1>1, <2>2
<1>3. \A x \in p .. h - 1 : x \in data
  BY <1>1, SearchEnds, Zenon
<1> HIDE DEF h
<1>4. l \in 1 .. Unit /\ p + l <= h
  <2>1. Unit \in Int /\ Unit > 0 /\ h - p \in Int /\ h - p > 0
    BY <1>1, <1>2
  <2>2. l = IF Unit <= h - p THEN Unit ELSE h - p
    BY <2>1, LessOfTwo, Zenon
  <2> HIDE DEF l
  <2> QED BY <1>1, <1>2, <2>1, <2>2
<1> HIDE DEF l
<1>5. /\ j.len \in [Io -> 0 .. Unit] /\ j.pos \in Nat /\ l \in 0 .. Unit
      /\ Start \in Nat /\ copy_size = Size - Start
  <2>1. mode.count = 0
    BY Zenon DEF Plain, ModeOK
  <2>2. j.len \in [Io -> 0 .. Unit] /\ j.pos \in Nat
    BY Zenon DEF Job
  <2> QED BY <1>4, <2>1, <2>2, Places DEF copy_size
<1>6. m = [j EXCEPT !.pos = p, !.len[i] = l]
  BY Zenon DEF FromTo, l
<1> HIDE DEF m
<1>7. /\ m \in Job /\ m.st = j.st /\ m.seek_queue = j.seek_queue /\ m.pos = p
      /\ m.error = j.error /\ m.exits = j.exits /\ m.size = j.size
      /\ m.off = j.off /\ m.len = [j.len EXCEPT ![i] = l]
  BY <1>1, <1>5, <1>6, Zenon DEF Job
<1>8. m.len[i] = l /\ \A n \in Io \ {i} : m.len[n] = j.len[n] /\ m.off[n] = j.off[n]
  BY <1>5, <1>7, Zenon
<1>9. /\ m.pos - Start <= copy_size /\ ~AtEnd(m) /\ m.len[i] > 0
      /\ \A x \in m.pos .. m.pos + m.len[i] - 1 : x \in data
  BY <1>1, <1>2, <1>3, <1>4, <1>5, <1>7, <1>8 DEF AtEnd
<1>10. /\ Took(m, i, k) /\ k \in Job /\ k.seek_queue = m.seek_queue
       /\ i \in Busy(k) \/ Stop(k)
  BY <1>7, <1>9, PopulateTakes, Zenon
<1> HIDE DEF k
<1>11. i \in Busy(k) => Fresh(j, i, k)
  <2> SUFFICES ASSUME i \in Busy(k) PROVE Fresh(j, i, k)
    BY Zenon
  <2>1. Fresh(m, i, k)
    BY <1>10, Zenon DEF Took, Alike
  <2>2. k.off[i] \in Nat
    BY <1>10, Zenon DEF Job
  <2>3. k.off[i] >= j.pos /\ \A x \in j.pos .. k.off[i] - 1 : x \notin data
    BY <1>1, <1>5, <1>7, <2>1, <2>2 DEF Fresh
  <2> QED BY <2>1, <2>3, Zenon DEF Fresh
<1>12. k.pos >= j.pos
  <2>1. k.pos \in Nat /\ k.pos >= p
    BY <1>7, <1>10, Zenon DEF Took, Job
  <2> QED BY <1>1, <1>5, <2>1
<1>13. Took(j, i, k)
  <2>1. \A n \in Io \ {i} : Alike(j, n, k)
    BY <1>7, <1>8, <1>10, ZenonT(30) DEF Took, Alike
  <2>2. /\ k.size >= j.size /\ (j.error => k.error) /\ k.pos - Start <= copy_size
        /\ k.st[i] # "write" /\ (~Stop(k) /\ k.exits # j.exits => AtEnd(k) \/ Nothing(k))
    BY <1>7, <1>10, Zenon DEF Took
  <2> QED BY <1>10, <1>11, <1>12, <2>1, <2>2, Zenon DEF Took
<1> QED BY <1>7, <1>10, <1>13, Zenon DEF k, m, h

\* For the input's last data the end of the region gives the length that the hole
\* at its end would give.
LEMMA HoleAlike ==
  ASSUME Basics, ModeOK, Plain, mode.sparse, NEW j, j \in Job, NEW i \in Io, NEW ok \in BOOLEAN,
         NEW p \in data
  PROVE  dd_target_populate_buffer(FromTo(j, i, p, BdevHole(p)), i, ok)
           = dd_target_populate_buffer(FromTo(j, i, p, NextHole(p)), i, ok)
<1>1. CASE NextHole(p) # Size
  BY <1>1, Zenon DEF BdevHole
<1>2. CASE NextHole(p) = Size
  <2> DEFINE a == Min({Unit, (p + Unit) - p})
             b == Min({Unit, Size - p})
             m == [j EXCEPT !.pos = p, !.len[i] = a]
             n == [j EXCEPT !.pos = p, !.len[i] = b]
             L == Left(m, m.len[i])
             M == Left(n, n.len[i])
  <2>1. p \in Nat /\ p < Size
    BY DEF ModeOK
  <2>2. a = Unit
    <3>1. (p + Unit) - p = Unit
      BY <2>1
    <3> QED BY <3>1, LessOfTwo
  <2>3. b = (IF Unit <= Size - p THEN Unit ELSE Size - p) /\ b \in 0 .. Unit
    <3>1. b = IF Unit <= Size - p THEN Unit ELSE Size - p
      BY <2>1, LessOfTwo
    <3> HIDE DEF b
    <3> QED BY <2>1, <3>1
  <2>4. FromTo(j, i, p, BdevHole(p)) = m /\ FromTo(j, i, p, NextHole(p)) = n
    <3>1. BdevHole(p) = p + Unit
      BY <1>2, Zenon DEF BdevHole
    <3>2. FromTo(j, i, p, p + Unit) = m
      BY DEF FromTo
    <3>3. FromTo(j, i, p, Size) = n
      BY DEF FromTo
    <3> HIDE DEF m, n
    <3> QED BY <1>2, <3>1, <3>2, <3>3, Zenon
  <2> HIDE DEF a, b
  <2>5. j.len \in [Io -> 0 .. Unit] /\ copy_size = Size - Start /\ Start \in Nat
    <3>1. mode.count = 0
      BY Zenon DEF Plain, ModeOK
    <3> QED BY <3>1, Places, Zenon DEF Job, copy_size
  <2>6. /\ m.pos = p /\ m.len = [j.len EXCEPT ![i] = a] /\ m.len[i] = a
        /\ n.pos = p /\ n.len = [j.len EXCEPT ![i] = b] /\ n.len[i] = b
    BY <2>5, Zenon DEF Job
  <2>7. L = M
    <3> DEFINE d == copy_size - (p - Start)
    <3>1. d = Size - p /\ copy_size >= p - Start
      BY <2>1, <2>5
    <3>2. L = Min({a, d}) /\ M = Min({b, d})
      BY <2>6, <3>1, Zenon DEF Left
    <3> HIDE DEF d, L, M, m, n
    <3>3. Min({a, d}) = (IF a <= d THEN a ELSE d) /\ Min({b, d}) = (IF b <= d THEN b ELSE d)
      BY <2>1, <2>2, <2>3, <3>1, LessOfTwo
    <3> QED BY <2>1, <2>2, <2>3, <3>1, <3>2, <3>3
  <2>8. [m EXCEPT !.off[i] = m.pos, !.len[i] = L] = [n EXCEPT !.off[i] = n.pos, !.len[i] = M]
    <3> HIDE DEF L, M
    <3>1. [m.len EXCEPT ![i] = L] = [n.len EXCEPT ![i] = M]
      BY <2>5, <2>6, <2>7
    <3> QED BY <2>6, <2>7, <3>1, ZenonT(30) DEF Job
  <2> DEFINE Goes(k) == LET z == [k EXCEPT !.pos = @ + k.len[i]]
                         IN  IF k.len[i] = 0 \/ Stop(k) THEN ExitIfIdle(Rest(k, i))
                             ELSE IF k.len[i] % out_block = 0 THEN dd_target_read(z, i, ok)
                             ELSE Submit(z, i, "populate", ok /\ OutTakes(z, i))
             e == [m EXCEPT !.off[i] = m.pos, !.len[i] = L]
             f == [n EXCEPT !.off[i] = n.pos, !.len[i] = M]
  <2> HIDE DEF m, n
  <2>9. dd_target_populate_buffer(m, i, ok) = Goes(e) /\ dd_target_populate_buffer(n, i, ok) = Goes(f)
    BY Zenon DEF dd_target_populate_buffer
  <2>10. e = f
    BY <2>8, Zenon
  <2> HIDE DEF Goes, e, f
  <2> QED BY <2>4, <2>9, <2>10, Zenon
<1> QED BY <1>1, <1>2, Zenon

\* dd_finalize_output, after a search that found no more data.
LEMMA FinalizeTakes ==
  ASSUME ModeOK, mode.sparse, NEW j, j \in Job, NEW i \in Io, NEW ok \in BOOLEAN,
         j.pos - Start <= copy_size, Data(j.pos) = {}
  PROVE  LET k == dd_finalize_output(Rest(j, i), ok)
         IN  Took(j, i, k) /\ k \in Job
<1> DEFINE r == Rest(j, i)
           k == dd_finalize_output(r, ok)
           z == OutStart + copy_size
           s == Max({r.size, z})
           e == r.exits + 1
<1>1. /\ r \in Job /\ Like(j, r) /\ r.st = [j.st EXCEPT ![i] = "rest"] /\ r.error = j.error
      /\ r.exits = j.exits
  BY Zenon DEF Rest, Job, States, Like
<1>2. /\ j.st \in [Io -> States] /\ j.size \in Nat /\ j.pos \in Nat /\ j.exits \in Nat
      /\ r.outstanding \in Nat
  BY <1>1, Zenon DEF Job
<1>3. Start \in Nat /\ OutStart \in Nat /\ copy_size \in Nat
  BY Places, Zenon
<1> HIDE DEF r
<1>4. s \in Nat /\ s >= r.size /\ s >= z /\ e \in Nat /\ e # j.exits /\ r.size = j.size
  <2>1. r.size = j.size /\ e \in Nat /\ e # j.exits
    BY <1>1, <1>2 DEF Like
  <2>2. s = IF r.size >= z THEN r.size ELSE z
    BY <1>2, <1>3, <2>1, MoreOfTwo
  <2> HIDE DEF s
  <2> QED BY <1>2, <1>3, <2>1, <2>2
<1>5. \/ k = r
      \/ k = [r EXCEPT !.exits = e] /\ mode.outb
      \/ k = [r EXCEPT !.size = s, !.exits = e]
      \/ k = [r EXCEPT !.error = TRUE, !.exits = e]
  <2>1. /\ dd_exit(r) = [r EXCEPT !.exits = e]
        /\ dd_exit([r EXCEPT !.size = s]) = [r EXCEPT !.size = s, !.exits = e]
        /\ dd_exit([r EXCEPT !.error = TRUE]) = [r EXCEPT !.error = TRUE, !.exits = e]
    BY <1>1, Zenon DEF dd_exit, Job
  <2> HIDE DEF e
  <2> QED BY <1>2, <2>1, Zenon DEF dd_finalize_output
<1> HIDE DEF s, e, z
<1>6. /\ k \in Job /\ k.pos = j.pos /\ k.st = r.st /\ k.off = j.off /\ k.len = j.len
      /\ (j.error => k.error)
      /\ \/ k.size = j.size /\ k.exits = j.exits
         \/ k.size = j.size /\ mode.outb
         \/ k.size = s
         \/ k.size = j.size /\ k.error
  <2>1. CASE k = r
    BY <1>1, <1>4, <2>1, Zenon DEF Like
  <2>2. CASE k = [r EXCEPT !.exits = e] /\ mode.outb
    BY <1>1, <1>4, <2>2, Zenon DEF Job, Like
  <2>3. CASE k = [r EXCEPT !.size = s, !.exits = e]
    BY <1>1, <1>4, <2>3, Zenon DEF Job, Like
  <2>4. CASE k = [r EXCEPT !.error = TRUE, !.exits = e]
    BY <1>1, <1>4, <2>4, Zenon DEF Job, Like
  <2> HIDE DEF k
  <2> QED BY <1>5, <2>1, <2>2, <2>3, <2>4, Zenon
<1> HIDE DEF k
<1>7. \A n \in Io : k.st[n] = IF n = i THEN "rest" ELSE j.st[n]
  BY <1>1, <1>2, <1>6, Zenon
<1>8. i \notin Busy(k) /\ k.st[i] # "write" /\ \A x \in j.pos .. k.pos - 1 : FALSE
  BY <1>2, <1>6, <1>7 DEF Busy
<1>9. k.size >= j.size /\ k.pos >= j.pos /\ k.pos - Start <= copy_size
  BY <1>2, <1>3, <1>4, <1>6
<1>10. ~Stop(k) /\ k.exits # j.exits => Nothing(k)
  BY <1>4, <1>6, Zenon DEF Stop, Nothing, z
<1> QED BY <1>6, <1>7, <1>8, <1>9, <1>10, Zenon DEF Took, Alike, k, r

\* A dd_io that takes no range.
LEMMA StillTakes ==
  ASSUME ModeOK, NEW j, j \in Job, NEW i \in Io, j.pos - Start <= copy_size, NEW k, Like(j, k),
         NEW x \in Idle, k.st = [j.st EXCEPT ![i] = x], j.error => k.error,
         mode.sparse \/ Stop(k), ~Stop(k) /\ k.exits # j.exits => AtEnd(k)
  PROVE  Took(j, i, k)
<1>1. j.st \in [Io -> States] /\ j.size \in Nat /\ j.pos \in Nat
  BY Zenon DEF Job
<1>2. \A n \in Io : k.st[n] = IF n = i THEN x ELSE j.st[n]
  BY <1>1, Zenon
<1>3. k.pos = j.pos /\ k.size = j.size /\ k.off = j.off /\ k.len = j.len
  BY Zenon DEF Like
<1>4. k.pos >= j.pos /\ k.size >= j.size /\ \A y \in j.pos .. k.pos - 1 : FALSE
  BY <1>1, <1>3
<1>5. i \notin Busy(k) /\ k.st[i] # "write"
  BY <1>2, Zenon DEF Busy, Idle
<1> QED BY <1>2, <1>3, <1>4, <1>5, Zenon DEF Took, Alike

\* A search that found data, but no end of it, while something is outstanding.
LEMMA PassTakes ==
  ASSUME ModeOK, Plain, mode.sparse, NEW j, j \in Job, NEW i \in Io, j.exits = 0,
         NEW p \in data, p >= j.pos, \A x \in j.pos .. p - 1 : x \notin data,
         NEW k, Like([j EXCEPT !.pos = p], k), k.st = [j.st EXCEPT ![i] = "rest"],
         j.error => k.error, k.error \/ k.exits = j.exits
  PROVE  Took(j, i, k)
<1> DEFINE q == [j EXCEPT !.pos = p]
<1>1. /\ j.st \in [Io -> States] /\ j.size \in Nat /\ j.pos \in Nat /\ p \in Nat /\ p < Size
      /\ Start \in Nat /\ copy_size = Size - Start
  <2>1. mode.count = 0
    BY Zenon DEF Plain, ModeOK
  <2>2. p \in Nat /\ p < Size
    BY DEF ModeOK
  <2> QED BY <2>1, <2>2, Places, Zenon DEF Job, copy_size
<1>2. k.pos = p /\ k.size = j.size /\ k.off = j.off /\ k.len = j.len
  <2>1. q.pos = p /\ q.size = j.size /\ q.off = j.off /\ q.len = j.len
    BY <1>1, Zenon DEF Job
  <2> QED BY <2>1, Zenon DEF Like
<1>3. \A n \in Io : k.st[n] = IF n = i THEN "rest" ELSE j.st[n]
  BY <1>1, Zenon
<1>4. i \notin Busy(k) /\ k.st[i] # "write"
  BY <1>3, Zenon DEF Busy
<1>5. k.pos >= j.pos /\ k.size >= j.size /\ k.pos - Start <= copy_size
  BY <1>1, <1>2
<1>6. ~Stop(k) => k.exits = 0 /\ k.exits = j.exits
  BY Zenon DEF Stop
<1> QED BY <1>2, <1>3, <1>4, <1>5, <1>6, Zenon DEF Took, Alike

\* dd_target_seek.
LEMMA SeekTakes ==
  ASSUME Basics, ModeOK, Plain, NEW j, j \in Job, NEW i \in Io, NEW ok \in BOOLEAN, NEW found,
         j.pos - Start <= copy_size,
         ~mode.sparse /\ ~Stop(j) => j.len[i] = Unit \/ AtEnd(j)
  PROVE  Took(j, i, dd_target_seek(j, i, ok, found))
<1> DEFINE k == dd_target_seek(j, i, ok, found)
           Fail(q) == ExitIfIdle([Rest(q, i) EXCEPT !.error = @ \/ q.outstanding = 0])
<1>0. /\ j.pos \in Nat /\ j.exits \in Nat /\ j.error \in BOOLEAN /\ j.seek_queue \in Seq(Io)
      /\ j.outstanding \in Nat
  BY Zenon DEF Job
<1>1. CASE ~mode.sparse
  <2>1. k = dd_target_populate_buffer(j, i, ok)
    BY <1>1, Zenon DEF dd_target_seek
  <2> QED BY <1>1, <2>1, PopulateTakes, Zenon
<1>2. CASE mode.sparse /\ (AtEnd(j) \/ Stop(j))
  <2>1. k = ExitIfIdle(Rest(j, i))
    BY <1>2, Zenon DEF dd_target_seek
  <2> HIDE DEF k
  <2>2. Like(j, k) /\ k.st = [j.st EXCEPT ![i] = "rest"] /\ k.error = j.error
    BY <2>1, RestLike, Zenon
  <2>3. Stop(k) \/ AtEnd(k)
    BY <1>2, <2>2, Zenon DEF Stop, AtEnd, Like
  <2>4. Took(j, i, k)
    BY <1>2, <2>2, <2>3, StillTakes, Zenon DEF Idle
  <2> QED BY <2>4, Zenon DEF k
<1>3. CASE mode.sparse /\ ~(AtEnd(j) \/ Stop(j)) /\ ~mode.inb /\ (j.exits > 0 \/ found = "none")
  <2>1. k = Fail(j)
    BY <1>3, Zenon DEF dd_target_seek
  <2>2. /\ Like(j, Fail(j)) /\ Fail(j).st = [j.st EXCEPT ![i] = "rest"]
        /\ (j.error => Fail(j).error) /\ (Fail(j).error \/ Fail(j).exits = j.exits)
    BY FailLike, Zenon
  <2> HIDE DEF k, Fail
  <2>3. /\ Like(j, k) /\ k.st = [j.st EXCEPT ![i] = "rest"]
        /\ (j.error => k.error) /\ (k.error \/ k.exits = j.exits)
    BY <2>1, <2>2, Zenon
  <2>4. Took(j, i, k)
    BY <1>3, <2>3, StillTakes, Zenon DEF Idle, Stop
  <2> QED BY <2>4, Zenon DEF k
<1>4. CASE mode.sparse /\ ~(AtEnd(j) \/ Stop(j)) /\ ~mode.inb /\ ~(j.exits > 0 \/ found = "none")
  <2>1. CASE Data(j.pos) = {}
    <3>1. k = dd_finalize_output(Rest(j, i), ok)
      BY <1>4, <2>1, Zenon DEF dd_target_seek
    <3> QED BY <1>4, <2>1, <3>1, FinalizeTakes, Zenon
  <2>2. CASE Data(j.pos) # {}
    <3> DEFINE p == Min(Data(j.pos))
               q == [j EXCEPT !.pos = p]
    <3>1. p \in data /\ p >= j.pos /\ \A x \in j.pos .. p - 1 : x \notin data
      BY <1>0, <2>2, Searches, SearchEnds, Zenon
    <3>2. k = IF found = "data" THEN Fail(q)
              ELSE dd_target_populate_buffer(FromTo(j, i, p, NextHole(p)), i, ok)
      BY <1>4, <2>2, Zenon DEF dd_target_seek
    <3> HIDE DEF p
    <3>3. CASE found # "data"
      <4>1. k = dd_target_populate_buffer(FromTo(j, i, p, NextHole(p)), i, ok)
        BY <3>2, <3>3, Zenon
      <4> HIDE DEF k
      <4>2. Took(j, i, k)
        BY <1>4, <3>1, <4>1, SearchTakes
      <4> QED BY <4>2, Zenon DEF k
    <3>4. CASE found = "data"
      <4>1. p \in Nat /\ j.exits = 0
        BY <1>0, <1>4, <3>1 DEF ModeOK
      <4>2. q \in Job /\ q.st = j.st /\ q.error = j.error /\ q.exits = j.exits
        BY <4>1, Zenon DEF Job
      <4>3. /\ Like(q, Fail(q)) /\ Fail(q).st = [q.st EXCEPT ![i] = "rest"]
            /\ (q.error => Fail(q).error) /\ (Fail(q).error \/ Fail(q).exits = q.exits)
        BY <4>2, FailLike, Zenon
      <4>4. k = Fail(q)
        BY <3>2, <3>4, Zenon
      <4> HIDE DEF k, Fail
      <4>5. /\ Like(q, k) /\ k.st = [j.st EXCEPT ![i] = "rest"]
            /\ (j.error => k.error) /\ (k.error \/ k.exits = j.exits)
        BY <4>2, <4>3, <4>4, Zenon
      <4>6. Took(j, i, k)
        BY <1>4, <3>1, <4>1, <4>5, PassTakes, Zenon
      <4> QED BY <4>6, Zenon DEF k
    <3> QED BY <3>3, <3>4, Zenon
  <2> QED BY <2>1, <2>2, Zenon
<1>5. CASE mode.sparse /\ ~(AtEnd(j) \/ Stop(j)) /\ mode.inb
  <2> DEFINE a == Append(j.seek_queue, i)
             q == [j EXCEPT !.seek_queue = a]
             w == [q EXCEPT !.st[i] = "queued"]
             x == (ok /\ SeekTaken(j.pos))
  <2>1. a \in Seq(Io) /\ x \in BOOLEAN
    BY <1>0
  <2>2. k = Submit(q, i, "seek_data", x) \/ k = w
    BY <1>5, Zenon DEF dd_target_seek
  <2> HIDE DEF a, k, x
  <2>3. /\ q \in Job /\ Like(j, q) /\ q.st = j.st /\ q.error = j.error /\ q.exits = j.exits
        /\ Like(j, w) /\ w.st = [j.st EXCEPT ![i] = "queued"] /\ w.error = j.error
        /\ w.exits = j.exits
    BY <2>1, Zenon DEF Job, Like, States
  <2> HIDE DEF q, w
  <2>4. Took(j, i, w)
    BY <1>5, <2>3, StillTakes, Zenon DEF Idle
  <2>5. Took(j, i, Submit(q, i, "seek_data", x))
    <3> DEFINE s == Submit(q, i, "seek_data", x)
    <3>0. "seek_data" \in Flying
      BY Zenon DEF Flying
    <3>1. Sent(q, i, "seek_data", x, s)
      BY <2>1, <2>3, <3>0, SubmitLike, SMT
    <3> HIDE DEF s
    <3>2. /\ Like(j, s) /\ (j.error => s.error)
          /\ \/ s.st = [j.st EXCEPT ![i] = "seek_data"] /\ s.exits = j.exits
             \/ s.st = [j.st EXCEPT ![i] = "rest"] /\ s.error
      BY <2>3, <3>1, Zenon DEF Sent, Like
    <3>3. Took(j, i, s)
      BY <1>5, <3>2, StillTakes, Zenon DEF Idle, Stop
    <3> QED BY <3>3, Zenon DEF s
  <2> QED BY <2>2, <2>4, <2>5, Zenon DEF k
<1> QED BY <1>0, <1>1, <1>2, <1>3, <1>4, <1>5

-----------------------------------------------------------------------------
(* What such a handler keeps *)

\* A length of whole blocks is not rounded up.
LEMMA CeilWhole ==
  ASSUME ModeOK, NEW n \in Nat, n % out_block = 0
  PROVE  CeilBlock(n) = n
<1>1. out_block \in Nat /\ out_block > 0
  BY Places
<1> DEFINE q == n \div out_block
           c == (n + out_block - 1) \div out_block
<1>2. q \in Nat /\ n = out_block * q
  BY <1>1
<1>3. c = q
  <2>1. c \in Nat /\ out_block * c <= n + out_block - 1 /\ n + out_block - 1 < out_block * c + out_block
    BY <1>1
  <2> HIDE DEF c, q
  <2>2. ~(c > q)
    <3> SUFFICES ASSUME c > q PROVE FALSE
      BY Zenon
    <3>1. PICK z \in Nat : c = q + 1 + z
      <4>1. c - q - 1 \in Nat /\ c = q + 1 + (c - q - 1)
        BY <1>2, <2>1
      <4> QED BY <4>1, Zenon
    <3>2. out_block * c = out_block * q + out_block + out_block * z /\ out_block * z >= 0
      BY <1>1, <1>2, <3>1
    <3> QED BY <1>1, <1>2, <2>1, <3>2
  <2>3. ~(c < q)
    <3> SUFFICES ASSUME c < q PROVE FALSE
      BY Zenon
    <3>1. PICK z \in Nat : q = c + 1 + z
      <4>1. q - c - 1 \in Nat /\ q = c + 1 + (q - c - 1)
        BY <1>2, <2>1
      <4> QED BY <4>1, Zenon
    <3>2. out_block * q = out_block * c + out_block + out_block * z /\ out_block * z >= 0
      BY <1>1, <2>1, <3>1
    <3> QED BY <1>1, <1>2, <2>1, <3>2
  <2> QED BY <1>2, <2>1, <2>2, <2>3
<1> HIDE DEF q, c
<1>4. q * out_block = out_block * q
  BY <1>1, <1>2
<1>5. CeilBlock(n) = c * out_block
  BY Zenon DEF CeilBlock, c
<1> QED BY <1>2, <1>3, <1>4, <1>5, Zenon

\* The next range is part of the plan.
LEMMA TookPlan ==
  ASSUME ModeOK, Plain, NEW j, j \in Job, Plan(j), NEW i \in Io, NEW k, Core(k, {}), Took(j, i, k)
  PROVE  Plan(k)
<1>1. /\ k \in Job /\ k.pos \in Nat /\ j.pos \in Nat /\ Start \in Nat /\ copy_size \in Nat
      /\ k.exits \in Nat /\ j.exits \in Nat /\ k.size \in Nat /\ j.size \in Nat /\ OutStart \in Nat
  BY Places, Zenon DEF Core, Job
<1>2. Stop(j) => Stop(k)
  BY Zenon DEF Took, Stop
<1>3. ASSUME NEW n \in Busy(k) PROVE Sound(k, n)
  <2>1. CASE n = i
    <3>1. Fresh(j, i, k)
      BY <2>1, Zenon DEF Took
    <3> QED BY <2>1, <3>1, Zenon DEF Fresh, Sound, InTakes
  <2>2. CASE n # i
    <3>1. n \in Io \ {i} /\ k.st[n] \in {"populate", "read", "write"}
      BY <2>2, Zenon DEF Busy
    <3>2. k.off[n] = j.off[n] /\ k.len[n] = j.len[n] /\ k.st[n] = j.st[n]
      BY <3>1, Zenon DEF Took, Alike, Idle
    <3>3. n \in Busy(j)
      BY <3>1, <3>2, Zenon DEF Busy
    <3>4. Sound(j, n)
      BY <3>3, Zenon DEF Plan
    <3> QED BY <3>2, <3>4, Zenon DEF Sound, OutTakes, WriteOffset, Part
  <2> QED BY <2>1, <2>2, Zenon
<1>4. ASSUME ~mode.sparse, ~Stop(k), NEW n \in Io
      PROVE  k.len[n] = Unit \/ AtEnd(k)
  <2>1. CASE n = i
    BY <1>4, <2>1, Zenon DEF Took
  <2>2. CASE n # i
    <3>1. k.len[n] = j.len[n]
      BY <2>2, Zenon DEF Took, Alike
    <3>2. j.len[n] = Unit \/ AtEnd(j)
      BY <1>2, <1>4, Zenon DEF Plan
    <3>3. AtEnd(j) => AtEnd(k)
      BY <1>1 DEF Took, AtEnd
    <3> QED BY <3>1, <3>2, <3>3, Zenon
  <2> QED BY <2>1, <2>2, Zenon
<1>5. ASSUME k.exits > 0, ~Stop(k)
      PROVE  AtEnd(k) \/ Nothing(k)
  <2>1. InAir(k) = {}
    BY <1>5, Zenon DEF Core, Shut, Faulty
  <2>2. i \notin Busy(k) /\ k.st[i] # "seek_hole"
    BY <2>1, Zenon DEF InAir, Busy, Flying
  <2>3. k.pos = j.pos /\ k.size >= j.size
    <3>1. k.exits # 0
      BY <1>5
    <3> QED BY <1>5, <2>2, <3>1, Zenon DEF Took
  <2>4. CASE k.exits # j.exits
    BY <1>5, <2>4, Zenon DEF Took
  <2>5. CASE k.exits = j.exits
    <3>1. AtEnd(j) \/ Nothing(j)
      BY <1>2, <1>5, <2>5, Zenon DEF Plan
    <3> QED BY <1>1, <2>3, <3>1 DEF AtEnd, Nothing
  <2> QED BY <2>4, <2>5, Zenon
<1>6. k.pos - Start <= copy_size
  BY Zenon DEF Took
<1> QED BY <1>3, <1>4, <1>5, <1>6, Zenon DEF Plan

\* What becomes of buffers b and output o when dd_io i is done with its range: the
\* others' padding, and all that is in place or to be left alone, is as it was.
Moved(j, i, k, b, o, c, p) ==
  /\ \A n \in Io \ {i} : c[n] = b[n]
  /\ \A n \in Io \ {i} : j.st[n] \in {"read", "write"}
       => \A x \in Pad(j, n) : p[WriteOffset(j, n) + x] = o[WriteOffset(j, n) + x]
  /\ \A y \in Blocks : ~Meant(y) => p[y] = 0
  /\ ~Stop(k) =>
       /\ \A x \in Start .. j.pos - 1 : InPlace(o, x) => InPlace(p, x)
       /\ i \in Busy(j) =>
            /\ \A x \in Part(j, i) : InPlace(p, x)
            /\ ~mode.outb => k.size >= Place(j.off[i] + j.len[i])
       /\ j.st[i] = "seek_hole" => i \in Busy(k)

\* The blocks of the output are as they should be after it.
LEMMA TookHeld ==
  ASSUME ModeOK, NEW j, j \in Job, j.pos >= Start, NEW i \in Io, NEW k, k \in Job, Took(j, i, k),
         NEW b, NEW o, Held(j, b, o), NEW c, NEW p, Moved(j, i, k, b, o, c, p)
  PROVE  Held(k, c, p)
<1>1. /\ k.pos \in Nat /\ j.pos \in Nat /\ Start \in Nat /\ OutStart \in Nat
      /\ k.size \in Nat /\ j.size \in Nat
      /\ \A n \in Io : k.len[n] \in Nat /\ k.off[n] \in Nat
  BY Places DEF Job
<1>2. Stop(j) => Stop(k)
  BY Zenon DEF Took, Stop
<1>3. \A n \in Io \ {i} : k.off[n] = j.off[n] /\ k.len[n] = j.len[n]
  BY Zenon DEF Took, Alike
<1>4. ASSUME NEW n \in Io \ {i}, k.st[n] \in {"populate", "read", "write"}
      PROVE  k.st[n] = j.st[n]
  BY <1>4, Zenon DEF Took, Alike, Idle
<1>5. ASSUME NEW n \in Io \ {i}, j.st[n] \in {"populate", "read", "write", "seek_hole"}
      PROVE  k.st[n] = j.st[n]
  BY <1>5, Zenon DEF Took, Alike, Idle
<1>6. ASSUME NEW n \in Io, k.st[n] \in {"read", "write"}, NEW x \in Pad(k, n)
      PROVE  c[n][x] = p[WriteOffset(k, n) + x]
  <2>1. CASE n = i
    <3>1. i \in Busy(k) /\ k.st[i] = "read"
      BY <1>6, <2>1, Zenon DEF Took, Busy
    <3>2. k.len[i] % out_block = 0
      BY <3>1, Zenon DEF Took, Fresh
    <3>3. CeilBlock(k.len[i]) = k.len[i]
      BY <1>1, <3>2, CeilWhole, Zenon
    <3>4. Pad(k, i) = {}
      BY <1>1, <3>3 DEF Pad
    <3> QED BY <1>6, <2>1, <3>4, Zenon
  <2>2. CASE n # i
    <3>1. n \in Io \ {i} /\ k.st[n] = j.st[n] /\ k.off[n] = j.off[n] /\ k.len[n] = j.len[n]
      BY <1>3, <1>4, <1>6, <2>2, Zenon
    <3>2. Pad(k, n) = Pad(j, n) /\ WriteOffset(k, n) = WriteOffset(j, n)
      BY <3>1, Zenon DEF Pad, WriteOffset
    <3>3. b[n][x] = o[WriteOffset(j, n) + x]
      BY <1>6, <3>1, <3>2, Zenon DEF Held
    <3>4. c[n] = b[n] /\ p[WriteOffset(j, n) + x] = o[WriteOffset(j, n) + x]
      BY <1>6, <3>1, <3>2, Zenon DEF Moved
    <3> QED BY <3>2, <3>3, <3>4, Zenon
  <2> QED BY <2>1, <2>2, Zenon
<1>7. ASSUME NEW n \in Io, k.st[n] = "write", NEW x \in 0 .. k.len[n] - 1
      PROVE  c[n][x] = Source(k.off[n] + x)
  <2>1. n \in Io \ {i}
    BY <1>7, Zenon DEF Took
  <2>2. k.st[n] = j.st[n] /\ k.off[n] = j.off[n] /\ k.len[n] = j.len[n]
    BY <1>3, <1>4, <1>7, <2>1, Zenon
  <2>3. b[n][x] = Source(j.off[n] + x)
    BY <1>7, <2>1, <2>2, Zenon DEF Held
  <2> QED BY <2>1, <2>2, <2>3, Zenon DEF Moved
<1>8. ASSUME ~Stop(k) PROVE Covered(k, p)
  <2> SUFFICES ASSUME NEW x \in Start .. k.pos - 1
               PROVE  \/ \E n \in Busy(k) : x \in Part(k, n)
                      \/ mode.sparse /\ x \notin data
                      \/ InPlace(p, x)
    BY Zenon DEF Covered
  <2>1. CASE x < j.pos
    <3>1. x \in Start .. j.pos - 1
      BY <1>1, <2>1
    <3>2. \/ \E n \in Busy(j) : x \in Part(j, n)
          \/ mode.sparse /\ x \notin data
          \/ InPlace(o, x)
      BY <1>2, <1>8, <3>1, Zenon DEF Held, Covered
    <3>3. CASE InPlace(o, x)
      BY <1>8, <3>1, <3>3, Zenon DEF Moved
    <3>4. ASSUME NEW n \in Busy(j), x \in Part(j, n)
          PROVE  InPlace(p, x) \/ \E a \in Busy(k) : x \in Part(k, a)
      <4>1. CASE n = i
        BY <1>8, <3>4, <4>1, Zenon DEF Moved
      <4>2. CASE n # i
        <5>1. n \in Io \ {i} /\ j.st[n] \in {"populate", "read", "write"}
          BY <4>2, Zenon DEF Busy
        <5>2. n \in Busy(k)
          BY <1>5, <5>1, Zenon DEF Busy
        <5>3. Part(k, n) = Part(j, n)
          BY <1>3, <5>1, Zenon DEF Part
        <5> QED BY <3>4, <5>2, <5>3, Zenon
      <4> QED BY <4>1, <4>2, Zenon
    <3> QED BY <3>2, <3>3, <3>4, Zenon
  <2>2. CASE ~(x < j.pos)
    <3>1. CASE i \in Busy(k)
      <4>1. /\ k.off[i] + k.len[i] = k.pos
            /\ \A y \in j.pos .. k.off[i] - 1 : mode.sparse /\ y \notin data
        BY <3>1, Zenon DEF Took, Fresh
      <4>2. x \in j.pos .. k.off[i] - 1 \/ x \in Part(k, i)
        BY <1>1, <2>2, <4>1 DEF Part
      <4> QED BY <3>1, <4>1, <4>2, Zenon
    <3>2. CASE i \notin Busy(k)
      <4>1. x \in j.pos .. k.pos - 1
        BY <1>1, <2>2
      <4> QED BY <1>8, <3>2, <4>1, Zenon DEF Took
    <3> QED BY <3>1, <3>2, Zenon
  <2> QED BY <2>1, <2>2, Zenon
<1>9. ASSUME ~Stop(k), ~mode.outb PROVE Grown(k)
  <2>1. CASE i \in Busy(k)
    BY <2>1, Zenon DEF Took, Fresh, Grown
  <2>2. CASE k.st[i] = "seek_hole"
    BY <2>2, Zenon DEF Grown
  <2>3. CASE i \notin Busy(k) /\ k.st[i] # "seek_hole" /\ mode.sparse /\ k.pos \in data
    BY <2>3, Zenon DEF Grown
  <2>4. CASE i \notin Busy(k) /\ k.st[i] # "seek_hole" /\ ~(mode.sparse /\ k.pos \in data)
    <3>1. k.pos = j.pos /\ k.size >= j.size
      BY <1>9, <2>4, Zenon DEF Took
    <3>2. Grown(j) /\ ~(mode.sparse /\ j.pos \in data)
      BY <1>2, <1>9, <2>4, <3>1, Zenon DEF Held
    <3>3. CASE j.pos = Start \/ j.size >= Place(j.pos)
      BY <1>1, <3>1, <3>3 DEF Grown, Place
    <3>4. ASSUME NEW n \in Busy(j), j.off[n] + j.len[n] = j.pos
          PROVE  Grown(k)
      <4>1. CASE n = i
        BY <1>9, <3>1, <3>4, <4>1, Zenon DEF Moved, Grown
      <4>2. CASE n # i
        <5>1. n \in Io \ {i} /\ j.st[n] \in {"populate", "read", "write"}
          BY <4>2, Zenon DEF Busy
        <5>2. n \in Busy(k)
          BY <1>5, <5>1, Zenon DEF Busy
        <5> QED BY <1>3, <3>1, <3>4, <5>1, <5>2, Zenon DEF Grown
      <4> QED BY <4>1, <4>2, Zenon
    <3>5. ASSUME NEW n \in Io, j.st[n] = "seek_hole"
          PROVE  Grown(k)
      <4>1. n # i
        BY <1>9, <2>4, <3>5, Zenon DEF Moved
      <4> QED BY <1>5, <3>5, <4>1, Zenon DEF Grown
    <3> QED BY <3>2, <3>3, <3>4, <3>5, Zenon DEF Grown
  <2> QED BY <2>1, <2>2, <2>3, <2>4, Zenon
<1>10. \A y \in Blocks : ~Meant(y) => p[y] = 0
  BY Zenon DEF Moved
<1> QED BY <1>6, <1>7, <1>8, <1>9, <1>10, Zenon DEF Held

-----------------------------------------------------------------------------
(* Handlers that go on with a range *)

\* The dd_io goes on with the range it has, or rests after an error or interrupt.
Passed(j, i, op, k) ==
  /\ Like(j, k) /\ (j.error => k.error)
  /\ \/ k.st = [j.st EXCEPT ![i] = op] /\ k.exits = j.exits
     \/ k.st = [j.st EXCEPT ![i] = "rest"] /\ Stop(k)

\* dd_target_read and dd_target_write.
LEMMA Passes ==
  ASSUME NEW j, j \in Job, NEW i \in Io, NEW ok \in BOOLEAN
  PROVE  LET r == dd_target_read(j, i, ok)
             w == dd_target_write(j, i, ok)
         IN  /\ Passed(j, i, "read", r) /\ (r.st[i] = "read" => ~Stop(j) /\ InTakes(r, i))
             /\ Passed(j, i, "write", w) /\ (w.st[i] = "write" => ~Stop(j) /\ OutTakes(w, i))
<1> DEFINE r == dd_target_read(j, i, ok)
           w == dd_target_write(j, i, ok)
<1>0. j.st \in [Io -> States]
  BY Zenon DEF Job
<1>1. CASE Stop(j)
  <2> DEFINE k == ExitIfIdle(Rest(j, i))
  <2>1. r = k /\ w = k
    BY <1>1, Zenon DEF dd_target_read, dd_target_write
  <2> HIDE DEF r, w
  <2>2. Like(j, k) /\ k.st = [j.st EXCEPT ![i] = "rest"] /\ k.error = j.error
    BY RestLike, Zenon
  <2> HIDE DEF k
  <2>3. Stop(k) /\ k.st[i] = "rest"
    BY <1>0, <1>1, <2>2, Zenon DEF Stop
  <2> QED BY <2>1, <2>2, <2>3, Zenon DEF Passed, r, w
<1>2. CASE ~Stop(j)
  <2> DEFINE s == (ok /\ InTakes(j, i))
             t == (ok /\ OutTakes(j, i))
  <2>1. r = Submit(j, i, "read", s) /\ w = Submit(j, i, "write", t) /\ s \in BOOLEAN /\ t \in BOOLEAN
    BY <1>2, Zenon DEF dd_target_read, dd_target_write
  <2> HIDE DEF s, t, r, w
  <2>2. Sent(j, i, "read", s, Submit(j, i, "read", s)) /\ Sent(j, i, "write", t, Submit(j, i, "write", t))
    <3>1. "read" \in Flying /\ "write" \in Flying
      BY Zenon DEF Flying
    <3> QED BY <2>1, <3>1, SubmitLike, Zenon
  <2>3. Sent(j, i, "read", s, r) /\ Sent(j, i, "write", t, w)
    BY <2>1, <2>2, Zenon
  <2>4. Passed(j, i, "read", r) /\ Passed(j, i, "write", w)
    BY <2>3, Zenon DEF Sent, Passed, Stop
  <2>5. r.st[i] = "read" => s
    BY <1>0, <2>3, Zenon DEF Sent
  <2>6. w.st[i] = "write" => t
    BY <1>0, <2>3, Zenon DEF Sent
  <2>7. InTakes(r, i) = InTakes(j, i) /\ OutTakes(w, i) = OutTakes(j, i)
    BY <2>3, Zenon DEF Sent, Like, InTakes, OutTakes, WriteOffset
  <2> QED BY <1>2, <2>4, <2>5, <2>6, <2>7, Zenon DEF s, t, r, w
<1> QED BY <1>1, <1>2, Zenon

\* The plan is the same.
LEMMA PassedPlan ==
  ASSUME NEW j, j \in Job, Plan(j), NEW i \in Io, NEW op \in {"read", "write"},
         NEW k, Passed(j, i, op, k), k.st[i] = op => Sound(k, i)
  PROVE  Plan(k)
<1>0. j.st \in [Io -> States]
  BY Zenon DEF Job
<1>1. k.pos = j.pos /\ k.size = j.size /\ k.off = j.off /\ k.len = j.len
  BY Zenon DEF Passed, Like
<1>2. (Stop(j) => Stop(k)) /\ AtEnd(j) = AtEnd(k) /\ Nothing(j) = Nothing(k)
  BY <1>1, Zenon DEF Passed, Stop, AtEnd, Nothing
<1>3. ASSUME NEW n \in Busy(k) PROVE Sound(k, n)
  <2>1. CASE n = i
    <3>1. k.st[i] \in {op, "rest"}
      BY <1>0, Zenon DEF Passed
    <3> QED BY <2>1, <3>1, Zenon DEF Busy
  <2>2. CASE n # i
    <3>1. k.st[n] = j.st[n] /\ n \in Io
      BY <1>0, <2>2, Zenon DEF Passed, Busy
    <3>2. n \in Busy(j)
      BY <3>1, Zenon DEF Busy
    <3>3. Sound(j, n)
      BY <3>2, Zenon DEF Plan
    <3> QED BY <1>1, <3>1, <3>3, Zenon DEF Sound, OutTakes, WriteOffset, Part
  <2> QED BY <2>1, <2>2, Zenon
<1>4. ~Stop(k) => k.exits = j.exits
  BY Zenon DEF Passed
<1> QED BY <1>1, <1>2, <1>3, <1>4, Zenon DEF Plan

\* So is the output; the buffer of the dd_io may have been filled.
LEMMA PassedHeld ==
  ASSUME NEW j, j \in Job, NEW i \in Busy(j), NEW op \in {"read", "write"},
         NEW k, Passed(j, i, op, k), NEW b, NEW o, Held(j, b, o), NEW c,
         \A n \in Io \ {i} : c[n] = b[n],
         k.st[i] = op => \A x \in Pad(k, i) : c[i][x] = o[WriteOffset(k, i) + x],
         k.st[i] = "write" => \A x \in 0 .. k.len[i] - 1 : c[i][x] = Source(k.off[i] + x)
  PROVE  Held(k, c, o)
<1>0. j.st \in [Io -> States] /\ i \in Io
  BY Zenon DEF Job, Busy
<1>1. k.pos = j.pos /\ k.size = j.size /\ k.off = j.off /\ k.len = j.len
  BY Zenon DEF Passed, Like
<1>2. Stop(j) => Stop(k)
  BY Zenon DEF Passed, Stop
<1>3. \A n \in Io : k.st[n] = IF n # i THEN j.st[n] ELSE IF Stop(k) THEN k.st[i] ELSE op
  BY <1>0, Zenon DEF Passed
<1>4. k.st[i] \in {op, "rest"}
  BY <1>0, Zenon DEF Passed
<1>5. \A n \in Io : /\ Part(k, n) = Part(j, n) /\ Pad(k, n) = Pad(j, n)
                    /\ WriteOffset(k, n) = WriteOffset(j, n)
  BY <1>1, Zenon DEF Part, Pad, WriteOffset
<1>6. ASSUME NEW n \in Io, k.st[n] \in {"read", "write"}, NEW x \in Pad(k, n)
      PROVE  c[n][x] = o[WriteOffset(k, n) + x]
  <2>1. CASE n = i
    BY <1>4, <1>6, <2>1, Zenon
  <2>2. CASE n # i
    <3>1. b[n][x] = o[WriteOffset(j, n) + x]
      BY <1>3, <1>5, <1>6, <2>2 DEF Held
    <3> QED BY <1>5, <2>2, <3>1, Zenon
  <2> QED BY <2>1, <2>2, Zenon
<1>7. ASSUME NEW n \in Io, k.st[n] = "write", NEW x \in 0 .. k.len[n] - 1
      PROVE  c[n][x] = Source(k.off[n] + x)
  <2>1. CASE n = i
    BY <1>7, <2>1, Zenon
  <2>2. CASE n # i
    <3>1. b[n][x] = Source(j.off[n] + x)
      BY <1>1, <1>3, <1>7, <2>2 DEF Held
    <3> QED BY <1>1, <2>2, <3>1, Zenon
  <2> QED BY <2>1, <2>2, Zenon
<1>8. ASSUME ~Stop(k) PROVE Covered(k, o) /\ (~mode.outb => Grown(k))
  <2>1. Busy(k) = Busy(j)
    BY <1>0, <1>3, <1>8, Zenon DEF Busy
  <2>2. Covered(k, o)
    BY <1>1, <1>2, <1>5, <1>8, <2>1 DEF Held, Covered, Busy
  <2>3. ASSUME ~mode.outb PROVE Grown(k)
    <3>1. Grown(j)
      BY <1>2, <1>8, <2>3, Zenon DEF Held
    <3>2. ASSUME NEW n \in Io, j.st[n] = "seek_hole" PROVE k.st[n] = "seek_hole"
      BY <1>3, <3>2, Zenon DEF Busy
    <3> QED BY <1>1, <2>1, <3>1, <3>2, Zenon DEF Grown
  <2> QED BY <2>2, <2>3, Zenon
<1>9. \A y \in Blocks : ~Meant(y) => o[y] = 0
  BY Zenon DEF Held
<1> QED BY <1>6, <1>7, <1>8, <1>9, Zenon DEF Held

-----------------------------------------------------------------------------
(* The steps, and what is copied *)

\* The invariant speaks of mode, data and intr besides the job, buffers and output.
LEMMA CopyPrimed ==
  ASSUME mode' = mode, data' = data, intr' = intr, Plan(job'), buf' = [i \in Io |-> buf'[i]],
         ~lost' => Held(job', buf', out')
  PROVE  CopyInv'
<1>0. /\ copy_size' = copy_size /\ out_block' = out_block
      /\ Stop(job)' = Stop(job') /\ (Busy(job))' = Busy(job')
  BY Zenon DEF copy_size, out_block, Stop, Busy
<1>1. AtEnd(job)' = AtEnd(job') /\ Nothing(job)' = Nothing(job')
  BY <1>0, Zenon DEF AtEnd, Nothing, Data
<1>2. \A i \in Io : /\ Sound(job, i)' = Sound(job', i) /\ Part(job, i)' = Part(job', i)
                    /\ Pad(job, i)' = Pad(job', i) /\ WriteOffset(job, i)' = WriteOffset(job', i)
  BY <1>0, Zenon DEF Sound, OutTakes, BdevTakes, WriteOffset, CeilBlock, Part, Pad
<1>3. \A y : Source(y)' = Source(y) /\ Meant(y)' = Meant(y)
  BY <1>0, Zenon DEF Source, Meant, Region
<1>4. Plan(job)'
  BY <1>0, <1>1, <1>2, Zenon DEF Plan, Busy
<1>5. ASSUME ~lost' PROVE Held(job, buf, out)'
  <2>1. Covered(job', out') => Covered(job, out)'
    BY <1>0, <1>2, <1>3, Zenon DEF Covered, InPlace, Busy
  <2>2. Grown(job') => Grown(job)'
    BY <1>0, Zenon DEF Grown
  <2>3. Held(job', buf', out')
    BY <1>5, Zenon
  <2>4. ASSUME NEW i \in Io, job'.st[i] \in {"read", "write"}, NEW k \in Pad(job, i)'
        PROVE  buf'[i][k] = out'[WriteOffset(job, i)' + k]
    BY <1>2, <2>3, <2>4, Zenon DEF Held
  <2>5. ASSUME NEW i \in Io, job'.st[i] = "write", NEW k \in 0 .. job'.len[i] - 1
        PROVE  buf'[i][k] = Source(job.off[i] + k)'
    BY <1>3, <2>3, <2>5, Zenon DEF Held, Source
  <2>6. \A y \in Blocks : ~Meant(y)' => out'[y] = 0
    BY <1>3, <2>3, Zenon DEF Held
  <2>7. ~Stop(job)' => Covered(job, out)' /\ (~mode'.outb => Grown(job)')
    BY <1>0, <2>1, <2>2, <2>3, Zenon DEF Held
  <2> QED BY <2>4, <2>5, <2>6, <2>7, Zenon DEF Held
<1> QED BY <1>4, <1>5, Zenon DEF CopyInv

\* The same the other way round, for the parts of Core.
LEMMA CoreUnprimed ==
  ASSUME mode' = mode, data' = data, intr' = intr, DdInv'
  PROVE  Core(job', {})
BY Zenon DEF DdInv, Core, Counts, Ranges, Apart, Shut, OnData, Faulty, Stop, InAir, Busy, Plain

\* The model of the output has room for every block that is written.
LEMMA BlocksHold ==
  ASSUME ModeOK, NEW y \in Nat
  PROVE  y <= OutStart + Size \/ y <= OutSize => y \in Blocks
BY Places DEF Blocks

\* What a handler makes of a job it makes of one that was longer in coming.
LEMMA TookFrom ==
  ASSUME NEW j, NEW d, NEW i \in Io, NEW k, Took(d, i, k), j.size \in Int, d.size \in Int, k.size \in Int,
         d.pos = j.pos, d.off = j.off, d.len = j.len, d.st = j.st, d.exits = j.exits,
         d.size >= j.size, j.error => d.error
  PROVE  Took(j, i, k)
<1>1. k.size >= j.size /\ (j.error => k.error)
  BY DEF Took
<1>2. \A n \in Io \ {i} : Alike(j, n, k)
  BY Zenon DEF Took, Alike
<1>3. i \in Busy(k) => Fresh(j, i, k)
  BY Zenon DEF Took, Fresh
<1> QED BY <1>1, <1>2, <1>3, Zenon DEF Took

\* A step whose handler takes the next range keeps the invariant, if it leaves the
\* buffers and the output alone.
LEMMA TookCopy ==
  ASSUME Plain, DdInv, CopyInv, DdInv', NEW i \in Io, i \notin Busy(job), Took(job, i, job'),
         ~Stop(job') /\ job.st[i] = "seek_hole" => i \in Busy(job'),
         mode' = mode, data' = data, intr' = intr, buf' = buf, out' = out, lost' = lost
  PROVE  CopyInv'
<1>1. ModeOK /\ job \in Job /\ job.pos >= Start /\ Plan(job) /\ Core(job', {}) /\ job' \in Job
  BY CoreUnprimed, Zenon DEF DdInv, Core, CopyInv
<1>2. Plan(job')
  BY <1>1, TookPlan, Zenon
<1>3. ASSUME ~lost' PROVE Held(job', buf', out')
  <2>1. Held(job, buf, out)
    BY <1>3, Zenon DEF CopyInv
  <2>2. Moved(job, i, job', buf, out, buf', out')
    BY <2>1, Zenon DEF Moved, Held
  <2> QED BY <1>1, <2>1, <2>2, TookHeld, Zenon
<1>4. buf' = [n \in Io |-> buf'[n]]
  BY Zenon DEF CopyInv
<1> QED BY <1>2, <1>3, <1>4, CopyPrimed, Zenon

\* One round of the loop in dd_run.
LEMMA CopyRun ==
  ASSUME Basics, Plain, DdInv, CopyInv, DdInv', NEW ok \in BOOLEAN, NEW found, dd_run(ok, found)
  PROVE  CopyInv'
<1>1. /\ next < queue_depth /\ job' = dd_target_seek(job, next, ok, found) /\ mode' = mode
      /\ data' = data /\ intr' = intr /\ lost' = lost /\ buf' = buf /\ out' = out
  BY Zenon DEF dd_run
<1>2. ModeOK /\ Core(job, {}) /\ Loop /\ job \in Job /\ next \in Nat /\ Plan(job)
  BY SMTT(30) DEF DdInv, Core, CopyInv
<1>3. next \in Io
  BY <1>1, <1>2, DepthBound, SMTT(30) DEF Io
<1>4. job.st[next] = "new"
  BY <1>2, <1>3, SMTT(30) DEF Loop
<1>5. next \notin Busy(job)
  BY <1>4, Zenon DEF Busy
<1>6. Took(job, next, job')
  <2>1. job.pos - Start <= copy_size
    BY <1>2, Zenon DEF Plan
  <2>2. ~mode.sparse /\ ~Stop(job) => job.len[next] = Unit \/ AtEnd(job)
    BY <1>2, <1>3, Zenon DEF Plan
  <2> QED BY <1>1, <1>2, <1>3, <2>1, <2>2, SeekTakes, Zenon
<1> QED BY <1>1, <1>3, <1>4, <1>5, <1>6, TookCopy, Zenon

\* The sizes are refused.
LEMMA CopyRefused ==
  ASSUME Plain, DdInv, CopyInv, DdInv', dd_run_refused
  PROVE  CopyInv'
<1> DEFINE e == [job EXCEPT !.error = TRUE]
           n == e.exits + 1
<1>1. /\ job' = dd_exit(e) /\ mode' = mode /\ data' = data
      /\ intr' = intr /\ lost' = lost /\ buf' = buf /\ out' = out
  BY Zenon DEF dd_run_refused
<1>2. job \in Job /\ Plan(job)
  BY Zenon DEF DdInv, Core, CopyInv
<1>3. /\ job'.pos = job.pos /\ job'.off = job.off /\ job'.len = job.len /\ job'.st = job.st
      /\ job'.error
  BY <1>1, <1>2, Zenon DEF dd_exit, Job
<1>4. Stop(job') /\ Busy(job') = Busy(job)
  BY <1>3, Zenon DEF Stop, Busy
<1>5. Plan(job')
  BY <1>2, <1>3, <1>4, Zenon DEF Plan, Sound, OutTakes, WriteOffset, Part
<1>6. ~lost' => Held(job', buf', out')
  <2>1. \A i \in Io : Pad(job', i) = Pad(job, i) /\ WriteOffset(job', i) = WriteOffset(job, i)
    BY <1>3, Zenon DEF Pad, WriteOffset
  <2> SUFFICES ASSUME ~lost' PROVE Held(job', buf, out)
    BY <1>1, Zenon
  <2>2. Held(job, buf, out)
    BY <1>1, Zenon DEF CopyInv
  <2>3. ASSUME NEW i \in Io, job'.st[i] \in {"read", "write"}, NEW k \in Pad(job', i)
        PROVE  buf[i][k] = out[WriteOffset(job', i) + k]
    BY <1>3, <2>1, <2>2, <2>3 DEF Held
  <2>4. ASSUME NEW i \in Io, job'.st[i] = "write", NEW k \in 0 .. job'.len[i] - 1
        PROVE  buf[i][k] = Source(job'.off[i] + k)
    BY <1>3, <2>2, <2>4, Zenon DEF Held
  <2>5. \A y \in Blocks : ~Meant(y) => out[y] = 0
    BY <2>2, Zenon DEF Held
  <2> QED BY <1>4, <2>3, <2>4, <2>5, Zenon DEF Held
<1> QED BY <1>1, <1>5, <1>6, CopyPrimed, Zenon DEF CopyInv

\* An interrupt only gives more reason to stop.
LEMMA CopyFinish ==
  ASSUME CopyInv, dd_finish
  PROVE  CopyInv'
<1>1. /\ mode' = mode /\ data' = data /\ job' = job /\ intr' = TRUE /\ lost' = lost
      /\ buf' = buf /\ out' = out
  BY Zenon DEF dd_finish
<1>2. /\ copy_size' = copy_size /\ out_block' = out_block /\ Stop(job)' /\ (Busy(job))' = Busy(job)
  BY <1>1, Zenon DEF copy_size, out_block, Stop, Busy
<1>3. \A i \in Io : /\ Sound(job, i)' = Sound(job, i) /\ Pad(job, i)' = Pad(job, i)
                    /\ WriteOffset(job, i)' = WriteOffset(job, i)
  BY <1>1, <1>2, Zenon DEF Sound, OutTakes, BdevTakes, WriteOffset, CeilBlock, Part, Pad
<1>4. \A y : Source(y)' = Source(y) /\ Meant(y)' = Meant(y)
  BY <1>1, <1>2, Zenon DEF Source, Meant, Region
<1>5. Plan(job)'
  BY <1>1, <1>2, <1>3, Zenon DEF CopyInv, Plan, Busy
<1>6. ~lost' => Held(job, buf, out)'
  BY <1>1, <1>2, <1>3, <1>4, ZenonT(30) DEF CopyInv, Held, Source
<1> QED BY <1>1, <1>5, <1>6, Zenon DEF CopyInv

\* Done changes the count alone.
LEMMA DoneLike ==
  ASSUME Basics, ModeOK, NEW j, Core(j, {}), NEW i \in InAir(j)
  PROVE  LET d == Done(j)
         IN  /\ Like(j, d) /\ d.st = j.st /\ d.exits = j.exits /\ d.error = j.error
             /\ d.seek_queue = j.seek_queue
BY DoneBack, Zenon DEF Back, Like

\* A read or write goes on from a job that differs in the count, and perhaps by an error.
LEMMA PassedFrom ==
  ASSUME NEW j, NEW d, Like(j, d), d.st = j.st, d.exits = j.exits, j.error => d.error,
         NEW i \in Io, NEW op, NEW k, Passed(d, i, op, k)
  PROVE  Passed(j, i, op, k)
BY Zenon DEF Passed, Like

\* A step whose handler goes on with a range keeps the invariant.
LEMMA PassedCopy ==
  ASSUME DdInv, CopyInv, NEW i \in Busy(job), NEW op \in {"read", "write"},
         Passed(job, i, op, job'), job'.st[i] = op => Sound(job', i),
         mode' = mode, data' = data, intr' = intr, out' = out, lost => lost',
         NEW c, buf' = [buf EXCEPT ![i] = c],
         ~lost' /\ job'.st[i] = op => \A x \in Pad(job, i) : c[x] = out[WriteOffset(job, i) + x],
         ~lost' /\ job'.st[i] = "write" => \A x \in 0 .. job.len[i] - 1 : c[x] = Source(job.off[i] + x)
  PROVE  CopyInv'
<1>1. job \in Job /\ Plan(job) /\ i \in Io /\ buf = [n \in Io |-> buf[n]]
  BY Zenon DEF DdInv, Core, CopyInv, Busy
<1>2. Plan(job')
  BY <1>1, PassedPlan, Zenon
<1>3. buf'[i] = c /\ (\A n \in Io \ {i} : buf'[n] = buf[n]) /\ buf' = [n \in Io |-> buf'[n]]
  <2> DEFINE B == [n \in Io |-> buf[n]]
  <2>1. buf' = [B EXCEPT ![i] = c]
    BY <1>1, Zenon
  <2>2. \A n \in Io : buf'[n] = IF n = i THEN c ELSE buf[n]
    BY <1>1, <2>1, Zenon
  <2> QED BY <1>1, <2>1, <2>2, Zenon
<1>4. ASSUME ~lost' PROVE Held(job', buf', out')
  <2>1. Held(job, buf, out)
    BY <1>4, Zenon DEF CopyInv
  <2>2. Pad(job', i) = Pad(job, i) /\ WriteOffset(job', i) = WriteOffset(job, i)
    BY Zenon DEF Passed, Like, Pad, WriteOffset
  <2>3. job'.st[i] = op => \A x \in Pad(job', i) : buf'[i][x] = out[WriteOffset(job', i) + x]
    BY <1>3, <1>4, <2>2, Zenon
  <2>4. job'.len = job.len /\ job'.off = job.off
    BY Zenon DEF Passed, Like
  <2>5. job'.st[i] = "write" => \A x \in 0 .. job'.len[i] - 1 : buf'[i][x] = Source(job'.off[i] + x)
    BY <1>3, <1>4, <2>4, Zenon
  <2>6. Held(job', buf', out)
    BY <1>1, <1>3, <2>1, <2>3, <2>5, PassedHeld
  <2> QED BY <2>6, Zenon
<1> QED BY <1>2, <1>3, <1>4, CopyPrimed, Zenon

\* _dd_target_populate_buffer_done.
LEMMA CopyPopulate ==
  ASSUME Basics, DdInv, CopyInv, NEW i \in Io, NEW done \in BOOLEAN, NEW ok \in BOOLEAN,
         populate_done(i, done, ok)
  PROVE  CopyInv'
<1> DEFINE d == Done(job)
           w == WriteOffset(job, i)
           c == [k \in Span(i) |-> IF done THEN out[w + k] ELSE Junk]
<1>1. /\ job.st[i] = "populate" /\ job' = dd_target_read(d, i, ok) /\ buf' = [buf EXCEPT ![i] = c]
      /\ out' = out /\ lost' = (lost \/ (~done /\ OnBdev(i))) /\ mode' = mode /\ data' = data
      /\ intr' = intr
  BY Zenon DEF populate_done, Completed
<1>2. /\ ModeOK /\ Core(job, {}) /\ job \in Job /\ i \in InAir(job) /\ i \in Busy(job) /\ Sound(job, i)
  BY <1>1, Zenon DEF DdInv, Core, InAir, Busy, Flying, CopyInv, Plan
<1>3. Like(job, d) /\ d.st = job.st /\ d.exits = job.exits /\ d.error = job.error
  BY <1>2, DoneLike, Zenon
<1> HIDE DEF d
<1>4. Passed(d, i, "read", job') /\ (job'.st[i] = "read" => InTakes(job', i))
  BY <1>1, <1>3, Passes, Zenon DEF Like
<1>5. Passed(job, i, "read", job')
  BY <1>3, <1>4, PassedFrom, Zenon
<1>6. job'.st[i] = "read" => Sound(job', i)
  <2>1. OutTakes(job, i) /\ (mode.sparse => Part(job, i) \subseteq data)
    BY <1>1, <1>2, Zenon DEF Sound
  <2>2. job'.off = job.off /\ job'.len = job.len
    BY <1>5, Zenon DEF Passed, Like
  <2>3. OutTakes(job', i) /\ (mode.sparse => Part(job', i) \subseteq data)
    BY <2>1, <2>2, Zenon DEF OutTakes, WriteOffset, Part
  <2> QED BY <1>4, <2>3, Zenon DEF Sound, InTakes
<1>7. ASSUME ~lost', job'.st[i] = "read", NEW x \in Pad(job, i)
      PROVE  c[x] = out[WriteOffset(job, i) + x]
  <2>1. job.len[i] \in Nat
    BY <1>2 DEF Job
  <2>2. mode.outb
    <3> SUFFICES ASSUME ~mode.outb PROVE FALSE
      BY Zenon
    <3>1. CeilBlock(job.len[i]) = job.len[i]
      BY <1>2, <2>1, CeilWhole DEF out_block
    <3> QED BY <1>7, <2>1, <3>1 DEF Pad
  <2>3. done
    BY <1>1, <1>7, <2>2, Zenon DEF OnBdev
  <2>4. x \in Span(i)
    <3>1. CeilBlock(job.len[i]) \in Nat
      BY <1>2, <2>1, CeilNat, Zenon
    <3> QED BY <1>7, <2>1, <3>1 DEF Pad, Span
  <2> QED BY <2>3, <2>4, Zenon
<1>8. job'.st[i] # "write"
  <2>1. job.st \in [Io -> States]
    BY <1>2, Zenon DEF Job
  <2> QED BY <1>5, <2>1, Zenon DEF Passed
<1> HIDE DEF c
<1> QED BY <1>1, <1>2, <1>5, <1>6, <1>7, <1>8, PassedCopy, Zenon

\* _dd_read_bdev_done, dd_aio_poll for a read.
LEMMA CopyRead ==
  ASSUME Basics, DdInv, CopyInv, NEW i \in Io, NEW done \in BOOLEAN, NEW ok \in BOOLEAN,
         read_done(i, done, ok)
  PROVE  CopyInv'
<1> DEFINE a == Done(job)
           short == ~mode.inb /\ (~done \/ job.off[i] + job.len[i] > Size)
           e == a.error \/ short
           d == [a EXCEPT !.error = e]
           c == [k \in Span(i) |-> IF k >= job.len[i] THEN buf[i][k]
                                   ELSE IF done THEN Source(job.off[i] + k) ELSE Junk]
<1>1. /\ job.st[i] = "read" /\ job' = dd_target_write(d, i, ok) /\ buf' = [buf EXCEPT ![i] = c]
      /\ out' = out /\ lost' = (lost \/ (~done /\ OnBdev(i))) /\ mode' = mode /\ data' = data
      /\ intr' = intr
  <2>1. buf' = [buf EXCEPT ![i] = c]
    <3>1. buf = [n \in Io |-> buf[n]]
      BY Zenon DEF CopyInv
    <3>2. buf' = [buf EXCEPT ![i] = [k \in Span(i) |-> IF k >= job.len[i] THEN @[k]
                                   ELSE IF done THEN Source(job.off[i] + k) ELSE Junk]]
      BY Zenon DEF read_done
    <3> QED BY <3>1, <3>2, Zenon
  <2> QED BY <2>1, Zenon DEF read_done, Completed
<1>2. /\ ModeOK /\ Core(job, {}) /\ job \in Job /\ i \in InAir(job) /\ i \in Busy(job) /\ Sound(job, i)
      /\ job.len[i] \in Nat
  BY <1>1, SMTT(30) DEF DdInv, Core, InAir, Busy, Flying, CopyInv, Plan, Job
<1>3. Like(job, a) /\ a.st = job.st /\ a.exits = job.exits /\ a.error = job.error
  BY <1>2, DoneLike, Zenon
<1> HIDE DEF a
<1>4. e \in BOOLEAN /\ (job.error => e) /\ (short => e)
  BY <1>3, Zenon
<1> HIDE DEF e, short
<1>5. Like(job, d) /\ d.st = job.st /\ d.exits = job.exits /\ d.error = e
  BY <1>3, <1>4, Zenon DEF Like, Job
<1> HIDE DEF d
<1>6. Passed(d, i, "write", job') /\ (job'.st[i] = "write" => ~Stop(d) /\ OutTakes(job', i))
  BY <1>1, <1>5, Passes, Zenon DEF Like
<1>7. Passed(job, i, "write", job')
  BY <1>4, <1>5, <1>6, PassedFrom, Zenon
<1>8. job'.st[i] = "write" => ~short
  BY <1>4, <1>5, <1>6, Zenon DEF Stop
<1>9. job'.st[i] = "write" => Sound(job', i)
  <2> SUFFICES ASSUME job'.st[i] = "write" PROVE Sound(job', i)
    BY Zenon
  <2>1. mode.sparse => Part(job, i) \subseteq data
    BY <1>2, Zenon DEF Sound
  <2>2. job'.off = job.off /\ job'.len = job.len
    BY <1>7, Zenon DEF Passed, Like
  <2>3. job.off[i] + job.len[i] <= Size
    <3>1. job.off[i] \in Nat
      BY <1>2, Zenon DEF Job
    <3> QED BY <1>1, <1>2, <1>8, <3>1 DEF Sound, short
  <2> QED BY <1>6, <2>1, <2>2, <2>3, Zenon DEF Sound, Part
<1>10. Span(i) = 0 .. CeilBlock(job.len[i]) - 1 /\ CeilBlock(job.len[i]) \in Nat
       /\ CeilBlock(job.len[i]) >= job.len[i]
  BY <1>2, CeilNat, Zenon DEF Span
<1>11. ASSUME ~lost', job'.st[i] = "write", NEW x \in Pad(job, i)
      PROVE  c[x] = out[WriteOffset(job, i) + x]
  <2>1. buf[i][x] = out[WriteOffset(job, i) + x]
    BY <1>1, <1>11, Zenon DEF CopyInv, Held
  <2>2. x \in Span(i) /\ x >= job.len[i]
    BY <1>2, <1>10, <1>11 DEF Pad
  <2> QED BY <2>1, <2>2, Zenon
<1>12. ASSUME ~lost', job'.st[i] = "write", NEW x \in 0 .. job.len[i] - 1
      PROVE  c[x] = Source(job.off[i] + x)
  <2>1. done
    BY <1>1, <1>8, <1>12, Zenon DEF OnBdev, short
  <2>2. x \in Span(i) /\ ~(x >= job.len[i])
    BY <1>2, <1>10, <1>12
  <2> QED BY <2>1, <2>2, Zenon
<1> HIDE DEF c
<1> QED BY <1>1, <1>2, <1>7, <1>9, <1>11, <1>12, PassedCopy, Zenon

\* What a write changes: the blocks of the range get their blocks of the input, and
\* the rest of the last block gets what it had.
LEMMA Written ==
  ASSUME DdInv, Plan(job), Held(job, buf, out), NEW i \in Io, job.st[i] = "write", NEW done \in BOOLEAN,
         \A y \in Blocks :
           out'[y] = IF done /\ y \in WriteOffset(job, i) .. WriteOffset(job, i) + CeilBlock(job.len[i]) - 1
                     THEN buf[i][y - WriteOffset(job, i)] ELSE out[y]
  PROVE  \A y \in Blocks :
           out'[y] = IF done /\ Start + y - OutStart \in Part(job, i)
                     THEN Source(Start + y - OutStart) ELSE out[y]
<1> DEFINE w == WriteOffset(job, i)
           l == job.len[i]
           z == CeilBlock(l)
<1>1. ModeOK /\ job \in Job
  BY Zenon DEF DdInv, Core
<1>2. job.off[i] \in Nat /\ l \in Nat /\ Start \in Nat /\ OutStart \in Nat
  BY <1>1, Places DEF Job
<1>3. z \in Nat /\ z >= l
  BY <1>1, <1>2, CeilNat, Zenon
<1>4. w = OutStart + job.off[i] - Start
  BY Zenon DEF WriteOffset
<1> HIDE DEF w, z
<1> SUFFICES ASSUME NEW y \in Blocks
             PROVE  out'[y] = IF done /\ Start + y - OutStart \in Part(job, i)
                              THEN Source(Start + y - OutStart) ELSE out[y]
  BY Zenon
<1>5. y \in Int
  BY DEF Blocks
<1>6. out'[y] = IF done /\ y \in w .. w + z - 1 THEN buf[i][y - w] ELSE out[y]
  BY Zenon DEF w, z
<1>7. Start + y - OutStart \in Part(job, i) <=> y - w \in 0 .. l - 1
  BY <1>2, <1>4, <1>5 DEF Part
<1>8. CASE y - w \in 0 .. l - 1
  <2>1. y \in w .. w + z - 1
    BY <1>2, <1>3, <1>4, <1>5, <1>8
  <2>2. buf[i][y - w] = Source(job.off[i] + (y - w))
    BY <1>8, Zenon DEF Held
  <2>3. job.off[i] + (y - w) = Start + y - OutStart
    BY <1>2, <1>4, <1>5
  <2> QED BY <1>6, <1>7, <1>8, <2>1, <2>2, <2>3, Zenon
<1>9. CASE y \in w .. w + z - 1 /\ y - w \notin 0 .. l - 1
  <2>1. y - w \in Pad(job, i)
    BY <1>2, <1>3, <1>4, <1>5, <1>9 DEF Pad, z
  <2>2. buf[i][y - w] = out[w + (y - w)]
    BY <2>1, Zenon DEF Held, w
  <2>3. w + (y - w) = y
    BY <1>2, <1>4, <1>5
  <2> QED BY <1>6, <1>7, <1>9, <2>2, <2>3, Zenon
<1>10. CASE y \notin w .. w + z - 1 /\ y - w \notin 0 .. l - 1
  BY <1>6, <1>7, <1>10, Zenon
<1> QED BY <1>8, <1>9, <1>10, Zenon

\* A write spares what the others will write back.
LEMMA PadSpared ==
  ASSUME DdInv, Plan(job), NEW i \in Io, job.st[i] = "write", NEW n \in Io \ {i},
         job.st[n] \in {"read", "write"}, NEW x \in Pad(job, n)
  PROVE  LET y == WriteOffset(job, n) + x
         IN  y \in Blocks /\ Start + y - OutStart \notin Part(job, i)
<1> DEFINE w == WriteOffset(job, i)
           v == WriteOffset(job, n)
           y == v + x
<1>1. ModeOK /\ job \in Job /\ i \in Busy(job) /\ n \in Busy(job) /\ n \in Io
  BY Zenon DEF DdInv, Core, Busy
<1>2. /\ job.off[i] \in Nat /\ job.len[i] \in Nat /\ job.off[n] \in Nat /\ job.len[n] \in Nat
      /\ Start \in Nat /\ OutStart \in Nat /\ job.off[n] >= Start
  <2>1. n \in Busy(job) \ {}
    BY <1>1, Zenon
  <2> QED BY <1>1, <2>1, Places DEF Job, DdInv, Core, Ranges
<1>3. /\ CeilBlock(job.len[i]) \in Nat /\ CeilBlock(job.len[i]) >= job.len[i]
      /\ CeilBlock(job.len[n]) \in Nat /\ CeilBlock(job.len[n]) >= job.len[n]
  BY <1>1, <1>2, CeilNat, Zenon
<1>4. CeilBlock(job.len[n]) # job.len[n] /\ x \in Nat /\ x < CeilBlock(job.len[n])
  BY <1>2, <1>3 DEF Pad
<1>5. job.len[n] % out_block # 0
  BY <1>1, <1>2, <1>4, CeilWhole, Zenon
<1>6. mode.outb
  BY <1>2, <1>5 DEF out_block
<1>7. OutTakes(job, i) /\ OutTakes(job, n)
  BY <1>1, <1>5, Zenon DEF Plan, Sound
<1>8. v + CeilBlock(job.len[n]) <= OutSize
  BY <1>6, <1>7, Zenon DEF OutTakes, BdevTakes
<1>9. w = OutStart + job.off[i] - Start /\ v = OutStart + job.off[n] - Start
  BY Zenon DEF WriteOffset
<1>10. w + CeilBlock(job.len[i]) <= v \/ v + CeilBlock(job.len[n]) <= w
  <2>1. Apart(job, i, n)
    BY <1>1, Zenon DEF DdInv, Core, Ranges
  <2>2. CASE job.off[i] + job.len[i] <= job.off[n]
    BY <1>1, <1>7, <2>2, RangesApart, Zenon
  <2>3. CASE job.off[n] + job.len[n] <= job.off[i]
    BY <1>1, <1>7, <2>3, RangesApart, Zenon
  <2> QED BY <2>1, <2>2, <2>3, Zenon DEF Apart
<1> HIDE DEF w, v
<1>11. y \in Nat /\ y <= OutSize
  BY <1>2, <1>3, <1>4, <1>8, <1>9
<1>12. y \in Blocks
  BY <1>1, <1>11, BlocksHold, Zenon
<1>13. Start + y - OutStart \notin Part(job, i)
  BY <1>2, <1>3, <1>4, <1>9, <1>10 DEF Part
<1> QED BY <1>12, <1>13, Zenon DEF v

\* _dd_write_bdev_done, dd_aio_poll for a write.
LEMMA CopyWrite ==
  ASSUME Basics, Plain, DdInv, CopyInv, DdInv', NEW i \in Io, NEW done \in BOOLEAN, NEW ok \in BOOLEAN,
         NEW found, write_done(i, done, ok, found)
  PROVE  CopyInv'
<1> DEFINE a == Done(job)
           w == WriteOffset(job, i)
           z == CeilBlock(job.len[i])
           end == w + z
           e == a.error \/ (~mode.outb /\ ~done)
           s == IF done /\ ~mode.outb THEN Max({a.size, end}) ELSE a.size
           d == [a EXCEPT !.error = e, !.size = s]
<1>1. /\ job.st[i] = "write" /\ job.exits = 0 /\ job' = dd_target_seek(d, i, ok, found)
      /\ out' = [o \in Blocks |-> IF done /\ o \in w .. end - 1 THEN buf[i][o - w] ELSE out[o]]
      /\ buf' = [buf EXCEPT ![i] = <<>>]
      /\ lost' = (lost \/ (~done /\ OnBdev(i))) /\ mode' = mode /\ data' = data /\ intr' = intr
  BY Zenon DEF write_done, Completed
<1>2. /\ ModeOK /\ Core(job, {}) /\ job \in Job /\ i \in InAir(job) /\ i \in Busy(job) /\ Sound(job, i)
      /\ Plan(job) /\ job.pos >= Start
  BY <1>1, Zenon DEF DdInv, Core, InAir, Busy, Flying, CopyInv, Plan
<1>3. /\ job.len[i] \in Nat /\ job.off[i] \in Nat /\ job.off[i] >= Start /\ Start \in Nat /\ OutStart \in Nat
      /\ job.size \in Nat /\ job.pos \in Nat /\ job.off[i] + job.len[i] <= job.pos /\ copy_size \in Nat
  <2>1. i \in Busy(job) \ {}
    BY <1>2, Zenon
  <2> QED BY <1>2, <2>1, Places DEF Core, Ranges, Job
<1>4. job.off[i] + job.len[i] <= Size
  BY <1>1, <1>2, Zenon DEF Sound
<1>5. Like(job, a) /\ a.st = job.st /\ a.exits = job.exits /\ a.error = job.error
  BY <1>2, DoneLike, Zenon
<1> HIDE DEF a
<1>6. z \in Nat /\ z >= job.len[i] /\ w = OutStart + job.off[i] - Start
  BY <1>2, <1>3, CeilNat, Zenon DEF WriteOffset
<1>7. s \in Nat /\ s >= job.size /\ (done /\ ~mode.outb => s >= end)
  <2> HIDE DEF w, z
  <2>1. a.size = job.size /\ end \in Nat
    BY <1>3, <1>5, <1>6 DEF Like
  <2> HIDE DEF end
  <2>2. Max({a.size, end}) = IF a.size >= end THEN a.size ELSE end
    BY <1>3, <2>1, MoreOfTwo
  <2> QED BY <1>3, <2>1, <2>2
<1>8. e \in BOOLEAN /\ (job.error => e) /\ (~mode.outb /\ ~done => e)
  BY <1>5, Zenon
<1> HIDE DEF e, s
<1>9. /\ d \in Job /\ d.pos = job.pos /\ d.off = job.off /\ d.len = job.len /\ d.st = job.st
      /\ d.exits = job.exits /\ d.error = e /\ d.size = s
  BY <1>5, <1>7, <1>8, Zenon DEF Like, Job
<1> HIDE DEF d
<1>10. Took(d, i, job')
  <2>1. Stop(job) => Stop(d)
    BY <1>8, <1>9, Zenon DEF Stop
  <2>2. /\ d.pos - Start <= copy_size
        /\ ~mode.sparse /\ ~Stop(d) => d.len[i] = Unit \/ AtEnd(d)
    BY <1>2, <1>9, <2>1, Zenon DEF Plan, AtEnd
  <2> QED BY <1>1, <1>2, <1>9, <2>2, SeekTakes, Zenon
<1>11. Core(job', {}) /\ job' \in Job /\ job'.size \in Nat
  BY <1>1, CoreUnprimed, Zenon DEF Core, Job
<1>12. Took(job, i, job')
  BY <1>3, <1>7, <1>8, <1>9, <1>10, <1>11, TookFrom
<1>13. Plan(job')
  BY <1>2, <1>11, <1>12, TookPlan, Zenon
<1>14. (\A n \in Io \ {i} : buf'[n] = buf[n]) /\ buf' = [n \in Io |-> buf'[n]]
  <2> DEFINE B == [n \in Io |-> buf[n]]
  <2>1. buf' = [B EXCEPT ![i] = <<>>]
    BY <1>1, Zenon DEF CopyInv
  <2> QED BY <2>1, Zenon
<1>15. ASSUME ~lost' PROVE Held(job', buf', out')
  <2>1. Held(job, buf, out) /\ (done \/ ~mode.outb)
    BY <1>1, <1>15, Zenon DEF CopyInv, OnBdev
  <2>2. \A y \in Blocks :
           out'[y] = IF done /\ Start + y - OutStart \in Part(job, i)
                     THEN Source(Start + y - OutStart) ELSE out[y]
    <3>1. \A y \in Blocks :
            out'[y] = IF done /\ y \in WriteOffset(job, i) .. WriteOffset(job, i) + CeilBlock(job.len[i]) - 1
                      THEN buf[i][y - WriteOffset(job, i)] ELSE out[y]
      <4>1. out' = [o \in Blocks |-> IF done /\ o \in w .. end - 1 THEN buf[i][o - w] ELSE out[o]]
        BY <1>1, Zenon
      <4>2. w = WriteOffset(job, i) /\ end - 1 = WriteOffset(job, i) + CeilBlock(job.len[i]) - 1
        <5>1. w \in Int /\ z \in Int
          BY <1>3, <1>6
        <5>2. end - 1 = w + (z - 1)
          <6> HIDE DEF w, z
          <6> QED BY <5>1
        <5> QED BY <5>2, Zenon
      <4> HIDE DEF w, end
      <4> QED BY <4>1, <4>2, Zenon
    <3> QED BY <1>1, <1>2, <2>1, <3>1, Written, Zenon
  <2>3. ASSUME NEW n \in Io \ {i}, job.st[n] \in {"read", "write"}, NEW x \in Pad(job, n)
        PROVE  out'[WriteOffset(job, n) + x] = out[WriteOffset(job, n) + x]
    <3> DEFINE y == WriteOffset(job, n) + x
    <3>1. y \in Blocks /\ Start + y - OutStart \notin Part(job, i)
      BY <1>1, <1>2, <2>3, PadSpared, Zenon
    <3> HIDE DEF y
    <3>2. out'[y] = out[y]
      BY <2>2, <3>1, Zenon
    <3> QED BY <3>2, Zenon DEF y
  <2>4. ASSUME NEW y \in Blocks, ~Meant(y)
        PROVE  out'[y] = 0
    <3>1. out[y] = 0
      BY <2>1, <2>4, Zenon DEF Held
    <3>2. y \in Int
      BY DEF Blocks
    <3>3. Start + y - OutStart \notin Part(job, i)
      <4> SUFFICES ASSUME Start + y - OutStart \in Part(job, i) PROVE FALSE
        BY Zenon
      <4>1. mode.sparse => Start + y - OutStart \in data
        BY <1>2, Zenon DEF Sound
      <4>2. job.pos - Start <= copy_size
        BY <1>2, Zenon DEF Plan
      <4>3. y \in Region
        BY <1>3, <3>2, <4>2 DEF Region, Part
      <4> QED BY <2>4, <4>1, <4>3, Zenon DEF Meant
    <3> QED BY <2>2, <3>1, <3>3, Zenon
  <2>5. ASSUME NEW x \in Nat, x >= Start, x < Size
        PROVE  out'[Place(x)] = IF done /\ x \in Part(job, i) THEN Source(x) ELSE out[Place(x)]
    <3>1. Place(x) \in Nat /\ Place(x) <= OutStart + Size
      BY <1>3, <2>5 DEF Place
    <3>2. Place(x) \in Blocks
      BY <1>2, <3>1, BlocksHold, Zenon
    <3>3. Start + Place(x) - OutStart = x
      BY <1>3 DEF Place
    <3> QED BY <2>2, <3>2, <3>3, Zenon
  <2>6. ASSUME NEW x \in Start .. job.pos - 1, InPlace(out, x)
        PROVE  InPlace(out', x)
    <3>1. x \in Nat /\ x >= Start /\ x < Size /\ out[Place(x)] = Source(x)
      BY <1>3, <2>6 DEF InPlace
    <3> QED BY <2>5, <3>1, Zenon DEF InPlace
  <2>7. ASSUME ~Stop(job') PROVE done
    <3>1. ~job'.error
      BY <2>7, Zenon DEF Stop
    <3> QED BY <1>8, <1>9, <1>10, <2>1, <3>1, Zenon DEF Took
  <2>8. ASSUME ~Stop(job'), NEW x \in Part(job, i)
        PROVE  InPlace(out', x)
    <3>1. x \in Nat /\ x >= Start /\ x < Size
      BY <1>3, <1>4 DEF Part
    <3> QED BY <2>5, <2>7, <2>8, <3>1, Zenon DEF InPlace
  <2>9. ASSUME ~Stop(job'), ~mode.outb
        PROVE  job'.size >= Place(job.off[i] + job.len[i])
    <3>1. job'.size >= s
      BY <1>9, <1>10, Zenon DEF Took
    <3> HIDE DEF w, z
    <3>2. end >= Place(job.off[i] + job.len[i]) /\ end \in Nat
      BY <1>3, <1>6 DEF Place
    <3>3. Place(job.off[i] + job.len[i]) \in Int
      BY <1>3 DEF Place
    <3> HIDE DEF end
    <3> QED BY <1>7, <1>11, <2>7, <2>9, <3>1, <3>2, <3>3
  <2>10. Moved(job, i, job', buf, out, buf', out')
    BY <1>1, <1>14, <2>3, <2>4, <2>6, <2>8, <2>9, Zenon DEF Moved
  <2> QED BY <1>2, <1>11, <1>12, <2>1, <2>10, TookHeld, Zenon
<1> QED BY <1>1, <1>13, <1>14, <1>15, CopyPrimed, Zenon

\* A dd_io leaves the queue.
LEMMA DequeueLike ==
  ASSUME NEW j, j \in Job, Tail(j.seek_queue) \in Seq(Io)
  PROVE  LET d == Dequeue(j)
         IN  /\ Like(j, d) /\ d.st = j.st /\ d.exits = j.exits /\ d.error = j.error
             /\ d.seek_queue = Tail(j.seek_queue)
<1> DEFINE t == Tail(j.seek_queue)
           d == [j EXCEPT !.seek_queue = t]
<1>1. t \in Seq(Io) /\ Dequeue(j) = d
  BY Zenon DEF Dequeue
<1> HIDE DEF t
<1>2. Like(j, d) /\ d.st = j.st /\ d.exits = j.exits /\ d.error = j.error /\ d.seek_queue = t
  BY <1>1, Zenon DEF Like, Job
<1> QED BY <1>1, <1>2, Zenon DEF t

\* _dd_bdev_seek_data_done.
LEMMA CopySeekData ==
  ASSUME Basics, Plain, DdInv, CopyInv, DdInv', NEW i \in Io, NEW ok \in BOOLEAN, seek_data_done(i, ok)
  PROVE  CopyInv'
<1> DEFINE a == Done(job)
           p == Min(Data(job.pos))
           k == [a EXCEPT !.pos = p]
           sent == (ok /\ SeekTaken(p))
<1>1. /\ job.st[i] = "seek_data" /\ mode' = mode /\ data' = data /\ intr' = intr
      /\ buf' = buf /\ out' = out /\ lost' = lost
      /\ job' = IF Stop(job) THEN ExitIfIdle(Rest(Dequeue(job), i))
                ELSE IF Data(job.pos) = {} THEN dd_finalize_output(Rest(Dequeue(a), i), ok)
                ELSE Submit(IF sent THEN k ELSE Dequeue(k), i, "seek_hole", sent)
  BY Zenon DEF seek_data_done, SoughtData
<1>2. /\ ModeOK /\ Core(job, {}) /\ Queue(job, {}) /\ job \in Job /\ i \in InAir(job)
      /\ i \in Seeking(job) /\ i \notin Busy(job) /\ Plan(job) /\ job.pos - Start <= copy_size
  BY <1>1, Zenon DEF DdInv, Core, InAir, Seeking, Busy, Flying, CopyInv, Plan
<1>3. AtHead(job, i) /\ Tail(job.seek_queue) \in Seq(Io) /\ mode.sparse
  BY <1>2, Seeker, Zenon DEF AtHead
<1>4. Like(job, a) /\ a.st = job.st /\ a.exits = job.exits /\ a.error = job.error
      /\ a.seek_queue = job.seek_queue /\ a \in Job
  BY <1>2, DoneLike, Zenon DEF Like
<1> HIDE DEF a
<1>5. ASSUME NEW j, j \in Job, j.seek_queue = job.seek_queue
      PROVE  LET d == Dequeue(j)
             IN  Like(j, d) /\ d.st = j.st /\ d.exits = j.exits /\ d.error = j.error
  BY <1>3, <1>5, DequeueLike, Zenon
<1>6. Took(job, i, job')
  <2>1. CASE Stop(job)
    <3> DEFINE d == Dequeue(job)
               r == ExitIfIdle(Rest(d, i))
    <3>1. Like(job, d) /\ d.st = job.st /\ d.exits = job.exits /\ d.error = job.error
      BY <1>2, <1>5, Zenon
    <3> HIDE DEF d
    <3>2. Like(d, r) /\ r.st = [d.st EXCEPT ![i] = "rest"] /\ r.error = d.error
      BY <3>1, RestLike, Zenon DEF Like
    <3>3. job' = r
      BY <1>1, <2>1, Zenon DEF d
    <3> HIDE DEF r
    <3>4. Like(job, r) /\ r.st = [job.st EXCEPT ![i] = "rest"] /\ r.error = job.error
      BY <3>1, <3>2, Zenon DEF Like
    <3>5. Stop(r)
      BY <2>1, <3>4, Zenon DEF Stop
    <3>6. Took(job, i, r)
      BY <1>2, <1>3, <3>4, <3>5, StillTakes, Zenon DEF Idle
    <3> QED BY <3>3, <3>6, Zenon
  <2>2. CASE ~Stop(job) /\ Data(job.pos) = {}
    <3> DEFINE d == Dequeue(a)
    <3>1. job' = dd_finalize_output(Rest(d, i), ok)
      BY <1>1, <2>2, Zenon
    <3>2. Like(a, d) /\ d.st = a.st /\ d.exits = a.exits /\ d.error = a.error
      BY <1>4, <1>5, Zenon
    <3> HIDE DEF d
    <3>3. /\ d \in Job /\ d.pos = job.pos /\ d.off = job.off /\ d.len = job.len /\ d.st = job.st
          /\ d.exits = job.exits /\ d.error = job.error /\ d.size = job.size
      BY <1>4, <3>2, Zenon DEF Like
    <3>4. Took(d, i, job') /\ job' \in Job
      BY <1>2, <1>3, <2>2, <3>1, <3>3, FinalizeTakes, Zenon
    <3>5. job'.size \in Int /\ job.size \in Int /\ d.size >= job.size
      BY <1>2, <3>3, <3>4 DEF Job
    <3> QED BY <3>3, <3>4, <3>5, TookFrom, Zenon
  <2>3. CASE ~Stop(job) /\ Data(job.pos) # {}
    <3>0. job.pos \in Nat /\ Start \in Nat /\ copy_size = Size - Start /\ job.size \in Nat
          /\ job.st \in [Io -> States]
      <4>1. mode.count = 0
        BY <1>2, <1>3, Zenon DEF Plain, ModeOK
      <4> QED BY <1>2, <4>1, Places, Zenon DEF Job, copy_size
    <3>1. /\ p \in data /\ p >= job.pos /\ \A x \in job.pos .. p - 1 : x \notin data
          /\ sent \in BOOLEAN
      BY <1>2, <2>3, <3>0, Searches, SearchEnds, Zenon
    <3> HIDE DEF p, sent
    <3>2. p \in Nat /\ p < Size
      BY <1>2, <3>1 DEF ModeOK
    <3>3. /\ k \in Job /\ k.st = job.st /\ k.pos = p /\ k.exits = job.exits /\ k.error = job.error
          /\ k.size = job.size /\ k.off = job.off /\ k.len = job.len /\ k.seek_queue = job.seek_queue
      BY <1>4, <3>2, Zenon DEF Like, Job
    <3>4. job' = Submit(IF sent THEN k ELSE Dequeue(k), i, "seek_hole", sent)
      BY <1>1, <2>3, Zenon
    <3> HIDE DEF k
    <3> DEFINE m == IF sent THEN k ELSE Dequeue(k)
    <3>5. Like(k, m) /\ m.st = k.st /\ m.exits = k.exits /\ m.error = k.error
      BY <1>5, <3>3, Zenon DEF Like
    <3> HIDE DEF m
    <3>6. Sent(m, i, "seek_hole", sent, job')
      <4>1. "seek_hole" \in Flying
        BY Zenon DEF Flying
      <4>2. Sent(m, i, "seek_hole", sent, Submit(m, i, "seek_hole", sent))
        BY <3>1, <3>5, <4>1, SubmitLike, Zenon DEF Like
      <4> QED BY <3>4, <4>2, Zenon DEF m
    <3>7. /\ job'.pos = p /\ job'.size = job.size /\ job'.off = job.off /\ job'.len = job.len
          /\ (job.error => job'.error)
          /\ \/ job'.st = [job.st EXCEPT ![i] = "seek_hole"] /\ job'.exits = job.exits
             \/ job'.st = [job.st EXCEPT ![i] = "rest"] /\ job'.error
      BY <3>3, <3>5, <3>6 DEF Sent, Like
    <3>8. \A n \in Io \ {i} : Alike(job, n, job')
      BY <3>0, <3>7, Zenon DEF Alike
    <3>9. /\ job'.st[i] \in {"seek_hole", "rest"} /\ i \notin Busy(job')
          /\ ~Stop(job') => job'.st[i] = "seek_hole" /\ job'.exits = job.exits
      BY <3>0, <3>7, Zenon DEF Busy, Stop
    <3>10. job'.pos >= job.pos /\ job'.pos - Start <= copy_size /\ job'.size >= job.size
      BY <3>0, <3>1, <3>2, <3>7
    <3> QED BY <1>3, <3>1, <3>7, <3>8, <3>9, <3>10, Zenon DEF Took
  <2> QED BY <2>1, <2>2, <2>3, Zenon
<1> QED BY <1>1, <1>2, <1>6, TookCopy, Zenon

\* After dd_io i has taken a range, an idle dd_io h starts a seek, or fails to.
LEMMA TookThen ==
  ASSUME NEW j, NEW i \in Io, NEW k \in Job, Took(j, i, k), NEW h \in Io, h # i, j.st[h] \in Idle,
         NEW ok \in BOOLEAN, NEW m, Sent(k, h, "seek_data", ok, m)
  PROVE  Took(j, i, m) /\ (i \in Busy(k) => i \in Busy(m))
<1>1. /\ m.pos = k.pos /\ m.size = k.size /\ m.off = k.off /\ m.len = k.len /\ k.st \in [Io -> States]
      /\ (k.error => m.error) /\ (~m.error => m.exits = k.exits)
  BY Zenon DEF Sent, Like, Job
<1>2. m.st[h] \in Idle /\ \A n \in Io \ {h} : m.st[n] = k.st[n]
  BY <1>1, Zenon DEF Sent, Idle
<1>3. ASSUME NEW n \in Io \ {i} PROVE Alike(j, n, m)
  <2>1. Alike(j, n, k)
    BY Zenon DEF Took
  <2>2. CASE n = h
    BY <1>1, <1>2, <2>1, <2>2, Zenon DEF Alike
  <2>3. CASE n # h
    BY <1>1, <1>2, <2>1, <2>3, Zenon DEF Alike
  <2> QED BY <2>2, <2>3, Zenon
<1>4. m.st[i] = k.st[i] /\ (i \in Busy(m) <=> i \in Busy(k))
  BY <1>2, Zenon DEF Busy
<1>5. Fresh(j, i, k) => Fresh(j, i, m)
  BY <1>1, <1>4, Zenon DEF Fresh, InTakes, OutTakes, WriteOffset, Part
<1>6. (Stop(k) => Stop(m)) /\ (AtEnd(k) => AtEnd(m)) /\ (Nothing(k) => Nothing(m))
      /\ (~Stop(m) => m.exits = k.exits)
  BY <1>1, Zenon DEF Stop, AtEnd, Nothing
<1> QED BY <1>1, <1>3, <1>4, <1>5, <1>6, Zenon DEF Took

\* _dd_bdev_seek_hole_done.
LEMMA CopySeekHole ==
  ASSUME Basics, Plain, DdInv, CopyInv, DdInv', NEW i \in Io, NEW ok \in BOOLEAN, NEW okNext \in BOOLEAN,
         seek_hole_done(i, ok, okNext)
  PROVE  CopyInv'
<1> DEFINE d == Dequeue(job)
           j == Done(d)
           k == dd_target_populate_buffer(FromTo(j, i, j.pos, BdevHole(job.pos)), i, ok)
           h == Head(k.seek_queue)
<1>1. /\ job.st[i] = "seek_hole" /\ mode' = mode /\ data' = data /\ intr' = intr
      /\ buf' = buf /\ out' = out /\ lost' = lost
      /\ job' = IF Stop(job) THEN ExitIfIdle(Rest(d, i))
                ELSE IF k.seek_queue # <<>> /\ k.pos < Size
                THEN Submit(k, h, "seek_data", okNext)
                ELSE k
  BY Zenon DEF seek_hole_done, SoughtHole
<1>2. /\ ModeOK /\ Core(job, {}) /\ Queue(job, {}) /\ job \in Job /\ i \in InAir(job)
      /\ i \in Seeking(job) /\ i \notin Busy(job) /\ Plan(job) /\ job.pos - Start <= copy_size
  BY <1>1, Zenon DEF DdInv, Core, InAir, Seeking, Busy, Flying, CopyInv, Plan
<1>3. AtHead(job, i) /\ Tail(job.seek_queue) \in Seq(Io) /\ mode.sparse /\ mode.inb
  BY <1>2, Seeker, Zenon DEF AtHead
<1>4. /\ Like(job, d) /\ d.st = job.st /\ d.exits = job.exits /\ d.error = job.error
      /\ d.seek_queue = Tail(job.seek_queue)
  BY <1>2, <1>3, DequeueLike, Zenon
<1>5. Core(d, {}) /\ i \in InAir(d)
  BY <1>2, <1>3, DequeueShorter, CoreShorterAll, Zenon
<1> HIDE DEF d
<1>6. CASE Stop(job)
  <2> DEFINE r == ExitIfIdle(Rest(d, i))
  <2>1. Like(d, r) /\ r.st = [d.st EXCEPT ![i] = "rest"] /\ r.error = d.error
    BY <1>4, RestLike, Zenon DEF Like
  <2>2. job' = r
    BY <1>1, <1>6, Zenon
  <2> HIDE DEF r
  <2>3. Like(job, r) /\ r.st = [job.st EXCEPT ![i] = "rest"] /\ r.error = job.error
    BY <1>4, <2>1, Zenon DEF Like
  <2>4. Stop(r)
    BY <1>6, <2>3, Zenon DEF Stop
  <2>5. Took(job, i, r)
    BY <1>2, <1>3, <2>3, <2>4, StillTakes, Zenon DEF Idle
  <2> QED BY <1>1, <1>2, <2>2, <2>4, <2>5, TookCopy, Zenon
<1>7. CASE ~Stop(job)
  <2>1. /\ Like(d, j) /\ j.st = d.st /\ j.exits = d.exits /\ j.error = d.error /\ j.seek_queue = d.seek_queue
    BY <1>2, <1>5, DoneLike, Zenon
  <2>2. job' = IF k.seek_queue # <<>> /\ k.pos < Size THEN Submit(k, h, "seek_data", okNext) ELSE k
    BY <1>1, <1>7, Zenon
  <2> HIDE DEF j
  <2>3. /\ j \in Job /\ j.pos = job.pos /\ j.off = job.off /\ j.len = job.len /\ j.st = job.st
        /\ j.exits = job.exits /\ j.error = job.error /\ j.size = job.size
        /\ j.seek_queue = Tail(job.seek_queue)
    BY <1>4, <2>1, Zenon DEF Like
  <2>4. j.pos \in data
    <3>1. i \in Io \ {}
      BY Zenon
    <3> QED BY <1>1, <1>2, <1>3, <2>3, <3>1, Zenon DEF Core, OnData
  <2>5. /\ Took(j, i, k) /\ k \in Job /\ k.seek_queue = j.seek_queue
        /\ i \in Busy(k) \/ Stop(k)
    <3> DEFINE p == j.pos
    <3>1. p \in data /\ p >= j.pos /\ \A x \in j.pos .. p - 1 : x \notin data
      BY <2>3, <2>4 DEF Job
    <3>2. k = dd_target_populate_buffer(FromTo(j, i, p, BdevHole(p)), i, ok)
      BY <2>3, Zenon
    <3> HIDE DEF p, k
    <3>3. k = dd_target_populate_buffer(FromTo(j, i, p, NextHole(p)), i, ok)
      <4>1. dd_target_populate_buffer(FromTo(j, i, p, BdevHole(p)), i, ok)
              = dd_target_populate_buffer(FromTo(j, i, p, NextHole(p)), i, ok)
        BY <1>2, <1>3, <2>3, <3>1, HoleAlike
      <4> QED BY <3>2, <4>1, Zenon
    <3> QED BY <1>2, <1>3, <2>3, <3>1, <3>3, SearchTakes
  <2> HIDE DEF k
  <2>6. Took(job, i, k)
    <3>1. job.size \in Int /\ j.size \in Int /\ k.size \in Int /\ j.size >= job.size
      BY <1>2, <2>3, <2>5 DEF Job
    <3> QED BY <2>3, <2>5, <3>1, TookFrom, Zenon
  <2>7. CASE ~(k.seek_queue # <<>> /\ k.pos < Size)
    <3>1. job' = k
      BY <2>2, <2>7, Zenon
    <3> QED BY <1>1, <1>2, <2>5, <2>6, <3>1, TookCopy, Zenon
  <2>8. CASE k.seek_queue # <<>> /\ k.pos < Size
    <3>1. job' = Submit(k, h, "seek_data", okNext)
      BY <2>2, <2>8, Zenon
    <3>2. h \in Io /\ h # i /\ job.st[h] \in Idle
      <4>1. Queue(j, {i}) /\ Seeking(j) \subseteq {i}
        BY <1>2, <2>3, Dequeued, Zenon
      <4>2. h = k.seek_queue[1] /\ 1 \in 1 .. Len(k.seek_queue) /\ h \in Io
        BY <2>5, <2>8, SMTT(30) DEF Job
      <4> HIDE DEF h
      <4>3. h # i /\ j.st[h] \in {"queued", "rest", "seek_data", "seek_hole"}
        BY <2>5, <4>1, <4>2, Zenon DEF Queue
      <4>4. j.st[h] # "seek_hole"
        BY <4>1, <4>2, <4>3, Zenon DEF Seeking
      <4> QED BY <2>3, <4>2, <4>3, <4>4, Zenon DEF Idle
    <3> HIDE DEF h
    <3>3. Sent(k, h, "seek_data", okNext, job')
      <4>1. "seek_data" \in Flying
        BY Zenon DEF Flying
      <4> QED BY <2>5, <3>1, <3>2, <4>1, SubmitLike, Zenon
    <3>4. Took(job, i, job') /\ (i \in Busy(k) => i \in Busy(job'))
      BY <2>5, <2>6, <3>2, <3>3, TookThen
    <3>5. Stop(k) => Stop(job')
      BY <3>3, Zenon DEF Sent, Stop
    <3> QED BY <1>1, <1>2, <2>5, <3>4, <3>5, TookCopy, Zenon
  <2> QED BY <2>7, <2>8, Zenon
<1> QED BY <1>6, <1>7, Zenon

-----------------------------------------------------------------------------
(* The copy is exact *)

\* At first nothing is copied.
LEMMA CopyInit == Init => CopyInv
<1> SUFFICES ASSUME Init PROVE CopyInv
  BY Zenon
<1>1. ModeOK
  BY Zenon DEF Init, ModeOK
<1>2. Start \in Nat /\ copy_size \in Nat
  BY <1>1, Places, Zenon
<1>3. /\ job.pos = Start /\ job.exits = 0 /\ \A n \in Io : job.st[n] = "new" /\ job.len[n] = Unit
  BY Zenon DEF Init
<1>4. Busy(job) = {}
  BY <1>3, Zenon DEF Busy
<1>5. Plan(job)
  BY <1>2, <1>3, <1>4 DEF Plan
<1>6. Start .. job.pos - 1 = {}
  BY <1>2, <1>3
<1>7. Covered(job, out) /\ Grown(job)
  BY <1>3, <1>6, Zenon DEF Covered, Grown
<1>8. (\A y \in Blocks : out[y] = 0) /\ buf = [n \in Io |-> buf[n]]
  BY Zenon DEF Init
<1>9. Held(job, buf, out)
  BY <1>3, <1>7, <1>8, Zenon DEF Held
<1> QED BY <1>5, <1>8, <1>9, Zenon DEF CopyInv

\* Every step keeps the invariant.
LEMMA CopyStep ==
  ASSUME Basics, Plain, DdInv, CopyInv, DdInv', [Next]_vars
  PROVE  CopyInv'
<1>1. CASE dd_run_refused
  BY <1>1, CopyRefused, Zenon
<1>2. ASSUME NEW ok \in BOOLEAN, NEW found, dd_run(ok, found)
      PROVE  CopyInv'
  BY <1>2, CopyRun, Zenon
<1>3. ASSUME NEW i \in Io, NEW ok \in BOOLEAN, NEW done \in BOOLEAN,
             populate_done(i, done, ok) \/ read_done(i, done, ok)
      PROVE  CopyInv'
  BY <1>3, CopyPopulate, CopyRead, Zenon
<1>4. ASSUME NEW i \in Io, NEW ok \in BOOLEAN, NEW done \in BOOLEAN, NEW found,
             write_done(i, done, ok, found)
      PROVE  CopyInv'
  BY <1>4, CopyWrite, Zenon
<1>5. ASSUME NEW i \in Io, NEW ok \in BOOLEAN, seek_data_done(i, ok)
      PROVE  CopyInv'
  BY <1>5, CopySeekData, Zenon
<1>6. ASSUME NEW i \in Io, NEW ok \in BOOLEAN, NEW okNext \in BOOLEAN, seek_hole_done(i, ok, okNext)
      PROVE  CopyInv'
  BY <1>6, CopySeekHole, Zenon
<1>7. CASE dd_finish
  BY <1>7, CopyFinish, Zenon
<1>8. CASE UNCHANGED vars
  <2>1. /\ mode' = mode /\ data' = data /\ job' = job /\ intr' = intr /\ lost' = lost
        /\ buf' = buf /\ out' = out
    BY <1>8, Zenon DEF vars
  <2>2. Plan(job') /\ buf' = [i \in Io |-> buf'[i]] /\ (~lost' => Held(job', buf', out'))
    BY <2>1, Zenon DEF CopyInv
  <2> QED BY <2>1, <2>2, CopyPrimed, Zenon
<1>9. CASE Progress
  <2>1. Accepted \subseteq BOOLEAN /\ (IF "start" \in Faults THEN BOOLEAN ELSE {TRUE}) \subseteq BOOLEAN
    BY Zenon DEF Accepted
  <2>2. CASE \E ok \in IF "start" \in Faults THEN BOOLEAN ELSE {TRUE}, found \in Found : dd_run(ok, found)
    BY <1>2, <2>1, <2>2, Zenon
  <2>3. CASE \E i \in Io, ok \in Accepted :
               \/ \E done \in BOOLEAN : populate_done(i, done, ok) \/ read_done(i, done, ok)
               \/ \E done \in BOOLEAN, found \in Found : write_done(i, done, ok, found)
               \/ seek_data_done(i, ok)
               \/ \E okNext \in Accepted : seek_hole_done(i, ok, okNext)
    BY <1>3, <1>4, <1>5, <1>6, <2>1, <2>3, Zenon
  <2>4. CASE \E i \in Io, ok \in Accepted :
               \/ \E found \in {{}} \cup {{p} : p \in Stale} : seek_data_failed(i, found, ok)
               \/ \E okNext \in Accepted, hole \in Stale : seek_hole_failed(i, hole, ok, okNext)
    <3>1. astray' = TRUE
      BY <2>4, Zenon DEF seek_data_failed, seek_hole_failed
    <3>2. astray' = FALSE
      BY Zenon DEF DdInv
    <3> QED BY <3>1, <3>2, Zenon
  <2> QED BY <1>1, <1>9, <2>2, <2>3, <2>4, Zenon DEF Progress
<1> QED BY <1>7, <1>8, <1>9, Zenon DEF Next

\* What the invariant implies.
LEMMA CopyMeans ==
  ASSUME Plain, DdInv, CopyInv
  PROVE  WithinCount /\ CopyExact
<1>1. ModeOK /\ job \in Job /\ Core(job, {}) /\ Plan(job) /\ (~lost => Held(job, buf, out))
  BY Zenon DEF DdInv, Core, CopyInv
<1>2. /\ Start \in Nat /\ OutStart \in Nat /\ copy_size \in Nat /\ job.pos \in Nat /\ job.size \in Nat
      /\ job.exits \in Nat
  BY <1>1, Places, Zenon DEF Job
<1>3. WithinCount
  BY <1>1, Zenon DEF WithinCount, Held, Meant
<1>4. ASSUME Copied PROVE CopyExact
  <2>1. job.exits > 0 /\ ~Stop(job) /\ Held(job, buf, out)
    BY <1>1, <1>4, Zenon DEF Copied, Stop
  <2>2. InAir(job) = {}
    <3>1. InAir(job) \ {} = {}
      BY <1>1, <2>1, Zenon DEF Core, Shut, Faulty
    <3> QED BY <3>1, Zenon
  <2>3. Busy(job) = {} /\ \A n \in Io : job.st[n] # "seek_hole"
    BY <2>2, Zenon DEF InAir, Busy, Flying
  <2>4. AtEnd(job) \/ Nothing(job)
    BY <1>1, <2>1, Zenon DEF Plan
  <2>5. Covered(job, out) /\ (~mode.outb => Grown(job)) /\ \A y \in Blocks : ~Meant(y) => out[y] = 0
    BY <2>1, Zenon DEF Held
  <2>6. ASSUME NEW o \in Region
        PROVE  out[o] = IF mode.sparse /\ Start + o - OutStart \notin data THEN 0
                        ELSE Source(Start + o - OutStart)
    <3> DEFINE x == Start + o - OutStart
    <3>1. x \in Int /\ x >= Start /\ x < Start + copy_size /\ Place(x) = o /\ o \in Nat
      BY <1>2 DEF Region, Place
    <3>2. mode.sparse => o \in Blocks
      <4>1. mode.sparse => mode.count = 0
        BY <1>1, Zenon DEF Plain, ModeOK
      <4>2. mode.sparse => o < OutStart + Size
        BY <1>2, <3>1, <4>1 DEF copy_size
      <4> QED BY <1>1, <1>2, <3>1, <4>2, BlocksHold
    <3> HIDE DEF x
    <3>3. CASE mode.sparse /\ x \notin data
      <4>1. ~Meant(o)
        BY <3>3, Zenon DEF Meant, x
      <4> QED BY <2>5, <3>2, <3>3, <4>1, Zenon DEF x
    <3>4. CASE ~mode.sparse \/ x \in data
      <4>1. x < job.pos
        <5>1. CASE AtEnd(job)
          BY <1>2, <3>1, <5>1 DEF AtEnd
        <5>2. CASE Nothing(job)
          BY <1>2, <3>1, <3>4, <5>2 DEF Nothing, Data
        <5> QED BY <2>4, <5>1, <5>2, Zenon
      <4>2. x \in Start .. job.pos - 1
        BY <1>2, <3>1, <4>1
      <4>3. InPlace(out, x)
        BY <2>3, <2>5, <3>4, <4>2, Zenon DEF Covered
      <4> QED BY <3>1, <3>4, <4>3, Zenon DEF InPlace, x
    <3> QED BY <3>3, <3>4, Zenon
  <2>7. ~mode.outb /\ copy_size > 0 => job.size >= OutStart + copy_size
    <3>1. CASE Nothing(job)
      BY <3>1, Zenon DEF Nothing
    <3>2. CASE AtEnd(job)
      <4>1. ~(mode.sparse /\ job.pos \in data)
        <5>1. mode.sparse => mode.count = 0
          BY <1>1, Zenon DEF Plain, ModeOK
        <5>3. (mode.sparse => copy_size = Size - Start) /\ copy_size = job.pos - Start
          BY <3>2, <5>1, Zenon DEF AtEnd, copy_size
        <5>4. Size \in Nat
          OBVIOUS
        <5>2. mode.sparse => job.pos = Size
          BY <1>2, <5>3, <5>4, SameEnd, Zenon
        <5> QED BY <1>1, <5>2 DEF ModeOK
      <4>2. /\ copy_size = job.pos - Start
            /\ ~mode.outb => job.pos = Start \/ job.size >= Place(job.pos)
        BY <2>3, <2>5, <3>2, <4>1, Zenon DEF AtEnd, Grown
      <4> QED BY <1>2, <4>2 DEF Place
    <3> QED BY <2>4, <3>1, <3>2, Zenon
  <2> QED BY <2>6, <2>7, Zenon DEF CopyExact
<1> QED BY <1>3, <1>4, Zenon DEF CopyExact

-----------------------------------------------------------------------------
(* What the handlers keep.  X is the dd_io a handler is called for: its I/O has  *)
(* completed, and it is neither counted nor in the queue until it rests or has   *)
(* submitted the next.                                                           *)

\* A dd_io comes to rest, or waits in the queue.
LEMMA CoreStill ==
  ASSUME ModeOK, NEW j, NEW i \in Io, Core(j, {i}), NEW x \in {"rest", "queued"}
  PROVE  LET k == [j EXCEPT !.st[i] = x]
         IN  Core(k, {}) /\ InAir(k) = InAir(j) \ {i}
<1> DEFINE k == [j EXCEPT !.st[i] = x]
<1>1. /\ k \in Job /\ k.st = [j.st EXCEPT ![i] = x]
      /\ k.pos = j.pos /\ k.outstanding = j.outstanding /\ k.error = j.error
      /\ k.exits = j.exits /\ k.off = j.off /\ k.len = j.len
  BY Zenon DEF Core, Job, States
<1>2. InAir(k) = InAir(j) \ {i} /\ Busy(k) = Busy(j) \ {i}
  BY <1>1, Zenon DEF InAir, Busy, Flying, Core, Job
<1> HIDE DEF k
<1>3. Faulty(k) = Faulty(j)
  BY <1>1, Zenon DEF Faulty, Stop
<1>4. Counts(k, {}) /\ Shut(k, {})
  <2>1. InAir(k) \ {} = InAir(j) \ {i}
    BY <1>2, Zenon
  <2> QED BY <1>1, <1>3, <2>1, Zenon DEF Core, Counts, Shut
<1>5. Ranges(k, {})
  BY <1>1, <1>2, Zenon DEF Core, Ranges, Apart
<1>6. OnData(k, {})
  BY <1>1, ZenonT(30) DEF Core, OnData, Job
<1>7. Core(k, {}) /\ InAir(k) = InAir(j) \ {i}
  BY <1>1, <1>2, <1>4, <1>5, <1>6, Zenon DEF Core
<1> QED BY <1>7, Zenon DEF k

\* A dd_io that is put to rest is no longer under way.
LEMMA CoreRest ==
  ASSUME ModeOK, NEW j, NEW i \in Io, Core(j, {i})
  PROVE  /\ Core(Rest(j, i), {})
         /\ InAir(Rest(j, i)) = InAir(j) \ {i}
BY CoreStill, Zenon DEF Rest

\* g_error is set.
LEMMA CoreError ==
  ASSUME ModeOK, NEW j, Core(j, {})
  PROVE  LET k == [j EXCEPT !.error = TRUE]
         IN  Core(k, {}) /\ InAir(k) = InAir(j)
<1> DEFINE k == [j EXCEPT !.error = TRUE]
<1>1. /\ k \in Job /\ k.st = j.st /\ k.pos = j.pos /\ k.outstanding = j.outstanding /\ k.error = TRUE
      /\ k.exits = j.exits /\ k.off = j.off /\ k.len = j.len
  BY Zenon DEF Core, Job
<1> HIDE DEF k
<1>2. InAir(k) = InAir(j) /\ Busy(k) = Busy(j)
  BY <1>1, Zenon DEF InAir, Busy
<1>3. Faulty(j) => Faulty(k)
  BY <1>1, Zenon DEF Faulty, Stop
<1>4. Counts(k, {}) /\ Shut(k, {})
  BY <1>1, <1>2, <1>3, Zenon DEF Core, Counts, Shut
<1>5. Ranges(k, {}) /\ OnData(k, {})
  BY <1>1, <1>2, Zenon DEF Core, Ranges, Apart, OnData
<1>6. Core(k, {}) /\ InAir(k) = InAir(j)
  BY <1>1, <1>2, <1>4, <1>5, Zenon DEF Core
<1> QED BY <1>6, Zenon DEF k

\* The test for nothing outstanding finds it out, and dd_exit is called then only.
LEMMA CoreExit ==
  ASSUME Basics, ModeOK, NEW j, Core(j, {})
  PROVE  LET k == ExitIfIdle(j)
         IN  /\ Core(k, {}) /\ InAir(k) = InAir(j)
             /\ k.exits \in {j.exits, j.exits + 1}
             /\ ~Faulty(j) => InAir(k) # {} \/ k.exits > 0
<1>1. CASE j.outstanding # 0
  <2>1. ExitIfIdle(j) = j
    BY <1>1, Zenon DEF ExitIfIdle
  <2>2. ~Faulty(j) => InAir(j) # {}
    <3>1. InAir(j) \ {} = InAir(j)
      BY Zenon
    <3> QED BY <1>1, <3>1, AirCounted, Zenon DEF Core, Counts
  <2> QED BY <2>1, <2>2, Zenon
<1>2. CASE j.outstanding = 0
  <2> DEFINE k == dd_exit(j)
  <2>1. ExitIfIdle(j) = k
    BY <1>2, Zenon DEF ExitIfIdle
  <2>2. /\ k \in Job /\ k.st = j.st /\ k.pos = j.pos /\ k.outstanding = j.outstanding /\ k.error = j.error
        /\ k.exits = j.exits + 1 /\ k.exits > 0 /\ k.off = j.off /\ k.len = j.len
    <3> DEFINE e == j.exits + 1
    <3>1. j \in Job /\ e \in Nat /\ e > 0
      BY SMTT(30) DEF Core, Job
    <3>2. k = [j EXCEPT !.exits = e]
      BY Zenon DEF dd_exit
    <3> HIDE DEF e, k
    <3>3. /\ k \in Job /\ k.st = j.st /\ k.pos = j.pos /\ k.outstanding = j.outstanding
          /\ k.error = j.error /\ k.exits = e /\ k.off = j.off /\ k.len = j.len
      BY <3>1, <3>2, Zenon DEF Job
    <3> QED BY <3>1, <3>3, Zenon DEF e
  <2> HIDE DEF k
  <2>3. InAir(k) = InAir(j) /\ Busy(k) = Busy(j)
    BY <2>2, Zenon DEF InAir, Busy
  <2>4. Faulty(j) = Faulty(k)
    BY <2>2, Zenon DEF Faulty, Stop
  <2>5. InAir(j) = {}
    <3>1. InAir(j) \ {} = InAir(j)
      BY Zenon
    <3> QED BY <1>2, <3>1, AirCounted DEF Core, Counts
  <2>6. Counts(k, {}) /\ Shut(k, {})
    BY <2>2, <2>3, <2>4, <2>5, Zenon DEF Core, Counts, Shut
  <2>7. Ranges(k, {}) /\ OnData(k, {})
    BY <2>2, <2>3, Zenon DEF Core, Ranges, Apart, OnData
  <2>8. Core(k, {})
    BY <2>2, <2>6, <2>7, Zenon DEF Core
  <2> QED BY <2>1, <2>2, <2>3, <2>8, Zenon
<1> QED BY <1>1, <1>2, Zenon

\* A range passed by the input position and apart from the others'.
Fits(j, i) ==
  /\ j.off[i] >= Start /\ j.off[i] + j.len[i] <= j.pos
  /\ \A k \in Busy(j) \ {i} : Apart(j, i, k)

\* An operation is submitted.
Fly(j, i, op) == [j EXCEPT !.outstanding = @ + 1, !.st[i] = op]

\* An operation is counted and under way.
LEMMA CoreFly ==
  ASSUME Basics, ModeOK, NEW j, NEW i \in Io, Core(j, {i}), NEW op \in Flying,
         op \in {"populate", "read", "write"} => Fits(j, i),
         op = "seek_hole" => j.pos \in data,
         Plain => j.exits = 0 \/ Faulty(j)
  PROVE  LET k == Fly(j, i, op)
         IN  Core(k, {}) /\ InAir(k) # {} /\ k.exits = j.exits
<1> DEFINE k == Fly(j, i, op)
<1>1. /\ k \in Job /\ k.st = [j.st EXCEPT ![i] = op]
      /\ k.pos = j.pos /\ k.outstanding = j.outstanding + 1 /\ k.error = j.error
      /\ k.exits = j.exits /\ k.off = j.off /\ k.len = j.len
  <2> DEFINE n == j.outstanding + 1
  <2>1. j \in Job /\ n \in Nat
    BY SMTT(30) DEF Core, Job
  <2>2. k = [j EXCEPT !.outstanding = n, !.st[i] = op] /\ op \in States
    BY Zenon DEF Fly, Flying, States
  <2> HIDE DEF n, k
  <2>3. /\ k \in Job /\ k.st = [j.st EXCEPT ![i] = op]
        /\ k.pos = j.pos /\ k.outstanding = n /\ k.error = j.error
        /\ k.exits = j.exits /\ k.off = j.off /\ k.len = j.len
    BY <2>1, <2>2, Zenon DEF Job
  <2> QED BY <2>3, Zenon DEF n
<1> HIDE DEF k
<1>2. InAir(k) = (InAir(j) \ {i}) \cup {i}
  BY <1>1, Zenon DEF InAir, Flying, Core, Job
<1>3. Faulty(k) = Faulty(j)
  BY <1>1, Zenon DEF Faulty, Stop
<1>4. Counts(k, {})
  <2>1. InAir(j) \ {i} \in SUBSET Io /\ i \in Io \ (InAir(j) \ {i})
    BY Zenon DEF InAir
  <2>2. Cardinality(InAir(k)) = Cardinality(InAir(j) \ {i}) + 1
    BY <1>2, <2>1, Zenon DEF Basics
  <2>3. Cardinality(InAir(j) \ {i}) \in Nat
    BY <2>1, Zenon DEF Basics
  <2>4. InAir(k) \ {} = InAir(k)
    BY Zenon
  <2> QED BY <1>1, <1>3, <2>2, <2>3, <2>4, SMTT(30) DEF Core, Counts, Job
<1>5. Shut(k, {})
  BY <1>1, <1>3 DEF Core, Shut, Job
<1>6. Ranges(k, {})
  <2>1. CASE op \in {"populate", "read", "write"}
    <3>1. Busy(k) = (Busy(j) \ {i}) \cup {i}
      BY <1>1, <2>1, Zenon DEF Busy, Core, Job
    <3> QED BY <1>1, <2>1, <3>1, Zenon DEF Core, Ranges, Fits, Apart
  <2>2. CASE op \notin {"populate", "read", "write"}
    <3>1. Busy(k) = Busy(j) \ {i}
      BY <1>1, <2>2, Zenon DEF Busy, Core, Job
    <3> QED BY <1>1, <3>1, Zenon DEF Core, Ranges, Apart
  <2> QED BY <2>1, <2>2, Zenon
<1>7. OnData(k, {})
  BY <1>1 DEF Core, OnData, Job
<1>8. Core(k, {}) /\ InAir(k) # {} /\ k.exits = j.exits
  BY <1>1, <1>2, <1>4, <1>5, <1>6, <1>7, Zenon DEF Core
<1> QED BY <1>8, Zenon DEF k

\* A dd_io that is not in the queue changes to a state other than seeking.
LEMMA QueueKept ==
  ASSUME NEW j, j \in Job, NEW i \in Io, Queue(j, {i}), NEW k, NEW x,
         k.seek_queue = j.seek_queue, k.st = [j.st EXCEPT ![i] = x],
         x \notin {"seek_data", "seek_hole"}
  PROVE  Queue(k, {})
<1>1. /\ j.st \in [Io -> States] /\ j.seek_queue \in Seq(Io)
      /\ \A n \in Io : k.st[n] = IF n = i THEN x ELSE j.st[n]
  BY Zenon DEF Job
<1>2. \A a \in 1 .. Len(j.seek_queue) : j.seek_queue[a] \in Io
  BY <1>1
<1>3. Seeking(k) = Seeking(j) \ {i}
  BY <1>1, Zenon DEF Seeking
<1> QED BY <1>1, <1>2, <1>3, SMTT(30) DEF Queue

\* A dd_io that comes to rest leaves the queue as it is.
LEMMA RestQueue ==
  ASSUME NEW j, j \in Job, NEW i \in Io, Queue(j, {i})
  PROVE  Queue(Rest(j, i), {})
<1>1. Rest(j, i).seek_queue = j.seek_queue /\ Rest(j, i).st = [j.st EXCEPT ![i] = "rest"]
  BY Zenon DEF Rest, Job
<1> QED BY <1>1, QueueKept, Zenon

\* Queue looks at the queue and at the states only.
LEMMA QueueSame ==
  ASSUME NEW j, Queue(j, {}), NEW k, k.seek_queue = j.seek_queue, k.st = j.st
  PROVE  Queue(k, {})
BY DEF Queue, Seeking

\* What a handler called for dd_io i makes of job j: the parts of Core and Queue
\* hold again, dd_exit was called once at most, other dd_ios are as before, and
\* something is under way or dd_exit has been called.
Outcome(j, i, k) ==
  /\ Core(k, {}) /\ Queue(k, {})
  /\ k.exits \in {j.exits, j.exits + 1}
  /\ \A n \in Io \ {i} : k.st[n] = j.st[n] /\ k.len[n] = j.len[n]
  /\ k.st[i] # "new"
  /\ ~(mode.sparse /\ mode.inb) => InAir(k) # {} \/ k.exits > 0

\* The dd_io comes to rest, and the last one calls dd_exit.
LEMMA Rests ==
  ASSUME Basics, ModeOK, NEW j, NEW i \in Io, Core(j, {i}), Queue(Rest(j, i), {})
  PROVE  LET k == ExitIfIdle(Rest(j, i))
         IN  /\ Outcome(j, i, k) /\ k.error = j.error /\ k.pos = j.pos
             /\ k.seek_queue = j.seek_queue
<1> DEFINE r == Rest(j, i)
           k == ExitIfIdle(r)
<1>1. /\ r \in Job /\ r.st = [j.st EXCEPT ![i] = "rest"] /\ r.seek_queue = j.seek_queue
      /\ r.pos = j.pos /\ r.error = j.error /\ r.exits = j.exits /\ r.len = j.len
  BY Zenon DEF Core, Rest, Job, States
<1>2. Core(r, {})
  BY CoreRest, Zenon
<1> HIDE DEF r
<1>3. /\ Core(k, {}) /\ InAir(k) = InAir(r) /\ k.exits \in {r.exits, r.exits + 1}
      /\ ~Faulty(r) => InAir(k) # {} \/ k.exits > 0
  BY <1>2, CoreExit, Zenon
<1>4. /\ k.st = r.st /\ k.len = r.len /\ k.seek_queue = r.seek_queue /\ k.error = r.error
      /\ k.pos = r.pos
  BY <1>1, Zenon DEF ExitIfIdle, dd_exit, Job
<1> HIDE DEF k
<1>5. Queue(k, {})
  BY <1>4, QueueSame, Zenon DEF r
<1>6. \A n \in Io : k.st[n] = IF n = i THEN "rest" ELSE j.st[n]
  BY <1>1, <1>4, Zenon DEF Core, Job
<1>7. Outcome(j, i, k)
  BY <1>1, <1>3, <1>4, <1>5, <1>6, Zenon DEF Outcome, Faulty
<1> QED BY <1>1, <1>4, <1>7, Zenon DEF k, r

\* The same after an error.
LEMMA Fails ==
  ASSUME Basics, ModeOK, NEW j, NEW i \in Io, Core(j, {i}), Queue(Rest(j, i), {})
  PROVE  LET k == ExitIfIdle([Rest(j, i) EXCEPT !.error = TRUE])
         IN  /\ Outcome(j, i, k) /\ k.error /\ k.pos = j.pos
             /\ k.seek_queue = j.seek_queue
<1> DEFINE r == Rest(j, i)
           e == [r EXCEPT !.error = TRUE]
           k == ExitIfIdle(e)
<1>1. /\ r \in Job /\ r.st = [j.st EXCEPT ![i] = "rest"] /\ r.seek_queue = j.seek_queue
      /\ r.pos = j.pos /\ r.exits = j.exits /\ r.len = j.len
  BY Zenon DEF Core, Rest, Job, States
<1>2. Core(r, {})
  BY CoreRest, Zenon
<1> HIDE DEF r
<1>3. Core(e, {})
  BY <1>2, CoreError, Zenon
<1>4. /\ e \in Job /\ e.st = r.st /\ e.seek_queue = r.seek_queue
      /\ e.pos = r.pos /\ e.exits = r.exits /\ e.len = r.len /\ e.error
  BY <1>1, Zenon DEF Job
<1> HIDE DEF e
<1>5. /\ Core(k, {}) /\ InAir(k) = InAir(e) /\ k.exits \in {e.exits, e.exits + 1}
      /\ ~Faulty(e) => InAir(k) # {} \/ k.exits > 0
  BY <1>3, CoreExit, Zenon
<1>6. /\ k.st = e.st /\ k.len = e.len /\ k.seek_queue = e.seek_queue /\ k.error = e.error
      /\ k.pos = e.pos
  BY <1>4, Zenon DEF ExitIfIdle, dd_exit, Job
<1> HIDE DEF k
<1>7. Queue(k, {})
  BY <1>4, <1>6, QueueSame, Zenon DEF r
<1>8. \A n \in Io : k.st[n] = IF n = i THEN "rest" ELSE j.st[n]
  <2>1. k.st = [j.st EXCEPT ![i] = "rest"] /\ j.st \in [Io -> States]
    BY <1>1, <1>4, <1>6, Zenon DEF Core, Job
  <2> QED BY <2>1, Zenon
<1>9. Outcome(j, i, k)
  BY <1>1, <1>4, <1>5, <1>6, <1>7, <1>8, Zenon DEF Outcome, Faulty
<1> QED BY <1>1, <1>4, <1>6, <1>9, Zenon DEF k, e, r

\* Submit, for a read or a write.
LEMMA Submits ==
  ASSUME Basics, ModeOK, NEW j, NEW i \in Io, Core(j, {i}), Queue(j, {i}), Fits(j, i),
         NEW op \in {"populate", "read", "write"}, NEW ok \in BOOLEAN,
         Plain => j.exits = 0
  PROVE  LET k == Submit(j, i, op, ok)
         IN  /\ Outcome(j, i, k) /\ k.pos = j.pos /\ (k.exits = j.exits \/ k.error)
             /\ k.seek_queue = j.seek_queue
<1>1. j \in Job
  BY Zenon DEF Core
<1>2. CASE ok
  <2> DEFINE k == Fly(j, i, op)
  <2>1. Submit(j, i, op, ok) = k
    BY <1>2, Zenon DEF Submit, Fly
  <2>2. Core(k, {}) /\ InAir(k) # {} /\ k.exits = j.exits
    BY CoreFly DEF Flying
  <2>3. /\ k.st = [j.st EXCEPT ![i] = op] /\ k.seek_queue = j.seek_queue /\ k.len = j.len
        /\ k.pos = j.pos
    BY <1>1, Zenon DEF Fly, Job
  <2> HIDE DEF k
  <2>4. Queue(k, {})
    BY <1>1, <2>3, QueueKept, Zenon
  <2>5. \A n \in Io : k.st[n] = IF n = i THEN op ELSE j.st[n]
    BY <1>1, <2>3, Zenon DEF Job
  <2> QED BY <2>1, <2>2, <2>3, <2>4, <2>5, Zenon DEF Outcome
<1>3. CASE ~ok
  <2>1. Queue(Rest(j, i), {})
    BY <1>1, RestQueue, Zenon
  <2>2. Submit(j, i, op, ok) = ExitIfIdle([Rest(j, i) EXCEPT !.error = TRUE])
    BY <1>3, Zenon DEF Submit
  <2> DEFINE k == ExitIfIdle([Rest(j, i) EXCEPT !.error = TRUE])
  <2>3. Outcome(j, i, k) /\ k.error /\ k.pos = j.pos /\ k.seek_queue = j.seek_queue
    BY <2>1, Fails, Zenon
  <2> HIDE DEF k
  <2> QED BY <2>2, <2>3, Zenon DEF k
<1> QED BY <1>2, <1>3, Zenon

\* The input position goes on, and the dd_io takes another range.
LEMMA CoreMove ==
  ASSUME ModeOK, NEW j, NEW i \in Io, Core(j, {i}), NEW m, m \in Job,
         m.st = j.st, m.outstanding = j.outstanding, m.error = j.error, m.exits = j.exits,
         m.pos >= j.pos, \A n \in Io \ {i} : m.off[n] = j.off[n] /\ m.len[n] = j.len[n],
         mode.sparse /\ mode.inb => Seeking(j) \subseteq {i} \/ m.pos = j.pos
  PROVE  Core(m, {i})
<1>1. InAir(m) = InAir(j) /\ Busy(m) = Busy(j)
  BY Zenon DEF InAir, Busy
<1>2. Faulty(m) = Faulty(j)
  BY Zenon DEF Faulty, Stop
<1>3. Counts(m, {i}) /\ Shut(m, {i})
  BY <1>1, <1>2, Zenon DEF Core, Counts, Shut
<1>4. /\ Start \in Nat /\ m.pos \in Nat /\ j.pos \in Nat /\ j.pos >= Start
      /\ \A n \in Io : j.off[n] \in Nat /\ j.len[n] \in Nat
  BY Places DEF Core, Job
<1>5. Ranges(m, {i})
  <2> SUFFICES ASSUME NEW a \in Busy(j) \ {i}
               PROVE  /\ m.off[a] >= Start /\ m.off[a] + m.len[a] <= m.pos
                      /\ \A b \in Busy(j) \ {i} : a # b => Apart(m, a, b)
    BY <1>1, Zenon DEF Ranges
  <2>1. a \in Io \ {i} /\ \A b \in Busy(j) \ {i} : b \in Io \ {i}
    BY Zenon DEF Busy
  <2>2. /\ j.off[a] >= Start /\ j.off[a] + j.len[a] <= j.pos
        /\ \A b \in Busy(j) \ {i} : a # b => Apart(j, a, b)
    BY Zenon DEF Core, Ranges
  <2>3. m.off[a] >= Start /\ m.off[a] + m.len[a] <= m.pos
    BY <1>4, <2>1, <2>2
  <2>4. \A b \in Busy(j) \ {i} : a # b => Apart(m, a, b)
    BY <2>1, <2>2, Zenon DEF Apart
  <2> QED BY <2>3, <2>4, Zenon
<1>6. OnData(m, {i})
  BY Zenon DEF Core, OnData, Seeking
<1> QED BY <1>3, <1>4, <1>5, <1>6 DEF Core

\* The same, with one dd_io in the hands of its handler.
LEMMA QueueMove ==
  ASSUME NEW j, NEW i, Queue(j, {i}), NEW k, k.seek_queue = j.seek_queue, k.st = j.st
  PROVE  Queue(k, {i})
BY ZenonT(40) DEF Queue, Seeking

\* What a handler makes of a job it makes of one that differs in the dd_io it works for.
LEMMA OutcomeMove ==
  ASSUME NEW j, NEW i \in Io, NEW m, NEW k, Outcome(m, i, k), m.exits = j.exits,
         \A n \in Io \ {i} : m.st[n] = j.st[n] /\ m.len[n] = j.len[n]
  PROVE  Outcome(j, i, k)
BY Zenon DEF Outcome

\* dd_target_write and dd_target_read.
LEMMA Writes ==
  ASSUME Basics, ModeOK, NEW j, NEW i \in Io, Core(j, {i}), Queue(j, {i}), Fits(j, i),
         NEW ok \in BOOLEAN, Plain => j.exits = 0
  PROVE  LET k == dd_target_write(j, i, ok)
         IN  /\ Outcome(j, i, k) /\ k.pos = j.pos /\ (k.exits = j.exits \/ Stop(k))
             /\ k.seek_queue = j.seek_queue
<1>1. CASE Stop(j)
  <2>1. Queue(Rest(j, i), {})
    BY RestQueue, Zenon DEF Core
  <2> DEFINE k == ExitIfIdle(Rest(j, i))
  <2>2. Outcome(j, i, k) /\ k.error = j.error /\ k.pos = j.pos /\ k.seek_queue = j.seek_queue
    BY <2>1, Rests, Zenon
  <2>3. dd_target_write(j, i, ok) = k
    BY <1>1, Zenon DEF dd_target_write
  <2> HIDE DEF k
  <2> QED BY <1>1, <2>2, <2>3, Zenon DEF Stop
<1>2. CASE ~Stop(j)
  <2> DEFINE t == (ok /\ OutTakes(j, i))
             k == Submit(j, i, "write", t)
  <2>1. t \in BOOLEAN
    BY Zenon
  <2>2. dd_target_write(j, i, ok) = k
    BY <1>2, Zenon DEF dd_target_write
  <2> HIDE DEF t
  <2>3. /\ Outcome(j, i, k) /\ k.pos = j.pos /\ (k.exits = j.exits \/ k.error)
        /\ k.seek_queue = j.seek_queue
    BY <2>1, Submits, Zenon
  <2> QED BY <2>2, <2>3, Zenon DEF Stop
<1> QED BY <1>1, <1>2, Zenon

\* dd_target_read keeps the invariant.
LEMMA Reads ==
  ASSUME Basics, ModeOK, NEW j, NEW i \in Io, Core(j, {i}), Queue(j, {i}), Fits(j, i),
         NEW ok \in BOOLEAN, Plain => j.exits = 0
  PROVE  LET k == dd_target_read(j, i, ok)
         IN  /\ Outcome(j, i, k) /\ k.pos = j.pos /\ (k.exits = j.exits \/ Stop(k))
             /\ k.seek_queue = j.seek_queue
<1>1. CASE Stop(j)
  <2>1. Queue(Rest(j, i), {})
    BY RestQueue, Zenon DEF Core
  <2> DEFINE k == ExitIfIdle(Rest(j, i))
  <2>2. Outcome(j, i, k) /\ k.error = j.error /\ k.pos = j.pos /\ k.seek_queue = j.seek_queue
    BY <2>1, Rests, Zenon
  <2>3. dd_target_read(j, i, ok) = k
    BY <1>1, Zenon DEF dd_target_read
  <2> HIDE DEF k
  <2> QED BY <1>1, <2>2, <2>3, Zenon DEF Stop
<1>2. CASE ~Stop(j)
  <2> DEFINE t == (ok /\ InTakes(j, i))
             k == Submit(j, i, "read", t)
  <2>1. t \in BOOLEAN
    BY Zenon
  <2>2. dd_target_read(j, i, ok) = k
    BY <1>2, Zenon DEF dd_target_read
  <2> HIDE DEF t
  <2>3. /\ Outcome(j, i, k) /\ k.pos = j.pos /\ (k.exits = j.exits \/ k.error)
        /\ k.seek_queue = j.seek_queue
    BY <2>1, Submits, Zenon
  <2> QED BY <2>2, <2>3, Zenon DEF Stop
<1> QED BY <1>1, <1>2, Zenon

\* dd_target_populate_buffer.
LEMMA Populates ==
  ASSUME Basics, ModeOK, NEW j, NEW i \in Io, Core(j, {i}), Queue(j, {i}), NEW ok \in BOOLEAN,
         Plain => j.exits = 0 \/ Stop(j) \/ AtEnd(j),
         mode.sparse /\ mode.inb => Seeking(j) \subseteq {i}
  PROVE  LET k == dd_target_populate_buffer(j, i, ok)
         IN  /\ Outcome(j, i, k) /\ k.seek_queue = j.seek_queue
             /\ Plain /\ k.exits > 0 => Stop(k) \/ AtEnd(k) \/ j.len[i] = 0
<1> DEFINE L == Left(j, j.len[i])
           k == [j EXCEPT !.off[i] = j.pos, !.len[i] = L]
           m == [k EXCEPT !.pos = @ + k.len[i]]
           r == dd_target_populate_buffer(j, i, ok)
<1>1. /\ j \in Job /\ j.pos \in Nat /\ j.len \in [Io -> 0 .. Unit] /\ j.off \in [Io -> Nat]
      /\ j.len[i] \in 0 .. Unit /\ j.pos >= Start
  BY Zenon DEF Core, Job
<1>2. L \in 0 .. j.len[i] /\ (L = 0 <=> j.len[i] = 0 \/ AtEnd(j)) /\ L \in 0 .. Unit
  <2>1. L \in 0 .. j.len[i] /\ (L = 0 <=> j.len[i] = 0 \/ AtEnd(j))
    BY <1>1, LeftBounds, Zenon
  <2> QED BY <1>1, <2>1
<1> HIDE DEF L
<1>3. /\ k \in Job /\ k.st = j.st /\ k.seek_queue = j.seek_queue /\ k.pos = j.pos
      /\ k.outstanding = j.outstanding /\ k.error = j.error /\ k.exits = j.exits
      /\ k.off = [j.off EXCEPT ![i] = j.pos] /\ k.len = [j.len EXCEPT ![i] = L]
  BY <1>1, <1>2, Zenon DEF Job
<1>4. k.len[i] = L /\ k.off[i] = j.pos /\ \A n \in Io \ {i} : k.off[n] = j.off[n] /\ k.len[n] = j.len[n]
  BY <1>1, <1>3
<1>5. /\ m \in Job /\ m.st = j.st /\ m.seek_queue = j.seek_queue /\ m.pos = j.pos + L
      /\ m.outstanding = j.outstanding /\ m.error = j.error /\ m.exits = j.exits
      /\ m.off = k.off /\ m.len = k.len
  <2> DEFINE p == j.pos + L
  <2>1. p \in Nat
    BY <1>1, <1>2
  <2>2. m = [k EXCEPT !.pos = p]
    BY <1>3, <1>4, Zenon
  <2> HIDE DEF p, k, m
  <2>3. /\ m \in Job /\ m.st = j.st /\ m.seek_queue = j.seek_queue /\ m.pos = p
        /\ m.outstanding = j.outstanding /\ m.error = j.error /\ m.exits = j.exits
        /\ m.off = k.off /\ m.len = k.len
    BY <1>3, <2>1, <2>2, Zenon DEF Job
  <2> QED BY <2>3, Zenon DEF p
<1>6. r = IF k.len[i] = 0 \/ Stop(k) THEN ExitIfIdle(Rest(k, i))
          ELSE IF k.len[i] % out_block = 0 THEN dd_target_read(m, i, ok)
          ELSE Submit(m, i, "populate", ok /\ OutTakes(m, i))
  BY Zenon DEF dd_target_populate_buffer, L
<1> HIDE DEF k, m, r
<1>7. Core(k, {i}) /\ Queue(k, {i})
  <2>1. k.pos >= j.pos
    BY <1>1, <1>3
  <2>2. Core(k, {i})
    BY <1>3, <1>4, <2>1, CoreMove, Zenon
  <2>3. Queue(k, {i})
    BY <1>3, QueueMove, Zenon
  <2> QED BY <2>2, <2>3, Zenon
<1>8. Core(m, {i}) /\ Queue(m, {i})
  <2>1. m.pos >= j.pos
    BY <1>1, <1>2, <1>5
  <2> QED BY <1>4, <1>5, <2>1, CoreMove, QueueMove, ZenonT(30)
<1>9. CASE k.len[i] = 0 \/ Stop(k)
  <2>1. r = ExitIfIdle(Rest(k, i))
    BY <1>6, <1>9, Zenon
  <2>2. Outcome(k, i, r) /\ r.error = k.error /\ r.pos = k.pos /\ r.seek_queue = k.seek_queue
    BY <1>3, <1>7, <2>1, Rests, RestQueue, Zenon
  <2>3. Outcome(j, i, r)
    BY <1>3, <1>4, <2>2, OutcomeMove, Zenon
  <2>4. Stop(r) \/ AtEnd(r) \/ j.len[i] = 0
    BY <1>2, <1>3, <1>4, <1>9, <2>2, ZenonT(30) DEF Stop, AtEnd
  <2> QED BY <1>3, <2>2, <2>3, <2>4, Zenon DEF r
<1>10. CASE ~(k.len[i] = 0 \/ Stop(k))
  <2>1. Fits(m, i)
    <3>1. m.off[i] = j.pos /\ m.len[i] = L /\ m.pos = j.pos + L
      BY <1>4, <1>5, Zenon
    <3>2. \A n \in Busy(m) \ {i} : m.off[n] + m.len[n] <= m.off[i]
      <4> SUFFICES ASSUME NEW n \in Busy(m) \ {i} PROVE m.off[n] + m.len[n] <= m.off[i]
        BY Zenon
      <4>1. n \in Busy(j) \ {i} /\ n \in Io \ {i}
        BY <1>5, Zenon DEF Busy
      <4>2. j.off[n] + j.len[n] <= j.pos
        BY <4>1, Zenon DEF Core, Ranges
      <4> QED BY <1>4, <1>5, <3>1, <4>1, <4>2, Zenon
    <3> QED BY <1>1, <1>2, <3>1, <3>2 DEF Fits, Apart
  <2>2. Plain => m.exits = 0
    BY <1>2, <1>3, <1>4, <1>5, <1>10, Zenon DEF Stop
  <2>3. Outcome(m, i, r) /\ (r.exits = m.exits \/ Stop(r)) /\ r.seek_queue = m.seek_queue
    <3>1. CASE k.len[i] % out_block = 0
      <4>1. r = dd_target_read(m, i, ok)
        BY <1>6, <1>10, <3>1, Zenon
      <4> QED BY <1>8, <2>1, <2>2, <4>1, Reads, Zenon
    <3>2. CASE k.len[i] % out_block # 0
      <4> DEFINE t == (ok /\ OutTakes(m, i))
      <4>1. r = Submit(m, i, "populate", t) /\ t \in BOOLEAN
        BY <1>6, <1>10, <3>2, Zenon
      <4> HIDE DEF t
      <4>2. Outcome(m, i, r) /\ (r.exits = m.exits \/ r.error) /\ r.seek_queue = m.seek_queue
        BY <1>8, <2>1, <2>2, <4>1, Submits
      <4> QED BY <4>2, Zenon DEF Stop
    <3> QED BY <3>1, <3>2, Zenon
  <2>4. Outcome(j, i, r)
    BY <1>4, <1>5, <2>3, OutcomeMove, Zenon
  <2> QED BY <1>5, <2>2, <2>3, <2>4 DEF r
<1> QED BY <1>9, <1>10, Zenon

\* dd_finalize_output.
LEMMA Finalizes ==
  ASSUME Basics, ModeOK, NEW j, NEW i \in Io, Core(j, {i}), Queue(Rest(j, i), {}), NEW ok \in BOOLEAN
  PROVE  Outcome(j, i, dd_finalize_output(Rest(j, i), ok))
<1> DEFINE r == Rest(j, i)
           x == ExitIfIdle(r)
           k == dd_finalize_output(r, ok)
<1>1. Outcome(j, i, x)
  BY Rests, Zenon
<1>2. r \in Job /\ r.outstanding \in Nat /\ r.exits \in Nat /\ r.size \in Nat
  <2>1. Core(r, {})
    BY CoreRest, Zenon
  <2> QED BY <2>1, Zenon DEF Core, Job
<1>3. CASE r.outstanding > 0
  <2>0. r.outstanding # 0
    BY <1>2, <1>3
  <2>1. k = x
    BY <1>3, <2>0, Zenon DEF dd_finalize_output, ExitIfIdle
  <2> QED BY <1>1, <2>1, Zenon
<1>4. CASE ~(r.outstanding > 0)
  <2>0. r.outstanding = 0
    BY <1>2, <1>4
  <2>1. x = dd_exit(r) /\ x \in Job
    BY <1>1, <2>0, Zenon DEF ExitIfIdle, Outcome, Core
  <2> DEFINE s == Max({r.size, OutStart + copy_size})
             b == [x EXCEPT !.size = s]
             c == [x EXCEPT !.error = TRUE]
  <2>2. s \in Nat
    <3>1. OutStart + copy_size \in Nat
      BY Places
    <3> HIDE DEF r
    <3>2. s = IF r.size >= OutStart + copy_size THEN r.size ELSE OutStart + copy_size
      BY <1>2, <3>1, MoreOfTwo
    <3> QED BY <1>2, <3>1, <3>2, Zenon
  <2>3. k = x \/ k = b \/ k = c
    <3> HIDE DEF s, r
    <3>1. /\ dd_exit([r EXCEPT !.size = s]) = [dd_exit(r) EXCEPT !.size = s]
          /\ dd_exit([r EXCEPT !.error = TRUE]) = [dd_exit(r) EXCEPT !.error = TRUE]
      BY <1>2, Zenon DEF dd_exit, Job
    <3>2. k = dd_exit(r) \/ k = dd_exit([r EXCEPT !.size = s]) \/ k = dd_exit([r EXCEPT !.error = TRUE])
      BY <1>4, Zenon DEF dd_finalize_output, s
    <3> QED BY <2>1, <3>1, <3>2, Zenon
  <2> HIDE DEF s, x, k, r
  <2>4. Outcome(j, i, b)
    <3>1. /\ b \in Job /\ b.st = x.st /\ b.seek_queue = x.seek_queue /\ b.pos = x.pos
          /\ b.outstanding = x.outstanding /\ b.error = x.error /\ b.exits = x.exits
          /\ b.off = x.off /\ b.len = x.len
      BY <2>1, <2>2, Zenon DEF Job
    <3> HIDE DEF b
    <3>2. InAir(b) = InAir(x) /\ Busy(b) = Busy(x) /\ Faulty(b) = Faulty(x)
      BY <3>1, Zenon DEF InAir, Busy, Faulty, Stop
    <3>3. Core(x, {}) /\ Queue(x, {})
      BY <1>1, Zenon DEF Outcome
    <3>4. Counts(b, {}) /\ Shut(b, {})
      BY <3>1, <3>2, <3>3, Zenon DEF Core, Counts, Shut
    <3>5. Ranges(b, {}) /\ OnData(b, {})
      BY <3>1, <3>2, <3>3, Zenon DEF Core, Ranges, Apart, OnData
    <3>6. Core(b, {}) /\ Queue(b, {})
      BY <3>1, <3>3, <3>4, <3>5, QueueSame, Zenon DEF Core
    <3> QED BY <1>1, <3>1, <3>2, <3>6 DEF Outcome
  <2>5. Outcome(j, i, c)
    <3>1. c.st = x.st /\ c.seek_queue = x.seek_queue /\ c.exits = x.exits /\ c.len = x.len
      BY <2>1, Zenon DEF Job
    <3>2. Core(c, {}) /\ InAir(c) = InAir(x)
      BY <1>1, CoreError, Zenon DEF Outcome
    <3> HIDE DEF c
    <3>3. Queue(c, {})
      BY <1>1, <3>1, QueueSame, Zenon DEF Outcome
    <3> QED BY <1>1, <3>1, <3>2, <3>3 DEF Outcome
  <2> QED BY <1>1, <2>3, <2>4, <2>5, ZenonT(30) DEF k, r
<1> QED BY <1>3, <1>4, Zenon

-----------------------------------------------------------------------------
(* Seeking *)

\* The dd_io at the head may seek or rest.
LEMMA HeadQueue ==
  ASSUME NEW j, j \in Job, NEW i \in Io, AtHead(j, i), NEW k,
         NEW x \in {"rest", "seek_data", "seek_hole"},
         k.seek_queue = j.seek_queue, k.st = [j.st EXCEPT ![i] = x]
  PROVE  Queue(k, {})
<1>1. /\ j.st \in [Io -> States] /\ j.seek_queue \in Seq(Io)
      /\ \A n \in Io : k.st[n] = IF n = i THEN x ELSE j.st[n]
  BY Zenon DEF Job
<1>2. \A a \in 1 .. Len(j.seek_queue) : j.seek_queue[a] \in Io /\ (a = 1 \/ a \in 2 .. Len(j.seek_queue))
  BY <1>1
<1>3. Seeking(k) \subseteq {i}
  BY <1>1 DEF Seeking, AtHead
<1>4. \A a \in 1 .. Len(j.seek_queue) :
        k.st[j.seek_queue[a]] \in {"queued", "rest", "seek_data", "seek_hole"}
  BY <1>1, <1>2, SMTT(30) DEF AtHead
<1> QED BY <1>3, <1>4, Zenon DEF Queue, AtHead

\* Submit, for a seek.
LEMMA SubmitsSeek ==
  ASSUME Basics, ModeOK, NEW j, NEW i \in Io, Core(j, {i}), AtHead(j, i),
         NEW op \in {"seek_data", "seek_hole"}, NEW ok \in BOOLEAN,
         op = "seek_hole" => j.pos \in data,
         Plain => j.exits = 0 \/ Faulty(j)
  PROVE  LET k == Submit(j, i, op, ok)
         IN  Outcome(j, i, k) /\ k.pos = j.pos /\ (k.exits = j.exits \/ k.error)
<1>1. j \in Job
  BY Zenon DEF Core
<1>2. CASE ok
  <2> DEFINE k == Fly(j, i, op)
  <2>1. Submit(j, i, op, ok) = k
    BY <1>2, Zenon DEF Submit, Fly
  <2>2. Core(k, {}) /\ InAir(k) # {} /\ k.exits = j.exits
    BY CoreFly, Zenon DEF Flying
  <2>3. /\ k.st = [j.st EXCEPT ![i] = op] /\ k.seek_queue = j.seek_queue /\ k.len = j.len
        /\ k.pos = j.pos
    BY <1>1, Zenon DEF Fly, Job
  <2> HIDE DEF k
  <2>4. Queue(k, {})
    BY <1>1, <2>3, HeadQueue, Zenon
  <2>5. \A n \in Io : k.st[n] = IF n = i THEN op ELSE j.st[n]
    BY <1>1, <2>3, Zenon DEF Job
  <2> QED BY <2>1, <2>2, <2>3, <2>4, <2>5, Zenon DEF Outcome
<1>3. CASE ~ok
  <2>1. Queue(Rest(j, i), {})
    <3>1. Rest(j, i).seek_queue = j.seek_queue /\ Rest(j, i).st = [j.st EXCEPT ![i] = "rest"]
      BY <1>1, Zenon DEF Rest, Job
    <3> QED BY <1>1, <3>1, HeadQueue, Zenon
  <2>2. Submit(j, i, op, ok) = ExitIfIdle([Rest(j, i) EXCEPT !.error = TRUE])
    BY <1>3, Zenon DEF Submit
  <2> DEFINE k == ExitIfIdle([Rest(j, i) EXCEPT !.error = TRUE])
  <2>3. Outcome(j, i, k) /\ k.error /\ k.pos = j.pos
    BY <2>1, Fails, Zenon
  <2> HIDE DEF k
  <2> QED BY <2>2, <2>3, Zenon DEF k
<1> QED BY <1>2, <1>3, Zenon

\* FromTo: the dd_io goes on at p, up to the hole at h.
Going(j, i, p, h) ==
  /\ i \in Io /\ Core(j, {i}) /\ Queue(j, {i})
  /\ p \in Nat /\ p >= j.pos /\ h \in Nat /\ h >= p
  /\ mode.sparse /\ mode.inb => Seeking(j) \subseteq {i}

Gone(j, i, p, h, m) ==
  /\ Core(m, {i}) /\ Queue(m, {i})
  /\ m.exits = j.exits /\ m.error = j.error /\ m.st = j.st /\ m.pos = p
  /\ m.seek_queue = j.seek_queue
  /\ \A n \in Io \ {i} : m.len[n] = j.len[n]
  /\ h > p => m.len[i] # 0

\* FromTo gives the dd_io a range after all others.
LEMMA Goes ==
  ASSUME ModeOK, NEW j, NEW i, NEW p, NEW h, Going(j, i, p, h)
  PROVE  Gone(j, i, p, h, FromTo(j, i, p, h))
<1> DEFINE m == FromTo(j, i, p, h)
<1>0. /\ i \in Io /\ Core(j, {i}) /\ Queue(j, {i})
      /\ p \in Nat /\ p >= j.pos /\ h \in Nat /\ h >= p
      /\ mode.sparse /\ mode.inb => Seeking(j) \subseteq {i}
  BY Zenon DEF Going
<1> DEFINE l == Min({Unit, h - p})
<1>1. l \in 0 .. Unit /\ (h > p => l # 0)
  <2>1. Unit \in Int /\ Unit > 0 /\ h - p \in Int /\ h - p >= 0
    BY <1>0
  <2>2. l = IF Unit <= h - p THEN Unit ELSE h - p
    BY <2>1, LessOfTwo, Zenon
  <2> HIDE DEF l
  <2> QED BY <1>0, <2>1, <2>2
<1> HIDE DEF l
<1>2. j \in Job /\ j.len \in [Io -> 0 .. Unit]
  BY <1>0, Zenon DEF Core, Job
<1>3. m = [j EXCEPT !.pos = p, !.len[i] = l]
  BY Zenon DEF FromTo, l
<1> HIDE DEF m
<1>4. /\ m \in Job /\ m.st = j.st /\ m.seek_queue = j.seek_queue /\ m.pos = p
      /\ m.outstanding = j.outstanding /\ m.error = j.error /\ m.exits = j.exits
      /\ m.off = j.off /\ m.len = [j.len EXCEPT ![i] = l]
  BY <1>0, <1>1, <1>2, <1>3, Zenon DEF Job
<1>5. m.len[i] = l /\ \A n \in Io \ {i} : m.len[n] = j.len[n] /\ m.off[n] = j.off[n]
  BY <1>0, <1>2, <1>4, Zenon
<1>6. Core(m, {i})
  BY <1>0, <1>4, <1>5, CoreMove, Zenon
<1>7. Queue(m, {i})
  BY <1>0, <1>4, QueueMove, Zenon
<1>8. Gone(j, i, p, h, m)
  BY <1>1, <1>4, <1>5, <1>6, <1>7, Zenon DEF Gone
<1> QED BY <1>8, Zenon DEF m

\* A search in a file that fails.
LEMMA Misses ==
  ASSUME Basics, ModeOK, NEW j, NEW i \in Io, Core(j, {i}), Queue(Rest(j, i), {})
  PROVE  Outcome(j, i, ExitIfIdle([Rest(j, i) EXCEPT !.error = @ \/ j.outstanding = 0]))
<1> DEFINE r == Rest(j, i)
           z == (j.outstanding = 0)
<1>1. r \in Job
  BY CoreRest, Zenon DEF Core
<1> HIDE DEF r, z
<1>2. CASE z
  <2>1. [r EXCEPT !.error = r.error \/ z] = [r EXCEPT !.error = TRUE]
    BY <1>2, Zenon
  <2>2. Outcome(j, i, ExitIfIdle([r EXCEPT !.error = TRUE]))
    BY Fails, Zenon DEF r
  <2> QED BY <2>1, <2>2, Zenon DEF r, z
<1>3. CASE ~z
  <2>1. (r.error \/ z) = r.error
    BY <1>1, <1>3, Zenon DEF Job
  <2>2. [r EXCEPT !.error = r.error \/ z] = r
    BY <1>1, <2>1, Zenon DEF Job
  <2>3. Outcome(j, i, ExitIfIdle(r))
    BY Rests, Zenon DEF r
  <2> QED BY <2>2, <2>3, Zenon DEF r, z
<1> QED BY <1>2, <1>3, Zenon

\* dd_target_seek, when the input is not a bdev that is searched.
LEMMA SeeksFile ==
  ASSUME Basics, ModeOK, NEW j, NEW i \in Io, Core(j, {i}), Queue(j, {i}), NEW ok \in BOOLEAN,
         NEW found, Plain => j.exits = 0 \/ Stop(j) \/ AtEnd(j) \/ (mode.sparse /\ ~mode.inb),
         ~(mode.sparse /\ mode.inb)
  PROVE  LET k == dd_target_seek(j, i, ok, found)
         IN  /\ Outcome(j, i, k)
             /\ Plain /\ k.exits > 0 => Stop(k) \/ AtEnd(k) \/ mode.sparse \/ j.len[i] = 0
<1> DEFINE k == dd_target_seek(j, i, ok, found)
<1>1. CASE ~mode.sparse
  <2>1. k = dd_target_populate_buffer(j, i, ok)
    BY <1>1, Zenon DEF dd_target_seek
  <2> QED BY <1>1, <2>1, Populates, Zenon
<1>2. CASE mode.sparse
  <2>0. /\ j \in Job /\ j.pos \in Nat /\ j.exits \in Nat /\ j.outstanding \in Nat
        /\ j.error \in BOOLEAN /\ Queue(Rest(j, i), {}) /\ ~mode.inb
    BY <1>2, RestQueue, Zenon DEF Core, Job
  <2> SUFFICES Outcome(j, i, k)
    BY <1>2, Zenon
  <2>1. CASE AtEnd(j) \/ Stop(j)
    <3>1. k = ExitIfIdle(Rest(j, i))
      BY <1>2, <2>1, Zenon DEF dd_target_seek
    <3> QED BY <2>0, <3>1, Rests, Zenon
  <2>2. CASE ~(AtEnd(j) \/ Stop(j)) /\ (j.exits > 0 \/ found = "none")
    <3>1. k = ExitIfIdle([Rest(j, i) EXCEPT !.error = @ \/ j.outstanding = 0])
      BY <1>2, <2>0, <2>2, Zenon DEF dd_target_seek
    <3> QED BY <2>0, <3>1, Misses, Zenon
  <2>3. CASE ~(AtEnd(j) \/ Stop(j)) /\ ~(j.exits > 0 \/ found = "none") /\ Data(j.pos) = {}
    <3>1. k = dd_finalize_output(Rest(j, i), ok)
      BY <1>2, <2>0, <2>3, Zenon DEF dd_target_seek
    <3> QED BY <2>0, <3>1, Finalizes, Zenon
  <2>4. CASE ~(AtEnd(j) \/ Stop(j)) /\ ~(j.exits > 0 \/ found = "none") /\ Data(j.pos) # {}
             /\ found = "data"
    <3> DEFINE p == Min(Data(j.pos))
               m == [j EXCEPT !.pos = p]
    <3>1. k = ExitIfIdle([Rest(m, i) EXCEPT !.error = @ \/ m.outstanding = 0])
      BY <1>2, <2>0, <2>4, Zenon DEF dd_target_seek
    <3>2. p \in data /\ p >= j.pos
      BY <2>0, <2>4, Searches, Zenon
    <3> HIDE DEF p
    <3>3. p \in Nat
      BY <3>2 DEF ModeOK
    <3>4. /\ m \in Job /\ m.st = j.st /\ m.outstanding = j.outstanding /\ m.error = j.error
          /\ m.exits = j.exits /\ m.pos = p /\ m.off = j.off /\ m.len = j.len
          /\ m.seek_queue = j.seek_queue
      BY <2>0, <3>3, Zenon DEF Job
    <3> HIDE DEF m
    <3>5. Core(m, {i})
      BY <2>0, <3>2, <3>4, CoreMove, Zenon
    <3>6. Queue(Rest(m, i), {})
      BY <3>4, QueueMove, RestQueue, Zenon
    <3>7. Outcome(m, i, k)
      BY <3>1, <3>5, <3>6, Misses, Zenon
    <3> QED BY <3>4, <3>7, OutcomeMove, Zenon
  <2>5. CASE ~(AtEnd(j) \/ Stop(j)) /\ ~(j.exits > 0 \/ found = "none") /\ Data(j.pos) # {}
             /\ found # "data"
    <3> DEFINE p == Min(Data(j.pos))
               h == NextHole(p)
               m == FromTo(j, i, p, h)
    <3>1. k = dd_target_populate_buffer(m, i, ok)
      BY <1>2, <2>0, <2>5, Zenon DEF dd_target_seek
    <3>2. p \in data /\ p >= j.pos
      BY <2>0, <2>5, Searches, Zenon
    <3> HIDE DEF p
    <3>3. p \in Nat /\ p <= Size
      BY <3>2 DEF ModeOK
    <3>4. h \in p .. Size
      BY <3>3, Searches, Zenon
    <3> HIDE DEF h
    <3>5. h \in Nat /\ h >= p
      BY <3>3, <3>4, SMTT(30)
    <3>6. /\ Core(m, {i}) /\ Queue(m, {i}) /\ m.exits = j.exits /\ m.st = j.st
          /\ \A n \in Io \ {i} : m.len[n] = j.len[n]
      <4>1. Going(j, i, p, h)
        BY <3>2, <3>3, <3>5, Zenon DEF Going
      <4>2. Gone(j, i, p, h, m)
        BY <4>1, Goes, Zenon
      <4> QED BY <4>2, Zenon DEF Gone
    <3> HIDE DEF m
    <3>7. Outcome(m, i, k)
      BY <2>0, <2>5, <3>1, <3>6, Populates, SMTT(30)
    <3> QED BY <3>6, <3>7, OutcomeMove, Zenon
  <2> QED BY <2>1, <2>2, <2>3, <2>4, <2>5, Zenon
<1> QED BY <1>1, <1>2, Zenon

\* The dd_io joins the queue behind others.
LEMMA QueueJoin ==
  ASSUME NEW j, j \in Job, NEW i \in Io, Queue(j, {i}), j.seek_queue # <<>>, NEW k,
         k.seek_queue = Append(j.seek_queue, i), k.st = [j.st EXCEPT ![i] = "queued"]
  PROVE  Queue(k, {})
<1> DEFINE q == j.seek_queue
           e == Len(q) + 1
<1>1. /\ j.st \in [Io -> States] /\ q \in Seq(Io)
      /\ \A n \in Io : k.st[n] = IF n = i THEN "queued" ELSE j.st[n]
  BY Zenon DEF Job
<1>2. Len(q) \in Nat /\ Len(q) > 0
  BY <1>1
<1>3. /\ Len(k.seek_queue) = e /\ k.seek_queue[e] = i
      /\ \A a \in 1 .. Len(q) : k.seek_queue[a] = q[a] /\ q[a] \in Io /\ q[a] # i
  BY <1>1 DEF Queue
<1>4. \A a \in 1 .. e : a \in 1 .. Len(q) \/ a = e
  BY <1>2
<1>5. Seeking(k) = Seeking(j) \ {i}
  BY <1>1, Zenon DEF Seeking
<1>6. k.seek_queue # <<>> /\ k.seek_queue[1] = q[1]
  BY <1>2, <1>3, SMTT(30)
<1>7. \A a, b \in 1 .. e : k.seek_queue[a] = k.seek_queue[b] => a = b
  BY <1>3, <1>4, SMTT(30) DEF Queue
<1>8. \A a \in 1 .. e : k.st[k.seek_queue[a]] \in {"queued", "rest", "seek_data", "seek_hole"}
  BY <1>1, <1>3, <1>4, SMTT(30) DEF Queue
<1> QED BY <1>3, <1>5, <1>6, <1>7, <1>8, Zenon DEF Queue

\* dd_target_seek, when the input is a bdev that is searched.
LEMMA SeeksBdev ==
  ASSUME Basics, ModeOK, NEW j, NEW i \in Io, Core(j, {i}), Queue(j, {i}), NEW ok \in BOOLEAN,
         NEW found, Plain => j.exits = 0 \/ Stop(j) \/ AtEnd(j),
         mode.sparse /\ mode.inb
  PROVE  LET k == dd_target_seek(j, i, ok, found)
         IN  Outcome(j, i, k) /\ (Plain /\ k.exits > 0 => Stop(k) \/ AtEnd(k))
<1> DEFINE k == dd_target_seek(j, i, ok, found)
           q == [j EXCEPT !.seek_queue = Append(j.seek_queue, i)]
           x == (ok /\ SeekTaken(j.pos))
<1>0. j \in Job /\ Queue(Rest(j, i), {}) /\ j.seek_queue \in Seq(Io)
  BY RestQueue, Zenon DEF Core, Job
<1>1. CASE AtEnd(j) \/ Stop(j)
  <2>1. k = ExitIfIdle(Rest(j, i))
    BY <1>1, Zenon DEF dd_target_seek
  <2>2. Outcome(j, i, k) /\ k.error = j.error /\ k.pos = j.pos
    BY <1>0, <2>1, Rests, Zenon
  <2> HIDE DEF k
  <2>3. Stop(k) \/ AtEnd(k)
    BY <1>1, <2>2, Zenon DEF Stop, AtEnd
  <2> QED BY <2>2, <2>3, Zenon DEF k
<1>2. /\ q \in Job /\ q.seek_queue = Append(j.seek_queue, i)
      /\ q.st = j.st /\ q.pos = j.pos /\ q.outstanding = j.outstanding /\ q.error = j.error
      /\ q.exits = j.exits /\ q.off = j.off /\ q.len = j.len
  <2> DEFINE a == Append(j.seek_queue, i)
  <2>1. a \in Seq(Io)
    BY <1>0
  <2> HIDE DEF a
  <2>2. LET r == [j EXCEPT !.seek_queue = a]
        IN  /\ r \in Job /\ r.seek_queue = a
            /\ r.st = j.st /\ r.pos = j.pos /\ r.outstanding = j.outstanding /\ r.error = j.error
            /\ r.exits = j.exits /\ r.off = j.off /\ r.len = j.len
    BY <1>0, <2>1, Zenon DEF Job
  <2> QED BY <2>2, Zenon DEF a
<1>3. Core(q, {i})
  <2> HIDE DEF q
  <2>1. q.pos >= j.pos
    BY <1>2 DEF Job
  <2> QED BY <1>2, <2>1, CoreMove, Zenon
<1>4. CASE ~(AtEnd(j) \/ Stop(j)) /\ j.seek_queue = <<>>
  <2>1. k = Submit(q, i, "seek_data", x) /\ x \in BOOLEAN
    BY <1>4, Zenon DEF dd_target_seek
  <2> HIDE DEF q, k, x
  <2>2. AtHead(q, i)
    <3>1. q.seek_queue = <<i>>
      BY <1>2, <1>4
    <3>2. Seeking(q) \subseteq {i}
      BY <1>2, <1>4, Zenon DEF Queue, Seeking
    <3> QED BY <3>1, <3>2 DEF AtHead
  <2>3. Outcome(q, i, k) /\ (k.exits = q.exits \/ k.error)
    BY <1>2, <1>3, <1>4, <2>1, <2>2, SubmitsSeek, Zenon
  <2>4. Outcome(j, i, k)
    BY <1>2, <2>3, OutcomeMove, Zenon
  <2> QED BY <1>2, <1>4, <2>3, <2>4 DEF Stop, k
<1>5. CASE ~(AtEnd(j) \/ Stop(j)) /\ j.seek_queue # <<>>
  <2>1. k = [q EXCEPT !.st[i] = "queued"]
    BY <1>5, Zenon DEF dd_target_seek
  <2> HIDE DEF q
  <2>2. /\ k.st = [j.st EXCEPT ![i] = "queued"] /\ k.seek_queue = Append(j.seek_queue, i)
        /\ k.exits = j.exits /\ k.len = j.len
    BY <1>2, <2>1, Zenon DEF Job
  <2>3. Core(k, {})
    BY <1>3, <2>1, CoreStill, Zenon
  <2> HIDE DEF k
  <2>4. Queue(k, {})
    BY <1>0, <1>5, <2>2, QueueJoin, Zenon
  <2>5. \A n \in Io : k.st[n] = IF n = i THEN "queued" ELSE j.st[n]
    BY <1>0, <2>2, Zenon DEF Job
  <2> QED BY <1>5, <2>2, <2>3, <2>4, <2>5 DEF Outcome, k
<1> QED BY <1>1, <1>4, <1>5, Zenon
=============================================================================

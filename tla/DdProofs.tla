------------------------------ MODULE DdProofs ------------------------------
(***************************************************************************)
(* Proofs about DdCopy, for every size of input, output, unit and block,   *)
(* every queue depth and every choice of faults.                           *)
(***************************************************************************)
EXTENDS DdLemmas, FiniteSetTheorems, WellFoundedInduction

USE DdAssumption

-----------------------------------------------------------------------------
(* Least elements and finite sets *)

\* An element that has none before it, in a relation that is the order, is least.
LEMMA LeastOf ==
  ASSUME NEW R, NEW S, S \subseteq Nat,
         \A x, y \in Nat : <<y, x>> \in R <=> y < x,
         \E x \in S : \A y \in S : ~ (<<y, x>> \in R)
  PROVE  \E x \in S : \A y \in S : x <= y
<1>1. PICK x \in S : \A y \in S : ~ (<<y, x>> \in R)
  BY Zenon
<1>2. \A y \in S : ~ (y < x)
  BY <1>1, Zenon
<1> QED BY <1>2

\* Operations under way are finitely many.
LEMMA AirFinite ==
  ASSUME NEW j
  PROVE  /\ IsFiniteSet(InAir(j)) /\ Cardinality(InAir(j)) \in Nat
         /\ Cardinality(InAir(j)) = 0 <=> InAir(j) = {}
<1>1. IsFiniteSet(Io)
  BY FS_Interval DEF Io
<1>2. IsFiniteSet(InAir(j))
  BY <1>1, FS_Subset, Zenon DEF InAir
<1> QED BY <1>2, FS_CardinalityType, FS_EmptySet, Zenon

\* A set of naturals that is not empty has a least element, and sets of dd_ios can be
\* counted.
LEMMA BasicsHold == Basics
<1>1. ASSUME NEW S \in SUBSET Nat, S # {} PROVE \E x \in S : \A y \in S : x <= y
  <2>1. \E x \in S : \A y \in S : ~ (<<y, x>> \in OpToRel(<, Nat))
    BY <1>1, WFMin, NatLessThanWellFounded, Zenon
  <2>2. \A x, y \in Nat : <<y, x>> \in OpToRel(<, Nat) <=> y < x
    BY Zenon DEF OpToRel
  <2> QED BY <2>1, <2>2, LeastOf, Zenon
<1>2. ASSUME NEW S \in SUBSET Io
      PROVE  /\ Cardinality(S) \in Nat /\ (Cardinality(S) = 0 <=> S = {})
             /\ \A i \in Io \ S : Cardinality(S \cup {i}) = Cardinality(S) + 1
  <2>1. IsFiniteSet(Io)
    BY FS_Interval DEF Io
  <2>2. IsFiniteSet(S)
    BY <2>1, FS_Subset, Zenon
  <2> QED BY <2>2, FS_CardinalityType, FS_EmptySet, FS_AddElement, Zenon
<1> QED BY <1>1, <1>2, Zenon DEF Basics

USE BasicsHold

-----------------------------------------------------------------------------
(* Operations that come back *)

\* With it the dd_io is in the hands of its handler.
LEMMA CoreBack ==
  ASSUME ModeOK, NEW j, Core(j, {}), NEW i \in InAir(j), NEW d, Back(j, d)
  PROVE  Core(d, {i}) /\ (i \in Busy(j) => Fits(d, i))
<1>0. /\ d \in Job /\ d.st = j.st /\ d.pos = j.pos /\ d.outstanding = j.outstanding - 1
      /\ (j.error => d.error) /\ d.exits = j.exits /\ d.off = j.off /\ d.len = j.len
      /\ j.outstanding \in Nat
  BY Zenon DEF Back, Core, Job
<1>1. InAir(d) = InAir(j) /\ Busy(d) = Busy(j)
  BY <1>0, Zenon DEF InAir, Busy
<1>2. Faulty(j) => Faulty(d)
  BY <1>0, Zenon DEF Faulty, Stop
<1>3. Counts(d, {i})
  <2>1. InAir(j) \ {} = InAir(j)
    BY Zenon
  <2>2. Cardinality(InAir(j) \ {i}) = Cardinality(InAir(j)) - 1 /\ Cardinality(InAir(j)) \in Nat
    BY AirFinite, FS_RemoveElement, Zenon
  <2> QED BY <1>0, <1>1, <1>2, <2>1, <2>2 DEF Core, Counts
<1>4. Shut(d, {i})
  BY <1>0, <1>1, <1>2, Zenon DEF Core, Shut
<1>5. Ranges(d, {i}) /\ (i \in Busy(j) => Fits(d, i))
  <2>1. \A a, b \in Io : Apart(d, a, b) = Apart(j, a, b)
    BY <1>0, Zenon DEF Apart
  <2>2. Busy(j) \subseteq Io
    BY Zenon DEF Busy
  <2>3. Ranges(j, {})
    BY Zenon DEF Core
  <2>4. Ranges(d, {i})
    BY <1>0, <1>1, <2>1, <2>2, <2>3, Zenon DEF Ranges
  <2> QED BY <1>0, <1>1, <2>1, <2>2, <2>3, <2>4, Zenon DEF Ranges, Fits
<1>6. OnData(d, {i})
  BY <1>0, Zenon DEF Core, OnData
<1> QED BY <1>0, <1>3, <1>4, <1>5, <1>6, Zenon DEF Core

\* It is not in the queue if it was not a seek.
LEMMA QueueBack ==
  ASSUME NEW j, j \in Job, Queue(j, {}), NEW i \in Busy(j), NEW d, Back(j, d)
  PROVE  Queue(d, {i}) /\ Seeking(d) = Seeking(j)
<1>1. d.st = j.st /\ d.seek_queue = j.seek_queue
  BY Zenon DEF Back
<1>2. Seeking(d) = Seeking(j) /\ i \notin Seeking(j)
  BY <1>1, Zenon DEF Seeking, Busy
<1>3. \A a \in 1 .. Len(j.seek_queue) : j.seek_queue[a] # i
  BY Zenon DEF Queue, Busy
<1> QED BY <1>1, <1>2, <1>3, Zenon DEF Queue

-----------------------------------------------------------------------------
(* The steps that complete an operation *)

\* What one such step makes of the job.
Handled(j, k) ==
  /\ Core(k, {}) /\ Queue(k, {})
  /\ ~Faulty(k) => k.exits <= j.exits + 1
  /\ \A n \in Io : j.st[n] = "new" => k.st[n] = "new" /\ k.len[n] = j.len[n]
  /\ ~(mode.sparse /\ mode.inb) => InAir(k) # {} \/ k.exits > 0

\* A handler called for a dd_io that has been started is a step as DdInv needs it.
LEMMA OutcomeHandled ==
  ASSUME NEW j, j \in Job, NEW i \in Io, j.st[i] # "new", NEW d, d.exits = j.exits,
         \A n \in Io \ {i} : d.st[n] = j.st[n] /\ d.len[n] = j.len[n],
         NEW k, Outcome(d, i, k)
  PROVE  Handled(j, k)
<1>1. k.exits <= j.exits + 1
  BY SMTT(30) DEF Outcome, Job
<1> QED BY <1>1, Zenon DEF Outcome, Handled

\* _dd_target_populate_buffer_done.
LEMMA PopulateStep ==
  ASSUME ModeOK, Core(job, {}), Queue(job, {}), NEW i \in Io, NEW done \in BOOLEAN,
         NEW ok \in BOOLEAN, populate_done(i, done, ok)
  PROVE  Handled(job, job')
<1> DEFINE d == Done(job)
<1>1. /\ job.st[i] = "populate" /\ job.exits = 0 /\ job' = dd_target_read(d, i, ok)
  BY Zenon DEF populate_done, Completed
<1>2. job \in Job /\ i \in InAir(job) /\ i \in Busy(job)
  BY <1>1, Zenon DEF Core, InAir, Busy, Flying
<1>3. Back(job, d)
  BY <1>2, DoneBack, Zenon
<1> HIDE DEF d
<1>4. Core(d, {i}) /\ Fits(d, i) /\ Queue(d, {i})
  BY <1>2, <1>3, CoreBack, QueueBack, Zenon
<1>5. d.st = job.st /\ d.len = job.len /\ d.exits = job.exits
  BY <1>3, Zenon DEF Back
<1>6. Outcome(d, i, job')
  BY <1>1, <1>4, <1>5, Reads, Zenon
<1> QED BY <1>1, <1>2, <1>5, <1>6, OutcomeHandled, Zenon

\* A file's callback sets g_error, and the size of the file may grow.
LEMMA BackMore ==
  ASSUME NEW j, NEW d, Back(j, d), NEW e \in BOOLEAN, d.error => e, NEW s \in Nat
  PROVE  Back(j, [d EXCEPT !.error = e, !.size = s])
<1> DEFINE k == [d EXCEPT !.error = e, !.size = s]
<1>1. d \in Job
  BY Zenon DEF Back
<1>2. /\ k \in Job /\ k.st = d.st /\ k.seek_queue = d.seek_queue /\ k.pos = d.pos
      /\ k.outstanding = d.outstanding /\ k.error = e /\ k.exits = d.exits
      /\ k.off = d.off /\ k.len = d.len
  BY <1>1, Zenon DEF Job
<1> HIDE DEF k
<1>3. Back(j, k)
  BY <1>2, Zenon DEF Back
<1> QED BY <1>3, Zenon DEF k

\* _dd_read_bdev_done, dd_aio_poll for a read.
LEMMA ReadStep ==
  ASSUME ModeOK, Core(job, {}), Queue(job, {}), NEW i \in Io, NEW done \in BOOLEAN,
         NEW ok \in BOOLEAN, read_done(i, done, ok)
  PROVE  Handled(job, job')
<1> DEFINE c == Done(job)
           short == ~mode.inb /\ (~done \/ job.off[i] + job.len[i] > Size)
           d == [c EXCEPT !.error = c.error \/ short]
<1>1. /\ job.st[i] = "read" /\ job.exits = 0 /\ job' = dd_target_write(d, i, ok)
  BY Zenon DEF read_done, Completed
<1>2. job \in Job /\ i \in InAir(job) /\ i \in Busy(job)
  BY <1>1, Zenon DEF Core, InAir, Busy, Flying
<1>3. Back(job, c)
  BY <1>2, DoneBack, Zenon
<1> HIDE DEF c
<1>4. Back(job, d)
  <2>1. c \in Job /\ c.size \in Nat /\ c.error \in BOOLEAN
    BY <1>3, Zenon DEF Back, Job
  <2> HIDE DEF short
  <2> DEFINE e == c.error \/ short
  <2>2. e \in BOOLEAN /\ (c.error => e)
    BY Zenon DEF short
  <2>3. d = [c EXCEPT !.error = e, !.size = c.size]
    BY <2>1, Zenon DEF Job
  <2> HIDE DEF e, d
  <2>4. Back(job, [c EXCEPT !.error = e, !.size = c.size])
    BY <1>3, <2>1, <2>2, BackMore, Zenon
  <2> QED BY <2>3, <2>4, Zenon
<1> HIDE DEF d
<1>5. Core(d, {i}) /\ Fits(d, i) /\ Queue(d, {i})
  BY <1>2, <1>4, CoreBack, QueueBack, Zenon
<1>6. d.st = job.st /\ d.len = job.len /\ d.exits = job.exits
  BY <1>4, Zenon DEF Back
<1>7. Outcome(d, i, job')
  BY <1>1, <1>5, <1>6, Writes, Zenon
<1> QED BY <1>1, <1>2, <1>6, <1>7, OutcomeHandled, Zenon

\* _dd_write_bdev_done, dd_aio_poll for a write.
LEMMA WriteStep ==
  ASSUME ModeOK, Core(job, {}), Queue(job, {}), NEW i \in Io, NEW done \in BOOLEAN,
         NEW ok \in BOOLEAN, NEW found, write_done(i, done, ok, found)
  PROVE  Handled(job, job')
<1> DEFINE c == Done(job)
           end == WriteOffset(job, i) + CeilBlock(job.len[i])
           e == c.error \/ (~mode.outb /\ ~done)
           s == IF done /\ ~mode.outb THEN Max({c.size, end}) ELSE c.size
           d == [c EXCEPT !.error = e, !.size = s]
<1>1. /\ job.st[i] = "write" /\ job.exits = 0 /\ job' = dd_target_seek(d, i, ok, found)
  BY Zenon DEF write_done, Completed
<1>2. job \in Job /\ i \in InAir(job) /\ i \in Busy(job)
  BY <1>1, Zenon DEF Core, InAir, Busy, Flying
<1>3. Back(job, c)
  BY <1>2, DoneBack, Zenon
<1> HIDE DEF c
<1>4. c.size \in Nat /\ c.error \in BOOLEAN
  BY <1>3, Zenon DEF Back, Job
<1>5. e \in BOOLEAN /\ (c.error => e)
  BY Zenon
<1>6. s \in Nat
  <2>1. /\ job.off[i] \in Nat /\ job.len[i] \in Nat /\ job.off[i] >= Start
        /\ Start \in Nat /\ OutStart \in Nat
    <3>1. i \in Busy(job) \ {}
      BY <1>2, Zenon
    <3> QED BY <1>2, <3>1, Places, SMTT(30) DEF Core, Ranges, Job
  <2>2. WriteOffset(job, i) \in Nat /\ CeilBlock(job.len[i]) \in Nat
    BY <2>1, CeilNat, SMTT(30) DEF WriteOffset
  <2>3. end \in Nat
    BY <2>2, SMTT(30)
  <2> HIDE DEF end
  <2>4. Max({c.size, end}) = IF c.size >= end THEN c.size ELSE end
    BY <1>4, <2>3, MoreOfTwo
  <2> QED BY <1>4, <2>3, <2>4, Zenon
<1> HIDE DEF e, s
<1>7. Back(job, d)
  BY <1>3, <1>5, <1>6, BackMore, Zenon
<1> HIDE DEF d
<1>8. Core(d, {i}) /\ Fits(d, i) /\ Queue(d, {i})
  BY <1>2, <1>7, CoreBack, QueueBack, Zenon
<1>9. d.st = job.st /\ d.len = job.len /\ d.exits = job.exits /\ d.exits = 0
  BY <1>1, <1>7, Zenon DEF Back
<1>10. Outcome(d, i, job')
  <2>1. CASE mode.sparse /\ mode.inb
    BY <1>1, <1>8, <1>9, <2>1, SeeksBdev, Zenon
  <2>2. CASE ~(mode.sparse /\ mode.inb)
    BY <1>1, <1>8, <1>9, <2>2, SeeksFile, Zenon
  <2> QED BY <2>1, <2>2, Zenon
<1> QED BY <1>1, <1>2, <1>9, <1>10, OutcomeHandled, Zenon

\* Core does not look at the queue.
LEMMA CoreShorter ==
  ASSUME ModeOK, NEW j, NEW i \in Io, Core(j, {i}), NEW d, Shorter(j, d)
  PROVE  Core(d, {i})
<1>1. /\ d \in Job /\ d.st = j.st /\ d.pos = j.pos /\ d.outstanding = j.outstanding
      /\ d.error = j.error /\ d.exits = j.exits /\ d.off = j.off /\ d.len = j.len
  BY Zenon DEF Shorter
<1>2. d.pos >= j.pos
  BY <1>1, SMTT(30) DEF Job
<1> QED BY <1>1, <1>2, CoreMove, Zenon

\* After an error a seek leaves without being counted off.
LEMMA CoreUncounted ==
  ASSUME ModeOK, NEW j, Core(j, {}), Faulty(j), NEW i \in InAir(j)
  PROVE  Core(j, {i})
<1>1. Counts(j, {i})
  <2>1. InAir(j) \ {} = InAir(j) /\ j.outstanding \in Nat
    BY Zenon DEF Core, Job
  <2>2. Cardinality(InAir(j) \ {i}) = Cardinality(InAir(j)) - 1 /\ Cardinality(InAir(j)) \in Nat
    BY AirFinite, FS_RemoveElement, Zenon
  <2> QED BY <2>1, <2>2, SMTT(30) DEF Core, Counts
<1>2. Shut(j, {i}) /\ OnData(j, {i})
  BY Zenon DEF Core, Shut, OnData
<1>3. Ranges(j, {i})
  BY Zenon DEF Core, Ranges
<1> QED BY <1>1, <1>2, <1>3, Zenon DEF Core

\* A seek that ends after an error or an interrupt.
LEMMA StoppedSeek ==
  ASSUME ModeOK, Core(job, {}), Queue(job, {}), NEW i \in Io, i \in Seeking(job), Stop(job)
  PROVE  Handled(job, ExitIfIdle(Rest(Dequeue(job), i)))
<1> DEFINE d == Dequeue(job)
<1>1. job \in Job /\ i \in InAir(job) /\ job.st[i] # "new"
  BY Zenon DEF Core, InAir, Seeking, Flying
<1>2. AtHead(job, i) /\ Tail(job.seek_queue) \in Seq(Io)
  BY <1>1, Seeker, Zenon
<1>3. Core(job, {i})
  BY <1>1, <1>2, CoreUncounted, Zenon DEF Faulty, AtHead
<1>4. Shorter(job, d)
  BY <1>1, <1>2, DequeueShorter, Zenon
<1> HIDE DEF d
<1>5. /\ d \in Job /\ d.st = job.st /\ d.seek_queue = Tail(job.seek_queue)
      /\ d.exits = job.exits /\ d.len = job.len
  BY <1>4, Zenon DEF Shorter
<1>6. Core(d, {i})
  BY <1>3, <1>4, CoreShorter, Zenon
<1>7. Queue(d, {i})
  BY <1>1, <1>5, Dequeued, Zenon
<1>8. Queue(Rest(d, i), {})
  BY <1>5, <1>7, RestQueue, Zenon
<1>9. Outcome(d, i, ExitIfIdle(Rest(d, i)))
  BY <1>6, <1>8, Rests, Zenon
<1>10. Handled(job, ExitIfIdle(Rest(d, i)))
  BY <1>1, <1>5, <1>9, OutcomeHandled, Zenon
<1> QED BY <1>10, Zenon DEF d

\* _dd_bdev_seek_data_done.
LEMMA SeekDataStep ==
  ASSUME ModeOK, Core(job, {}), Queue(job, {}), NEW i \in Io, NEW ok \in BOOLEAN,
         seek_data_done(i, ok)
  PROVE  Handled(job, job')
<1> DEFINE c == Done(job)
           p == Min(Data(job.pos))
           k == [c EXCEPT !.pos = p]
           sent == (ok /\ SeekTaken(p))
<1>1. /\ job.st[i] = "seek_data" /\ job.exits = 0
      /\ job' = IF Stop(job) THEN ExitIfIdle(Rest(Dequeue(job), i))
                ELSE IF Data(job.pos) = {} THEN dd_finalize_output(Rest(Dequeue(c), i), ok)
                ELSE Submit(IF sent THEN k ELSE Dequeue(k), i, "seek_hole", sent)
  BY Zenon DEF seek_data_done, SoughtData
<1>2. job \in Job /\ i \in InAir(job) /\ i \in Seeking(job) /\ job.pos \in Nat
  BY <1>1, Zenon DEF Core, InAir, Seeking, Flying, Job
<1>3. CASE Stop(job)
  BY <1>1, <1>2, <1>3, StoppedSeek, Zenon
<1>4. AtHead(job, i) /\ Tail(job.seek_queue) \in Seq(Io)
  BY <1>2, Seeker, Zenon
<1>5. Back(job, c)
  BY <1>2, DoneBack, Zenon
<1> HIDE DEF c
<1>6. Core(c, {i})
  BY <1>2, <1>5, CoreBack, Zenon
<1>7. /\ c \in Job /\ c.st = job.st /\ c.len = job.len /\ c.exits = job.exits
      /\ c.seek_queue = job.seek_queue /\ c.pos = job.pos
  BY <1>5, Zenon DEF Back
<1>8. CASE ~Stop(job) /\ Data(job.pos) = {}
  <2> DEFINE d == Dequeue(c)
  <2>1. job' = dd_finalize_output(Rest(d, i), ok)
    BY <1>1, <1>8, Zenon
  <2>2. Shorter(c, d)
    BY <1>4, <1>7, DequeueShorter, Zenon
  <2> HIDE DEF d
  <2>3. /\ d \in Job /\ d.st = job.st /\ d.seek_queue = Tail(job.seek_queue)
        /\ d.exits = job.exits /\ d.len = job.len
    BY <1>7, <2>2, Zenon DEF Shorter
  <2>4. Core(d, {i})
    BY <1>6, <2>2, CoreShorter, Zenon
  <2>5. Queue(d, {i})
    BY <1>2, <2>3, Dequeued, Zenon
  <2>6. Queue(Rest(d, i), {})
    BY <2>3, <2>5, RestQueue, Zenon
  <2>7. Outcome(d, i, job')
    BY <2>1, <2>4, <2>6, Finalizes, Zenon
  <2> QED BY <1>1, <1>2, <2>3, <2>7, OutcomeHandled, Zenon
<1>9. CASE ~Stop(job) /\ Data(job.pos) # {}
  <2>1. p \in data /\ p >= job.pos /\ sent \in BOOLEAN
    BY <1>2, <1>9, Searches, Zenon
  <2> HIDE DEF p, sent
  <2>2. p \in Nat
    BY <2>1 DEF ModeOK
  <2>3. /\ k \in Job /\ k.st = c.st /\ k.seek_queue = c.seek_queue /\ k.pos = p
        /\ k.outstanding = c.outstanding /\ k.error = c.error /\ k.exits = c.exits
        /\ k.off = c.off /\ k.len = c.len
    BY <1>7, <2>2, Zenon DEF Job
  <2>4. job' = Submit(IF sent THEN k ELSE Dequeue(k), i, "seek_hole", sent)
    BY <1>1, <1>9, Zenon
  <2> HIDE DEF k
  <2>5. Seeking(c) \subseteq {i} /\ AtHead(k, i)
    <3>1. Seeking(c) = Seeking(job) /\ Seeking(k) = Seeking(job)
      BY <1>7, <2>3, Zenon DEF Seeking
    <3>2. k.seek_queue = job.seek_queue /\ k.st = job.st
      BY <1>7, <2>3, Zenon
    <3> QED BY <1>4, <3>1, <3>2, Zenon DEF AtHead
  <2>6. Core(k, {i})
    BY <1>6, <1>7, <2>1, <2>3, <2>5, CoreMove, Zenon
  <2>7. CASE sent
    <3>1. job' = Submit(k, i, "seek_hole", sent)
      BY <2>4, <2>7, Zenon
    <3>2. k.exits = 0
      BY <1>1, <1>7, <2>3, Zenon
    <3>3. Outcome(k, i, job')
      BY <2>1, <2>3, <2>5, <2>6, <3>1, <3>2, SubmitsSeek, Zenon
    <3> QED BY <1>1, <1>2, <1>7, <2>3, <3>3, OutcomeHandled, Zenon
  <2>8. CASE ~sent
    <3> DEFINE d == Dequeue(k)
    <3>1. job' = ExitIfIdle([Rest(d, i) EXCEPT !.error = TRUE])
      BY <2>4, <2>8, Zenon DEF Submit
    <3>2. Shorter(k, d)
      BY <1>4, <1>7, <2>3, DequeueShorter, Zenon
    <3> HIDE DEF d
    <3>3. /\ d \in Job /\ d.st = job.st /\ d.seek_queue = Tail(job.seek_queue)
          /\ d.exits = job.exits /\ d.len = job.len
      BY <1>7, <2>3, <3>2, Zenon DEF Shorter
    <3>4. Core(d, {i})
      BY <2>6, <3>2, CoreShorter, Zenon
    <3>5. Queue(d, {i})
      BY <1>2, <3>3, Dequeued, Zenon
    <3>6. Queue(Rest(d, i), {})
      BY <3>3, <3>5, RestQueue, Zenon
    <3>7. Outcome(d, i, job')
      BY <3>1, <3>4, <3>6, Fails, Zenon
    <3> QED BY <1>1, <1>2, <3>3, <3>7, OutcomeHandled, Zenon
  <2> QED BY <2>7, <2>8, Zenon
<1> QED BY <1>3, <1>8, <1>9, Zenon

\* A seek for a dd_io that waits at the head of the queue may start.
LEMMA NextSeek ==
  ASSUME ModeOK, NEW k, Core(k, {}), Queue(k, {}), k.seek_queue # <<>>,
         NEW h, h = Head(k.seek_queue), h \notin Seeking(k)
  PROVE  h \in Io /\ k.st[h] \in {"queued", "rest"} /\ Core(k, {h}) /\ AtHead(k, h)
<1> DEFINE q == k.seek_queue
<1>1. /\ k \in Job /\ q \in Seq(Io) /\ Len(q) \in Nat /\ Len(q) > 0
      /\ h \in Io /\ h = q[1] /\ 1 \in 1 .. Len(q)
  <2>1. k \in Job /\ q \in Seq(Io)
    BY Zenon DEF Core, Job
  <2>2. q # <<>> /\ h = Head(q)
    BY Zenon
  <2> HIDE DEF q
  <2> QED BY <2>1, <2>2, SMTT(30)
<1>2. k.st[h] \in {"queued", "rest"}
  BY <1>1, Zenon DEF Queue, Seeking
<1>3. InAir(k) \ {h} = InAir(k) \ {} /\ Busy(k) \ {h} = Busy(k) \ {}
  BY <1>2, Zenon DEF InAir, Busy, Flying
<1>4. Counts(k, {h}) /\ Shut(k, {h})
  BY <1>3, Zenon DEF Core, Counts, Shut
<1>5. Ranges(k, {h})
  BY <1>3, Zenon DEF Core, Ranges
<1>6. OnData(k, {h})
  BY Zenon DEF Core, OnData
<1>7. Seeking(k) \subseteq {h}
  BY <1>1, Zenon DEF Queue
<1>8. AtHead(k, h)
  BY <1>1, <1>7, SMTT(30) DEF AtHead, Queue
<1> QED BY <1>1, <1>2, <1>4, <1>5, <1>6, <1>8, Zenon DEF Core

\* _dd_bdev_seek_hole_done.
LEMMA SeekHoleStep ==
  ASSUME ModeOK, Core(job, {}), Queue(job, {}), NEW i \in Io, NEW ok \in BOOLEAN,
         NEW okNext \in BOOLEAN, seek_hole_done(i, ok, okNext)
  PROVE  Handled(job, job')
<1> DEFINE d == Dequeue(job)
           j == Done(d)
           p == j.pos
           b == BdevHole(job.pos)
           m == FromTo(j, i, p, b)
           k == dd_target_populate_buffer(m, i, ok)
           h == Head(k.seek_queue)
<1>1. /\ job.st[i] = "seek_hole" /\ job.exits = 0
      /\ job' = IF Stop(job) THEN ExitIfIdle(Rest(d, i))
                ELSE IF k.seek_queue # <<>> /\ k.pos < Size
                THEN Submit(k, h, "seek_data", okNext)
                ELSE k
  BY Zenon DEF seek_hole_done, SoughtHole
<1>2. job \in Job /\ i \in InAir(job) /\ i \in Seeking(job) /\ job.pos \in Nat
  BY <1>1, Zenon DEF Core, InAir, Seeking, Flying, Job
<1>3. CASE Stop(job)
  BY <1>1, <1>2, <1>3, StoppedSeek, Zenon
<1>4. CASE ~Stop(job)
  <2>1. AtHead(job, i) /\ Tail(job.seek_queue) \in Seq(Io) /\ mode.sparse /\ mode.inb
    BY <1>2, Seeker, Zenon DEF AtHead
  <2>2. job.pos \in data
    <3>1. i \in Io \ {}
      BY Zenon
    <3> QED BY <1>1, <2>1, <3>1, Zenon DEF Core, OnData
  <2>3. Shorter(job, d)
    BY <1>2, <2>1, DequeueShorter, Zenon
  <2>4. job' = IF k.seek_queue # <<>> /\ k.pos < Size THEN Submit(k, h, "seek_data", okNext) ELSE k
    BY <1>1, <1>4, Zenon
  <2> HIDE DEF d
  <2>5. Core(d, {}) /\ i \in InAir(d)
    BY <1>2, <2>3, CoreShorterAll, Zenon
  <2>6. Back(d, j)
    BY <2>5, DoneBack, Zenon
  <2> HIDE DEF j
  <2>7. Core(j, {i})
    BY <2>5, <2>6, CoreBack, Zenon
  <2>8. /\ j \in Job /\ j.st = job.st /\ j.len = job.len /\ j.exits = job.exits
        /\ j.seek_queue = Tail(job.seek_queue) /\ j.pos = job.pos
    BY <2>3, <2>6, Zenon DEF Back, Shorter
  <2>9. Queue(j, {i}) /\ Seeking(j) \subseteq {i}
    BY <1>2, <2>8, Dequeued, Zenon
  <2>10. p \in Nat /\ p \in data /\ b \in Nat /\ b > p
    <3>1. p \in Nat /\ p \in data /\ p <= Size /\ job.pos = p
      BY <1>2, <2>2, <2>8 DEF ModeOK
    <3> HIDE DEF p
    <3>2. NextHole(p) \in p .. Size /\ NextHole(p) > p
      BY <3>1, Searches, Zenon
    <3>3. b = NextHole(p) \/ b = p + Unit
      BY <3>1, Zenon DEF BdevHole
    <3> HIDE DEF b
    <3> QED BY <3>1, <3>2, <3>3
  <2>11. Gone(j, i, p, b, m)
    <3> HIDE DEF b
    <3>1. Going(j, i, p, b)
      BY <2>7, <2>9, <2>10, SMTT(30) DEF Going
    <3> QED BY <3>1, Goes, Zenon
  <2> HIDE DEF m
  <2>12. /\ Core(m, {i}) /\ Queue(m, {i}) /\ m.exits = job.exits /\ m.st = job.st
         /\ m.seek_queue = Tail(job.seek_queue)
         /\ \A n \in Io \ {i} : m.len[n] = job.len[n]
         /\ m.len[i] # 0
    BY <2>8, <2>10, <2>11, Zenon DEF Gone
  <2>13. Seeking(m) \subseteq {i}
    BY <2>8, <2>9, <2>12, Zenon DEF Seeking
  <2>14. /\ Outcome(m, i, k) /\ k.seek_queue = m.seek_queue
         /\ Plain /\ k.exits > 0 => Stop(k) \/ AtEnd(k)
    <3>1. m.exits = 0
      BY <1>1, <2>12, Zenon
    <3> QED BY <2>12, <2>13, <3>1, Populates, Zenon
  <2> HIDE DEF k
  <2>15. CASE ~(k.seek_queue # <<>> /\ k.pos < Size)
    <3>1. job' = k
      BY <2>4, <2>15, Zenon
    <3> QED BY <1>1, <1>2, <2>12, <2>14, <3>1, OutcomeHandled, Zenon
  <2>16. CASE k.seek_queue # <<>> /\ k.pos < Size
    <3>1. job' = Submit(k, h, "seek_data", okNext)
      BY <2>4, <2>16, Zenon
    <3>2. Core(k, {}) /\ Queue(k, {}) /\ k \in Job /\ k.seek_queue \in Seq(Io)
      BY <2>14, Zenon DEF Outcome, Core, Job
    <3>3. h \in Io /\ h # i
      <4>1. h = k.seek_queue[1] /\ 1 \in 1 .. Len(k.seek_queue) /\ h \in Io
        BY <2>16, <3>2
      <4>2. \A a \in 1 .. Len(m.seek_queue) : m.seek_queue[a] # i
        BY <2>12, Zenon DEF Queue
      <4>3. k.seek_queue = m.seek_queue
        BY <2>14, Zenon
      <4> HIDE DEF h
      <4> QED BY <4>1, <4>2, <4>3, Zenon
    <3>4. k.st[h] = m.st[h] /\ h \notin Seeking(k)
      BY <2>13, <2>14, <3>3, Zenon DEF Outcome, Seeking
    <3>5. k.st[h] \in {"queued", "rest"} /\ Core(k, {h}) /\ AtHead(k, h)
      BY <2>16, <3>2, <3>4, NextSeek, Zenon
    <3> HIDE DEF h
    <3>6. Plain => k.exits = 0 \/ Faulty(k)
      <4>1. k.exits \in Nat /\ k.pos \in Nat /\ Start \in Nat /\ Start <= Size
        BY <3>2, SMTT(30) DEF Job, Start
      <4>2. Plain => mode.count = 0
        BY <2>1, Zenon DEF Plain, ModeOK
      <4>3. Plain => ~AtEnd(k)
        BY <2>16, <4>1, <4>2, SMTT(30) DEF AtEnd, copy_size
      <4> QED BY <2>1, <2>14, <4>1, <4>3 DEF Faulty
    <3>7. Outcome(k, h, job') /\ (job'.exits = k.exits \/ job'.error)
      BY <3>1, <3>3, <3>5, <3>6, SubmitsSeek, ZenonT(30)
    <3>8. k.exits <= job.exits + 1
      BY <1>2, <2>12, <2>14, SMTT(30) DEF Outcome, Job
    <3>9. ~Faulty(job') => job'.exits <= job.exits + 1
      BY <2>1, <3>7, <3>8, Zenon DEF Faulty, Stop
    <3>10. ASSUME NEW n \in Io, job.st[n] = "new"
           PROVE  job'.st[n] = "new" /\ job'.len[n] = job.len[n]
      <4>1. n # i /\ n # h
        BY <1>1, <2>12, <3>4, <3>5, <3>10, Zenon
      <4> QED BY <2>12, <2>14, <3>7, <3>10, <4>1, Zenon DEF Outcome
    <3> QED BY <2>1, <3>7, <3>9, <3>10, Zenon DEF Outcome, Handled
  <2> QED BY <2>15, <2>16, Zenon
<1> QED BY <1>3, <1>4, Zenon

-----------------------------------------------------------------------------
(* The inductive invariant *)

\* Core and Queue speak of mode, data and intr besides the job.
LEMMA CorePrimed ==
  ASSUME mode' = mode, data' = data, intr' = intr, Core(job', {}), Queue(job', {})
  PROVE  Core(job, {})' /\ Queue(job, {})' /\ (InAir(job))' = InAir(job')
<1>1. Core(job, {})'
  BY Zenon DEF Core, Counts, Ranges, Apart, Shut, OnData, Faulty, Stop, InAir, Busy, Plain
<1>2. Queue(job, {})'
  BY Zenon DEF Queue, Seeking
<1> QED BY <1>1, <1>2, Zenon DEF InAir

\* A step that completes an operation keeps the invariant.
LEMMA HandledKeeps ==
  ASSUME DdInv, Handled(job, job'), next = queue_depth,
         mode' = mode, data' = data, next' = next, intr' = intr, lost' \in BOOLEAN, astray' = astray,
         NEW i \in Io, job.st[i] # "new"
  PROVE  DdInv'
<1>1. ModeOK' /\ next' \in 0 .. Depth /\ intr' \in BOOLEAN /\ astray' = FALSE
  BY Zenon DEF DdInv, ModeOK
<1>2. Core(job, {})' /\ Queue(job, {})' /\ (InAir(job))' = InAir(job')
  BY CorePrimed, Zenon DEF Handled
<1>3. i < next /\ next \in Nat
  BY SMTT(30) DEF DdInv, Loop, Io
<1>4. queue_depth' = queue_depth
  BY Zenon DEF queue_depth, AtMostUnits, total_size
<1>5. Loop'
  <2>1. ~(next' < queue_depth') /\ ~(next' = 0)
    BY <1>3, <1>4, SMTT(30) DEF Io
  <2>2. \A n \in Io : n >= next' => job'.st[n] = "new" /\ job'.len[n] = Unit
    BY Zenon DEF DdInv, Loop, Handled
  <2>3. ~(mode.sparse /\ mode.inb) => (InAir(job))' # {} \/ job'.exits > 0
    BY <1>2, Zenon DEF Handled
  <2> QED BY <2>1, <2>2, <2>3, Zenon DEF Loop
<1> QED BY <1>1, <1>2, <1>5, Zenon DEF DdInv

\* One round of the loop in dd_run.
LEMMA RunStep ==
  ASSUME DdInv, NEW ok \in BOOLEAN, NEW found, dd_run(ok, found)
  PROVE  DdInv' /\ job'.exits <= job.exits + 1
<1> DEFINE k == dd_target_seek(job, next, ok, found)
<1>1. /\ next < queue_depth /\ next' = next + 1 /\ job' = k /\ mode' = mode
      /\ data' = data /\ intr' = intr /\ lost' = lost /\ astray' = astray
  BY Zenon DEF dd_run
<1>2. ModeOK /\ Core(job, {}) /\ Queue(job, {}) /\ Loop /\ job \in Job /\ next \in Nat
  BY SMTT(30) DEF DdInv, Core
<1>3. next \in Io /\ next' \in 0 .. Depth
  BY <1>1, <1>2, DepthBound, SMTT(30) DEF Io
<1>4. job.st[next] = "new" /\ job.len[next] = Unit
  BY <1>2, <1>3, SMTT(30) DEF Loop
<1>5. Core(job, {next})
  <2>1. InAir(job) \ {next} = InAir(job) \ {} /\ Busy(job) \ {next} = Busy(job) \ {}
    BY <1>4, Zenon DEF InAir, Busy, Flying
  <2>2. Counts(job, {next}) /\ Shut(job, {next})
    BY <1>2, <2>1, Zenon DEF Core, Counts, Shut
  <2>3. Ranges(job, {next})
    BY <1>2, <2>1, Zenon DEF Core, Ranges
  <2>4. OnData(job, {next})
    BY <1>2, Zenon DEF Core, OnData
  <2> QED BY <1>2, <2>2, <2>3, <2>4 DEF Core
<1>6. Queue(job, {next})
  <2>1. Seeking(job) \ {next} = Seeking(job) \ {}
    BY <1>4, Zenon DEF Seeking
  <2>2. \A a \in 1 .. Len(job.seek_queue) : job.seek_queue[a] # next
    BY <1>2, <1>4, Zenon DEF Queue
  <2> QED BY <1>2, <2>1, <2>2, Zenon DEF Queue
<1>7. Plain => job.exits = 0 \/ Stop(job) \/ AtEnd(job) \/ (mode.sparse /\ ~mode.inb)
  BY <1>1, <1>2 DEF Loop, Job
<1>8. /\ Outcome(job, next, job')
      /\ Plain /\ job'.exits > 0 => Stop(job') \/ AtEnd(job') \/ (mode.sparse /\ ~mode.inb)
  <2>1. CASE mode.sparse /\ mode.inb
    BY <1>1, <1>2, <1>3, <1>5, <1>6, <1>7, <2>1, SeeksBdev, ZenonT(30)
  <2>2. CASE ~(mode.sparse /\ mode.inb)
    <3>1. job.len[next] # 0 /\ mode.sparse \in BOOLEAN
      BY <1>2, <1>4, Zenon DEF ModeOK
    <3>2. /\ Outcome(job, next, job')
          /\ Plain /\ job'.exits > 0 => Stop(job') \/ AtEnd(job') \/ mode.sparse
      BY <1>1, <1>2, <1>3, <1>5, <1>6, <1>7, <2>2, <3>1, SeeksFile, ZenonT(30)
    <3> QED BY <2>2, <3>2, Zenon
  <2> QED BY <2>1, <2>2, Zenon
<1> HIDE DEF k
<1>9. Core(job, {})' /\ Queue(job, {})' /\ (InAir(job))' = InAir(job')
  BY <1>1, <1>8, CorePrimed, Zenon DEF Outcome
<1>10. Loop'
  <2>1. \A n \in Io : n >= next' => job'.st[n] = "new" /\ job'.len[n] = Unit
    <3> TAKE n \in Io
    <3> HAVE n >= next'
    <3>1. n >= next /\ n # next
      BY <1>1, <1>2, <1>3 DEF Io
    <3> QED BY <1>2, <1>8, <3>1, Zenon DEF Loop, Outcome
  <2>2. next' # 0
    BY <1>1, <1>2
  <2>3. Plain /\ job'.exits > 0 => Stop(job)' \/ AtEnd(job)' \/ (mode'.sparse /\ ~mode'.inb)
    BY <1>1, <1>8, Zenon DEF Stop, AtEnd, copy_size
  <2>4. ~(mode'.sparse /\ mode'.inb) => (InAir(job))' # {} \/ job'.exits > 0
    BY <1>1, <1>8, <1>9, Zenon DEF Outcome
  <2> QED BY <2>1, <2>2, <2>3, <2>4, Zenon DEF Loop, Plain
<1>11. ModeOK' /\ intr' \in BOOLEAN /\ lost' \in BOOLEAN /\ astray' = FALSE
  BY <1>1, Zenon DEF DdInv, ModeOK
<1>12. job'.exits <= job.exits + 1
  BY <1>2, <1>8, SMTT(30) DEF Outcome, Job
<1> QED BY <1>3, <1>9, <1>10, <1>11, <1>12, Zenon DEF DdInv

\* dd_run ends before the loop.
LEMMA RefusedStep ==
  ASSUME DdInv, dd_run_refused
  PROVE  DdInv' /\ job'.exits <= job.exits + 1
<1> DEFINE e == [job EXCEPT !.error = TRUE]
<1>1. /\ next = 0 /\ job' = dd_exit(e) /\ mode' = mode /\ data' = data
      /\ next' = next /\ intr' = intr /\ lost' = lost /\ astray' = astray
  BY Zenon DEF dd_run_refused
<1>2. /\ ModeOK /\ Core(job, {}) /\ Queue(job, {}) /\ Loop /\ job \in Job
      /\ job.outstanding = 0 /\ job.exits \in Nat
  BY <1>1, Zenon DEF DdInv, Core, Job, Loop
<1>3. Core(e, {})
  BY <1>2, CoreError, Zenon
<1>4. /\ e.st = job.st /\ e.seek_queue = job.seek_queue /\ e.len = job.len /\ e.error
      /\ e.outstanding = 0 /\ e.exits = job.exits /\ e \in Job
  BY <1>2, Zenon DEF Job
<1>5. job' = ExitIfIdle(e)
  BY <1>1, <1>4, Zenon DEF ExitIfIdle
<1> HIDE DEF e
<1>6. Core(job', {}) /\ job'.exits \in {e.exits, e.exits + 1}
  BY <1>2, <1>3, <1>5, CoreExit, Zenon
<1>7. /\ job'.st = job.st /\ job'.seek_queue = job.seek_queue /\ job'.len = job.len
      /\ job'.error /\ job'.outstanding = 0
  BY <1>1, <1>4, Zenon DEF dd_exit, Job
<1>8. Queue(job', {})
  BY <1>2, <1>7, QueueSame, Zenon
<1>9. Core(job, {})' /\ Queue(job, {})'
  BY <1>1, <1>6, <1>8, CorePrimed, Zenon
<1>10. Loop'
  BY <1>1, <1>2, <1>7 DEF Loop, Stop, Io
<1>11. ModeOK' /\ next' \in 0 .. Depth /\ intr' \in BOOLEAN /\ lost' \in BOOLEAN /\ astray' = FALSE
  BY <1>1, Zenon DEF DdInv, ModeOK
<1>12. job'.exits <= job.exits + 1
  BY <1>2, <1>4, <1>6, SMTT(30)
<1> QED BY <1>9, <1>10, <1>11, <1>12, Zenon DEF DdInv

\* An interrupt only gives more reason to stop.
LEMMA FinishStep ==
  ASSUME DdInv, dd_finish
  PROVE  DdInv' /\ job'.exits <= job.exits + 1
<1>1. mode' = mode /\ data' = data /\ next' = next /\ job' = job /\ intr' = TRUE /\ lost' = lost /\ astray' = astray
  BY Zenon DEF dd_finish
<1>2. job \in Job /\ job.exits \in Nat
  BY Zenon DEF DdInv, Core, Job
<1>3. ModeOK' /\ next' \in 0 .. Depth /\ intr' \in BOOLEAN /\ lost' \in BOOLEAN /\ astray' = FALSE
  BY <1>1, Zenon DEF DdInv, ModeOK
<1>4. Stop(job)' /\ (InAir(job))' = InAir(job) /\ (Busy(job))' = Busy(job)
  BY <1>1, Zenon DEF Stop, InAir, Busy
<1>5. (Faulty(job))' <=> mode.sparse /\ mode.inb
  BY <1>1, <1>4, Zenon DEF Faulty
<1>6. Counts(job, {})' /\ Shut(job, {})'
  <2>1. ~(mode.sparse /\ mode.inb) => ~Faulty(job)
    BY Zenon DEF Faulty
  <2> QED BY <1>1, <1>4, <1>5, <2>1 DEF DdInv, Core, Counts, Shut, Plain
<1>7. Ranges(job, {})' /\ OnData(job, {})'
  BY <1>1, Zenon DEF DdInv, Core, Ranges, Busy, Apart, OnData
<1>8. Core(job, {})'
  BY <1>1, <1>2, <1>6, <1>7, Zenon DEF DdInv, Core
<1>9. Queue(job, {})'
  BY <1>1, Zenon DEF DdInv, Queue, Seeking
<1>10. Loop'
  BY <1>1, <1>4, Zenon DEF DdInv, Loop
<1> QED BY <1>1, <1>2, <1>3, <1>8, <1>9, <1>10, SMTT(30) DEF DdInv

\* The invariant holds at first.
LEMMA DdInit == Init => DdInv
<1> SUFFICES ASSUME Init PROVE DdInv
  BY Zenon
<1>1. /\ ModeOK /\ next = 0 /\ intr \in BOOLEAN /\ lost \in BOOLEAN /\ astray = FALSE
  BY Zenon DEF Init, ModeOK
<1>2. Start \in Nat
  BY <1>1, Places, Zenon
<1>3. /\ job.pos = Start /\ job.outstanding = 0 /\ job.exits = 0 /\ job.seek_queue = <<>>
      /\ \A n \in Io : job.st[n] = "new" /\ job.len[n] = Unit
  BY Zenon DEF Init
<1>4. job \in Job
  BY <1>2 DEF Init, Job, States
<1>5. InAir(job) = {} /\ Busy(job) = {} /\ Seeking(job) = {}
  BY <1>3, Zenon DEF InAir, Busy, Seeking, Flying
<1>6. Counts(job, {})
  <2>1. Cardinality(InAir(job) \ {}) = 0
    BY <1>5, FS_EmptySet, Zenon
  <2> QED BY <1>3, <2>1, SMTT(30) DEF Counts
<1>7. Ranges(job, {}) /\ Shut(job, {}) /\ OnData(job, {})
  BY <1>3, <1>5, Zenon DEF Ranges, Shut, OnData
<1>8. Core(job, {})
  BY <1>2, <1>3, <1>4, <1>6, <1>7, SMTT(30) DEF Core
<1>9. Queue(job, {})
  BY <1>3, <1>5, SMTT(30) DEF Queue
<1>10. Loop
  BY <1>1, <1>3 DEF Loop
<1> QED BY <1>1, <1>8, <1>9, <1>10 DEF DdInv

\* A seek that failed is not forgotten.
LEMMA AstrayStays ==
  ASSUME astray, [Next]_vars
  PROVE  astray'
<1>1. CASE Progress
  <2>1. \A i, done : Completed(i, done) => astray' = astray
    BY Zenon DEF Completed
  <2>2. CASE dd_run_refused \/ \E ok \in IF "start" \in Faults THEN BOOLEAN ELSE {TRUE},
                                     found \in Found : dd_run(ok, found)
    BY <2>2, Zenon DEF dd_run_refused, dd_run
  <2>3. CASE \E i \in Io, ok \in Accepted :
               \/ \E done \in BOOLEAN : populate_done(i, done, ok) \/ read_done(i, done, ok)
               \/ \E done \in BOOLEAN, found \in Found : write_done(i, done, ok, found)
    BY <2>1, <2>3, Zenon DEF populate_done, read_done, write_done
  <2>4. CASE \E i \in Io, ok \in Accepted :
               \/ seek_data_done(i, ok)
               \/ \E found \in {{}} \cup {{p} : p \in Stale} : seek_data_failed(i, found, ok)
               \/ \E okNext \in Accepted :
                    \/ seek_hole_done(i, ok, okNext)
                    \/ \E hole \in Stale : seek_hole_failed(i, hole, ok, okNext)
    BY <2>4, Zenon DEF seek_data_done, seek_data_failed, seek_hole_done, seek_hole_failed
  <2> QED BY <1>1, <2>2, <2>3, <2>4, Zenon DEF Progress
<1>2. CASE dd_finish \/ UNCHANGED vars
  BY <1>2, Zenon DEF dd_finish, vars
<1> QED BY <1>1, <1>2, Zenon DEF Next

\* Every other step keeps it, and calls dd_exit at most once.
LEMMA DdStep ==
  ASSUME DdInv, [Next]_vars, ~astray'
  PROVE  DdInv' /\ (~SeekFault' => job'.exits <= job.exits + 1)
<1>0. /\ ModeOK /\ Core(job, {}) /\ Queue(job, {}) /\ job \in Job /\ job.exits \in Nat
      /\ lost \in BOOLEAN /\ astray = FALSE
  BY Zenon DEF DdInv, Core, Job
<1>1. CASE dd_run_refused
  BY <1>1, RefusedStep, Zenon
<1>2. ASSUME NEW ok \in BOOLEAN, NEW found, dd_run(ok, found)
      PROVE  DdInv' /\ job'.exits <= job.exits + 1
  BY <1>2, RunStep, Zenon
<1>3. ASSUME NEW i \in Io, job.st[i] # "new", Handled(job, job'), next = queue_depth,
             mode' = mode, data' = data, next' = next, intr' = intr, lost' \in BOOLEAN, astray' = astray
      PROVE  DdInv' /\ (~SeekFault' => job'.exits <= job.exits + 1)
  <2>1. DdInv'
    BY <1>3, HandledKeeps, Zenon
  <2>2. Faulty(job') => SeekFault'
    BY <1>3, Zenon DEF SeekFault, SeekStopped, Faulty, Stop
  <2> QED BY <1>3, <2>1, <2>2, Zenon DEF Handled
<1>4. ASSUME NEW i \in Io, NEW ok \in BOOLEAN, NEW done \in BOOLEAN, NEW found,
             populate_done(i, done, ok) \/ read_done(i, done, ok) \/ write_done(i, done, ok, found)
      PROVE  DdInv' /\ (~SeekFault' => job'.exits <= job.exits + 1)
  <2>1. Handled(job, job')
    BY <1>0, <1>4, PopulateStep, ReadStep, WriteStep, Zenon
  <2>2. job.st[i] # "new" /\ Completed(i, done)
    BY <1>4, Zenon DEF populate_done, read_done, write_done
  <2>3. /\ next = queue_depth /\ mode' = mode /\ data' = data /\ next' = next
        /\ intr' = intr /\ lost' \in BOOLEAN /\ astray' = astray
    BY <1>0, <2>2, Zenon DEF Completed
  <2> QED BY <1>3, <2>1, <2>2, <2>3, Zenon
<1>5. ASSUME NEW i \in Io, NEW ok \in BOOLEAN, seek_data_done(i, ok)
      PROVE  DdInv' /\ (~SeekFault' => job'.exits <= job.exits + 1)
  <2>1. Handled(job, job')
    BY <1>0, <1>5, SeekDataStep, Zenon
  <2>2. /\ job.st[i] # "new" /\ next = queue_depth /\ mode' = mode /\ data' = data
        /\ next' = next /\ intr' = intr /\ lost' = lost /\ astray' = astray
    BY <1>5, Zenon DEF seek_data_done, SoughtData
  <2> QED BY <1>0, <1>3, <2>1, <2>2, Zenon
<1>6. ASSUME NEW i \in Io, NEW ok \in BOOLEAN, NEW okNext \in BOOLEAN, seek_hole_done(i, ok, okNext)
      PROVE  DdInv' /\ (~SeekFault' => job'.exits <= job.exits + 1)
  <2>1. Handled(job, job')
    BY <1>0, <1>6, SeekHoleStep, Zenon
  <2>2. /\ job.st[i] # "new" /\ next = queue_depth /\ mode' = mode /\ data' = data
        /\ next' = next /\ intr' = intr /\ lost' = lost /\ astray' = astray
    BY <1>6, Zenon DEF seek_hole_done, SoughtHole
  <2> QED BY <1>0, <1>3, <2>1, <2>2, Zenon
<1>7. CASE dd_finish
  BY <1>7, FinishStep, Zenon
<1>8. CASE UNCHANGED vars
  <2>1. DdInv'
    <3>1. /\ mode' = mode /\ data' = data /\ next' = next /\ job' = job
          /\ intr' = intr /\ lost' = lost /\ astray' = astray
      BY <1>8, Zenon DEF vars
    <3>2. Core(job, {})' /\ Queue(job, {})' /\ (InAir(job))' = InAir(job')
      BY <1>0, <3>1, CorePrimed, Zenon
    <3>3. queue_depth' = queue_depth
      BY <3>1, Zenon DEF queue_depth, AtMostUnits, total_size
    <3>4. Loop'
      BY <3>1, <3>2, <3>3, Zenon DEF DdInv, Loop, Stop, AtEnd, copy_size, Plain
    <3> QED BY <3>1, <3>2, <3>4, Zenon DEF DdInv, ModeOK
  <2>2. job' = job
    BY <1>8, Zenon DEF vars
  <2>3. job.exits <= job.exits + 1
    BY <1>0
  <2> QED BY <2>1, <2>2, <2>3, Zenon
<1>9. CASE Progress
  <2>1. Accepted \subseteq BOOLEAN /\ (IF "start" \in Faults THEN BOOLEAN ELSE {TRUE}) \subseteq BOOLEAN
    BY Zenon DEF Accepted
  <2>2. CASE \E ok \in IF "start" \in Faults THEN BOOLEAN ELSE {TRUE}, found \in Found : dd_run(ok, found)
    BY <1>2, <2>1, <2>2, Zenon
  <2>3. CASE \E i \in Io, ok \in Accepted :
               \/ \E done \in BOOLEAN : populate_done(i, done, ok) \/ read_done(i, done, ok)
               \/ \E done \in BOOLEAN, found \in Found : write_done(i, done, ok, found)
               \/ seek_data_done(i, ok)
               \/ \E okNext \in Accepted : seek_hole_done(i, ok, okNext)
    BY <1>4, <1>5, <1>6, <2>1, <2>3, Zenon
  <2>4. CASE \E i \in Io, ok \in Accepted :
               \/ \E found \in {{}} \cup {{p} : p \in Stale} : seek_data_failed(i, found, ok)
               \/ \E okNext \in Accepted, hole \in Stale : seek_hole_failed(i, hole, ok, okNext)
    BY <2>4, Zenon DEF seek_data_failed, seek_hole_failed
  <2> QED BY <1>1, <1>9, <2>2, <2>3, <2>4, Zenon DEF Progress
<1> QED BY <1>7, <1>8, <1>9, Zenon DEF Next

-----------------------------------------------------------------------------
(* What follows from the invariant *)

\* What the invariant implies.
LEMMA DdMeans ==
  ASSUME DdInv
  PROVE  /\ TypeOK /\ Counted /\ Disjoint
         /\ Unit % OutBlock = 0 => BufferFits
         /\ Plain => ExitQuiet
         /\ (\A m \in Modes : ~(m.sparse /\ m.inb)) => NeverStuck
<1>1. InFlight = InAir(job) /\ InAir(job) \ {} = InAir(job)
  BY Zenon DEF InFlight, InAir, Flying
<1>2. SeekStopped = Faulty(job) /\ (SeekFault <=> Faulty(job))
  BY Zenon DEF DdInv, SeekFault, SeekStopped, Faulty
<1>3. TypeOK
  BY Zenon DEF TypeOK, DdInv, Core, ModeOK
<1>4. Counted
  BY <1>1, <1>2, Zenon DEF DdInv, Core, Counts, Counted
<1>5. Plain => ExitQuiet
  BY <1>1, <1>2, Zenon DEF DdInv, Core, Shut, ExitQuiet
<1>6. Disjoint
  <2> SUFFICES ASSUME NEW i \in {n \in Io : job.st[n] \in {"populate", "read", "write"} /\ OutTakes(job, n)},
                      NEW k \in {n \in Io : job.st[n] \in {"populate", "read", "write"} /\ OutTakes(job, n)},
                      i # k
               PROVE  \/ WriteOffset(job, i) + CeilBlock(job.len[i]) <= WriteOffset(job, k)
                      \/ WriteOffset(job, k) + CeilBlock(job.len[k]) <= WriteOffset(job, i)
    BY Zenon DEF Disjoint
  <2>1. i \in Busy(job) /\ k \in Busy(job) /\ OutTakes(job, i) /\ OutTakes(job, k)
    BY Zenon DEF Busy
  <2>2. Apart(job, i, k)
    BY <2>1, Zenon DEF DdInv, Core, Ranges
  <2>3. CASE job.off[i] + job.len[i] <= job.off[k]
    BY <2>1, <2>3, RangesApart, Zenon
  <2>4. CASE job.off[k] + job.len[k] <= job.off[i]
    BY <2>1, <2>4, RangesApart, Zenon
  <2> QED BY <2>2, <2>3, <2>4, Zenon DEF Apart
<1>7. (\A m \in Modes : ~(m.sparse /\ m.inb)) => NeverStuck
  <2>1. mode \in Modes
    BY Zenon DEF DdInv, ModeOK
  <2> QED BY <1>1, <2>1, Zenon DEF DdInv, Loop, NeverStuck
<1>8. ASSUME Unit % OutBlock = 0, NEW i \in Io PROVE CeilBlock(job.len[i]) <= Unit
  <2>1. job.len[i] \in 0 .. Unit /\ out_block \in Nat \ {0}
    BY Places, Zenon DEF DdInv, Core, Job
  <2>2. Unit % out_block = 0 /\ 0 % out_block = 0
    BY <1>8, <2>1 DEF out_block
  <2>3. 0 + CeilBlock(job.len[i]) <= Unit
    <3>1. 0 \in Nat /\ Unit \in Nat /\ job.len[i] \in Nat /\ 0 + job.len[i] <= Unit
      BY <2>1
    <3> QED BY <2>1, <2>2, <3>1, RoundedApart, Zenon DEF CeilBlock
  <2>4. CeilBlock(job.len[i]) \in Nat
    BY <2>1, CeilNat DEF DdInv
  <2> QED BY <2>3, <2>4
<1> QED BY <1>3, <1>4, <1>5, <1>6, <1>7, <1>8, Zenon DEF BufferFits

\* What is said only of copies in which no seek failed.
LEMMA AstrayMeans ==
  ASSUME astray
  PROVE  SeekFault /\ Disjoint /\ ExitQuiet /\ NeverStuck /\ WithinCount /\ CopyExact
BY Zenon DEF SeekFault, Disjoint, ExitQuiet, NeverStuck, WithinCount, CopyExact, Copied

\* The invariant holds until a seek in a bdev fails.
LEMMA DdAlways == Spec => [](astray \/ DdInv)
<1>1. DdInv /\ [Next]_vars => astray' \/ DdInv'
  BY DdStep, Zenon
<1>2. astray /\ [Next]_vars => astray'
  BY AstrayStays, Zenon
<1> QED BY <1>1, <1>2, DdInit, PTL DEF Spec

\* The state keeps its shape, with io->length at most a unit wherever the holes of
\* the input are, until a seek in a bdev fails.
THEOREM DdTypes == Spec => [](astray \/ TypeOK)
<1>1. DdInv => TypeOK
  BY DdMeans, Zenon
<1> QED BY <1>1, DdAlways, PTL

\* The buffer of a dd_io has room for its range in whole blocks of the output, if
\* --bs is a multiple of the block size (dd_run only asks that it is no smaller),
\* until a seek in a bdev fails.
THEOREM DdBufferFits == Unit % OutBlock = 0 => (Spec => [](astray \/ BufferFits))
<1> SUFFICES ASSUME Unit % OutBlock = 0 PROVE Spec => [](astray \/ BufferFits)
  BY Zenon
<1>1. DdInv => BufferFits
  BY DdMeans, Zenon
<1> QED BY <1>1, DdAlways, PTL

\* g_job.outstanding counts the operations under way, through every failure but that
\* of a seek in a bdev and for every depth of the queue; after an error or interrupt
\* of a copy that seeks in a bdev it is an upper bound.
THEOREM DdCounted == Spec => [](astray \/ Counted)
<1>1. DdInv => Counted
  BY DdMeans, Zenon
<1> QED BY <1>1, DdAlways, PTL

\* No two dd_ios work on the same block of the output, whatever the sizes of unit
\* and block (unless a seek in a bdev has failed).
THEOREM DdDisjoint == Spec => []Disjoint
<1>1. astray \/ DdInv => Disjoint
  BY DdMeans, AstrayMeans, Zenon
<1> QED BY <1>1, DdAlways, PTL

\* No handler calls dd_exit twice.
THEOREM DdExitOnce == Spec => ExitOnce
<1>1. (astray \/ DdInv) /\ [Next]_vars => [~SeekFault' => job'.exits <= job.exits + 1]_vars
  <2> SUFFICES ASSUME astray \/ DdInv, [Next]_vars, ~SeekFault'
               PROVE  job'.exits <= job.exits + 1
    BY Zenon
  <2>1. ~astray'
    BY Zenon DEF SeekFault
  <2>2. DdInv
    BY <2>1, AstrayStays, Zenon
  <2> QED BY <2>1, <2>2, DdStep, Zenon
<1> QED BY <1>1, DdAlways, PTL DEF Spec, ExitOnce

\* When dd_exit has been called nothing is under way, if --sparse is used without
\* --count.
THEOREM DdExitQuiet == Plain => (Spec => []ExitQuiet)
<1> SUFFICES ASSUME Plain PROVE Spec => []ExitQuiet
  BY Zenon
<1>1. astray \/ DdInv => ExitQuiet
  BY DdMeans, AstrayMeans, Zenon
<1> QED BY <1>1, DdAlways, PTL

\* A copy whose operations have all completed has called dd_exit, if it does not
\* seek in a bdev.
THEOREM DdNeverStuck == (\A m \in Modes : ~(m.sparse /\ m.inb)) => (Spec => []NeverStuck)
<1> SUFFICES ASSUME \A m \in Modes : ~(m.sparse /\ m.inb) PROVE Spec => []NeverStuck
  BY Zenon
<1>1. astray \/ DdInv => NeverStuck
  BY DdMeans, AstrayMeans, Zenon
<1> QED BY <1>1, DdAlways, PTL

\* The invariant about what is copied holds as long, if --sparse is used without
\* --count.
LEMMA CopyAlways == Plain => (Spec => [](astray \/ (DdInv /\ CopyInv)))
<1> SUFFICES ASSUME Plain PROVE Spec => [](astray \/ (DdInv /\ CopyInv))
  BY Zenon
<1>1. DdInv /\ CopyInv /\ [Next]_vars => astray' \/ (DdInv' /\ CopyInv')
  BY DdStep, CopyStep, Zenon
<1>2. astray /\ [Next]_vars => astray'
  BY AstrayStays, Zenon
<1> QED BY <1>1, <1>2, DdInit, CopyInit, PTL DEF Spec

\* Nothing outside the region that --seek and --count give is changed, for every
\* size of the input, the output, the unit, the block and the queue, wherever the
\* holes are and whatever fails (but a bdev I/O or a seek in a bdev, unseen), if
\* --sparse is used without --count.
THEOREM DdWithinCount == Plain => (Spec => []WithinCount)
<1> SUFFICES ASSUME Plain PROVE Spec => []WithinCount
  BY Zenon
<1>1. astray \/ (DdInv /\ CopyInv) => WithinCount
  BY CopyMeans, AstrayMeans, Zenon
<1> QED BY <1>1, CopyAlways, PTL

\* When spdk_dd reports success it has copied the region, block by block, and
\* an output file has its full length: for all sizes and placements of holes,
\* and every order in which the operations complete (unless a bdev I/O or a seek in
\* a bdev failed, unseen).
THEOREM DdCopyExact == Plain => (Spec => []CopyExact)
<1> SUFFICES ASSUME Plain PROVE Spec => []CopyExact
  BY Zenon
<1>1. astray \/ (DdInv /\ CopyInv) => CopyExact
  BY CopyMeans, AstrayMeans, Zenon
<1> QED BY <1>1, CopyAlways, PTL

-----------------------------------------------------------------------------
(* A copy that seeks in a bdev, with two dd_ios *)

\* A dd_io waits in the queue only behind a seek, or when there is nothing left.
Waits(j) == ~Stop(j) /\ j.exits = 0 /\ j.seek_queue # <<>> => Seeking(j) # {} \/ AtEnd(j)

\* Something is under way until dd_exit is called.
Works(j) == ~Stop(j) /\ j.exits = 0 => j.outstanding > 0 \/ InAir(j) # {}

\* Both, of a copy that seeks in a bdev, from its first dd_io on.
Moving == mode.sparse /\ mode.inb => Waits(job) /\ (next > 0 => Works(job))

\* A dd_io that does not seek comes to rest.
LEMMA RestMoves ==
  ASSUME NEW j, j \in Job, NEW i \in Io, i \notin Seeking(j), Waits(j)
  PROVE  LET k == ExitIfIdle(Rest(j, i)) IN Waits(k) /\ Works(k)
<1> DEFINE r == Rest(j, i)
           k == ExitIfIdle(r)
<1>1. /\ r \in Job /\ r.st = [j.st EXCEPT ![i] = "rest"] /\ r.error = j.error
      /\ r.seek_queue = j.seek_queue /\ r.pos = j.pos /\ r.exits = j.exits
  BY Zenon DEF Rest, Job, States
<1> HIDE DEF r
<1>2. CASE r.outstanding = 0
  <2> DEFINE n == r.exits + 1
             e == [r EXCEPT !.exits = n]
  <2>1. n \in Nat /\ n # 0
    <3>1. r.exits \in Nat
      BY <1>1, Zenon DEF Job
    <3> QED BY <3>1
  <2> HIDE DEF n
  <2>2. e.exits = n
    BY <1>1, Zenon DEF Job
  <2>3. k = e
    BY <1>2, Zenon DEF ExitIfIdle, dd_exit, n
  <2> HIDE DEF e
  <2> QED BY <2>1, <2>2, <2>3, Zenon DEF Waits, Works, r
<1>3. CASE r.outstanding # 0
  <2>1. k = r
    BY <1>3, Zenon DEF ExitIfIdle
  <2>2. r.outstanding > 0
    <3>1. r.outstanding \in Nat
      BY <1>1, Zenon DEF Job
    <3> QED BY <1>3, <3>1
  <2>3. Seeking(j) \subseteq Seeking(r)
    <3>1. j.st \in [Io -> States]
      BY Zenon DEF Job
    <3>2. \A n \in Io \ {i} : r.st[n] = j.st[n]
      BY <1>1, <3>1, Zenon
    <3> QED BY <3>2, Zenon DEF Seeking
  <2>4. Waits(r)
    BY <1>1, <2>3, Zenon DEF Waits, Stop, AtEnd
  <2> QED BY <2>1, <2>2, <2>4, Zenon DEF Works, r
<1> QED BY <1>2, <1>3, Zenon DEF r

\* A dd_io submits an operation, and seeks or was not the one that sought.
LEMMA SubmitMoves ==
  ASSUME NEW j, j \in Job, NEW i \in Io, NEW op \in Flying, NEW ok \in BOOLEAN,
         op \in {"seek_data", "seek_hole"} \/ (i \notin Seeking(j) /\ Waits(j))
  PROVE  LET k == Submit(j, i, op, ok) IN Waits(k) /\ Works(k)
<1> DEFINE k == Submit(j, i, op, ok)
<1>1. Sent(j, i, op, ok, k)
  BY SubmitLike, Zenon
<1> HIDE DEF k
<1>2. j.st \in [Io -> States] /\ k \in Job /\ k.pos = j.pos /\ k.seek_queue = j.seek_queue
  BY <1>1, Zenon DEF Job, Sent, Like
<1>3. CASE k.error
  BY <1>3, Zenon DEF Waits, Works, Stop, k
<1>4. CASE ~k.error /\ k.st = [j.st EXCEPT ![i] = op] /\ k.exits = j.exits
  <2>1. k.st[i] = op /\ \A n \in Io \ {i} : k.st[n] = j.st[n]
    BY <1>2, <1>4, Zenon
  <2>2. Works(k)
    BY <2>1, Zenon DEF Works, InAir
  <2>3. CASE op \in {"seek_data", "seek_hole"}
    BY <2>1, <2>2, <2>3, Zenon DEF Waits, Seeking, k
  <2>4. CASE i \notin Seeking(j) /\ Waits(j)
    <3>1. Seeking(j) \subseteq Seeking(k)
      BY <2>1, <2>4, Zenon DEF Seeking
    <3>2. ~j.error
      BY <1>1, <1>4, Zenon DEF Sent
    <3>3. Waits(k)
      BY <1>2, <1>4, <2>4, <3>1, <3>2, Zenon DEF Waits, Stop, AtEnd
    <3> QED BY <2>2, <3>3, Zenon DEF k
  <2> QED BY <2>3, <2>4, Zenon
<1> QED BY <1>1, <1>3, <1>4, Zenon DEF Sent, k

\* dd_target_seek.
LEMMA SeekMoves ==
  ASSUME mode.sparse, mode.inb, NEW j, j \in Job, NEW i \in Io, i \notin Seeking(j), Waits(j),
         NEW ok \in BOOLEAN, NEW found
  PROVE  LET k == dd_target_seek(j, i, ok, found) IN Waits(k) /\ Works(k)
<1> DEFINE k == dd_target_seek(j, i, ok, found)
           t == Append(j.seek_queue, i)
           q == [j EXCEPT !.seek_queue = t]
           w == [q EXCEPT !.st[i] = "queued"]
           x == (ok /\ SeekTaken(j.pos))
<1>1. k = IF AtEnd(j) \/ Stop(j) THEN ExitIfIdle(Rest(j, i))
          ELSE IF j.seek_queue = <<>> THEN Submit(q, i, "seek_data", x) ELSE w
  BY Zenon DEF dd_target_seek
<1> HIDE DEF k
<1>2. t \in Seq(Io) /\ x \in BOOLEAN
  BY SMTT(30) DEF Job
<1> HIDE DEF t, x
<1>3. q \in Job /\ q.st = j.st /\ q.error = j.error /\ q.exits = j.exits /\ q.pos = j.pos
  BY <1>2, Zenon DEF Job
<1>4. CASE AtEnd(j) \/ Stop(j)
  BY <1>1, <1>4, RestMoves, Zenon DEF k
<1>5. CASE ~(AtEnd(j) \/ Stop(j)) /\ j.seek_queue = <<>>
  <2>1. k = Submit(q, i, "seek_data", x)
    BY <1>1, <1>5, Zenon
  <2> HIDE DEF q
  <2>2. "seek_data" \in Flying /\ "seek_data" \in {"seek_data", "seek_hole"}
    BY Zenon DEF Flying
  <2>3. Waits(k) /\ Works(k)
    BY <1>2, <1>3, <2>1, <2>2, SubmitMoves, Zenon
  <2> QED BY <2>3, Zenon DEF k
<1>6. CASE ~(AtEnd(j) \/ Stop(j)) /\ j.seek_queue # <<>>
  <2>1. k = w
    BY <1>1, <1>6, Zenon
  <2> HIDE DEF q
  <2>2. w.st = [j.st EXCEPT ![i] = "queued"] /\ w.exits = j.exits /\ w.error = j.error
    BY <1>3, Zenon DEF Job
  <2> HIDE DEF w
  <2>3. j.st \in [Io -> States]
    BY Zenon DEF Job
  <2>4. \A n \in Io \ {i} : w.st[n] = j.st[n]
    BY <2>2, <2>3, Zenon
  <2>5. Seeking(j) \subseteq Seeking(w)
    BY <2>4, Zenon DEF Seeking
  <2>6. w.exits = 0 => Seeking(w) # {}
    BY <1>6, <2>2, <2>5, Zenon DEF Waits
  <2>7. Seeking(w) \subseteq InAir(w)
    BY Zenon DEF Seeking, InAir, Flying
  <2> QED BY <2>1, <2>6, <2>7, Zenon DEF Waits, Works, k
<1> QED BY <1>4, <1>5, <1>6, Zenon

\* A read or a write of a dd_io comes back.
LEMMA BackMoves ==
  ASSUME NEW d, Back(job, d), NEW i \in Busy(job), Waits(job)
  PROVE  d \in Job /\ i \notin Seeking(d) /\ Waits(d) /\ i \in Io
<1>1. /\ d \in Job /\ d.st = job.st /\ d.seek_queue = job.seek_queue /\ d.pos = job.pos
      /\ (job.error => d.error) /\ d.exits = job.exits
  BY Zenon DEF Back
<1>2. Seeking(d) = Seeking(job) /\ i \notin Seeking(job)
  BY <1>1, Zenon DEF Seeking, Busy
<1> QED BY <1>1, <1>2, Zenon DEF Waits, Stop, AtEnd, Busy

\* dd_target_read, after populating, and dd_target_write.
LEMMA PassMoves ==
  ASSUME NEW d, Back(job, d), NEW i \in Busy(job), Waits(job), NEW ok \in BOOLEAN
  PROVE  /\ Waits(dd_target_read(d, i, ok)) /\ Works(dd_target_read(d, i, ok))
         /\ Waits(dd_target_write(d, i, ok)) /\ Works(dd_target_write(d, i, ok))
<1>1. d \in Job /\ i \notin Seeking(d) /\ Waits(d) /\ i \in Io
  BY BackMoves, Zenon
<1> DEFINE r == ExitIfIdle(Rest(d, i))
           x == ok /\ InTakes(d, i)
           y == ok /\ OutTakes(d, i)
<1>2. Waits(r) /\ Works(r)
  BY <1>1, RestMoves, Zenon
<1>3. x \in BOOLEAN /\ y \in BOOLEAN /\ "read" \in Flying /\ "write" \in Flying
  BY Zenon DEF Flying
<1>4. /\ dd_target_read(d, i, ok) = r \/ dd_target_read(d, i, ok) = Submit(d, i, "read", x)
      /\ dd_target_write(d, i, ok) = r \/ dd_target_write(d, i, ok) = Submit(d, i, "write", y)
  BY Zenon DEF dd_target_read, dd_target_write
<1> HIDE DEF r, x, y
<1>5. Waits(Submit(d, i, "read", x)) /\ Works(Submit(d, i, "read", x))
  BY <1>1, <1>3, SubmitMoves, Zenon
<1>6. Waits(Submit(d, i, "write", y)) /\ Works(Submit(d, i, "write", y))
  BY <1>1, <1>3, SubmitMoves, Zenon
<1> QED BY <1>2, <1>4, <1>5, <1>6, Zenon

\* _dd_target_populate_buffer_done, _dd_read_bdev_done, _dd_write_bdev_done, dd_aio_poll.
LEMMA DoneMoves ==
  ASSUME DdInv, mode.sparse, mode.inb, Waits(job),
         NEW i \in Io, NEW ok \in BOOLEAN, NEW done \in BOOLEAN, NEW found,
         populate_done(i, done, ok) \/ read_done(i, done, ok) \/ write_done(i, done, ok, found)
  PROVE  Waits(job') /\ Works(job')
<1> DEFINE c == Done(job)
<1>1. job.st[i] \in {"populate", "read", "write"} /\ job.exits = 0
  BY Zenon DEF populate_done, read_done, write_done, Completed
<1>2. /\ ModeOK /\ Core(job, {}) /\ job \in Job /\ i \in InAir(job) /\ i \in Busy(job)
  BY <1>1, Zenon DEF DdInv, Core, InAir, Busy, Flying
<1>3. Back(job, c) /\ c \in Job /\ c.size \in Nat /\ c.error \in BOOLEAN
  <2>1. Back(job, c)
    BY <1>2, DoneBack, Zenon
  <2> HIDE DEF c
  <2> QED BY <2>1, Zenon DEF Back, Job
<1>4. CASE populate_done(i, done, ok)
  <2>1. job' = dd_target_read(c, i, ok)
    BY <1>4, Zenon DEF populate_done
  <2> HIDE DEF c
  <2> QED BY <1>2, <1>3, <2>1, PassMoves, Zenon
<1>5. CASE read_done(i, done, ok)
  <2> DEFINE short == ~mode.inb /\ (~done \/ job.off[i] + job.len[i] > Size)
             e == c.error \/ short
             d == [c EXCEPT !.error = e]
  <2>1. job' = dd_target_write(d, i, ok)
    BY <1>5, Zenon DEF read_done
  <2>2. e \in BOOLEAN /\ (c.error => e)
    BY Zenon
  <2> HIDE DEF c, short, e
  <2>3. Back(job, [c EXCEPT !.error = e, !.size = c.size])
    BY <1>3, <2>2, BackMore, Zenon
  <2>4. d = [c EXCEPT !.error = e, !.size = c.size]
    BY <1>3, Zenon DEF Job
  <2> HIDE DEF d
  <2> QED BY <1>2, <2>1, <2>3, <2>4, PassMoves, Zenon
<1>6. CASE write_done(i, done, ok, found)
  <2> DEFINE end == WriteOffset(job, i) + CeilBlock(job.len[i])
             e == c.error \/ (~mode.outb /\ ~done)
             s == IF done /\ ~mode.outb THEN Max({c.size, end}) ELSE c.size
             d == [c EXCEPT !.error = e, !.size = s]
  <2>1. job' = dd_target_seek(d, i, ok, found)
    BY <1>6, Zenon DEF write_done
  <2>2. e \in BOOLEAN /\ (c.error => e)
    BY Zenon
  <2>3. s \in Nat
    <3>1. end \in Nat
      <4>1. job.off[i] \in Nat /\ job.len[i] \in Nat /\ job.off[i] >= Start
        BY <1>2, SMTT(30) DEF Core, Ranges, Job
      <4>2. Start \in Nat /\ OutStart \in Nat /\ CeilBlock(job.len[i]) \in Nat
        BY <1>2, <4>1, Places, CeilNat, Zenon
      <4> QED BY <4>1, <4>2 DEF WriteOffset
    <3> HIDE DEF c, end
    <3>2. Max({c.size, end}) = IF c.size >= end THEN c.size ELSE end
      BY <1>3, <3>1, MoreOfTwo
    <3> QED BY <1>3, <3>1, <3>2, Zenon
  <2> HIDE DEF c, e, s
  <2>4. Back(job, d)
    BY <1>3, <2>2, <2>3, BackMore, Zenon
  <2> HIDE DEF d
  <2>5. d \in Job /\ i \notin Seeking(d) /\ Waits(d)
    BY <1>2, <2>4, BackMoves, Zenon
  <2> QED BY <2>1, <2>5, SeekMoves, Zenon
<1> QED BY <1>4, <1>5, <1>6, Zenon

\* With no more than two dd_ios, one that seeks while another waits is the only one
\* whose operation is under way.
LEMMA Alone ==
  ASSUME Depth <= 2, DdInv, NEW i \in Seeking(job), ~Stop(job), Tail(job.seek_queue) # <<>>
  PROVE  job.outstanding = 1
<1>1. /\ job \in Job /\ Queue(job, {}) /\ Counts(job, {}) /\ i \in Io /\ i \in InAir(job)
  BY Zenon DEF DdInv, Core, Seeking, InAir, Flying
<1>2. AtHead(job, i)
  BY <1>1, Seeker, Zenon
<1>3. 2 \in 1 .. Len(job.seek_queue) /\ 1 \in 1 .. Len(job.seek_queue)
  <2>1. job.seek_queue \in Seq(Io) /\ job.seek_queue # <<>>
    BY <1>1, <1>2, Zenon DEF Job, AtHead
  <2>2. Len(job.seek_queue) \in Nat /\ Len(job.seek_queue) >= 2
    BY <2>1
  <2> QED BY <2>2
<1> DEFINE n == job.seek_queue[2]
<1>4. n \in Io /\ n # i /\ job.st[n] \in {"queued", "rest", "seek_data", "seek_hole"}
  <2>1. n \in Io
    BY <1>1, <1>3, SMTT(30) DEF Job
  <2>2. n # i
    <3>1. 1 # 2
      OBVIOUS
    <3> QED BY <1>2, <1>3, <3>1, Zenon DEF AtHead
  <2> QED BY <1>1, <1>3, <2>1, <2>2, Zenon DEF Queue
<1> HIDE DEF n
<1>5. n \notin Seeking(job)
  BY <1>2, <1>4, Zenon DEF AtHead
<1>6. n \notin InAir(job)
  BY <1>4, <1>5, Zenon DEF InAir, Seeking, Flying
<1>7. \A m \in Io : m = i \/ m = n
  BY <1>1, <1>4 DEF Io
<1>8. InAir(job) = {i}
  BY <1>1, <1>6, <1>7, Zenon DEF InAir
<1>9. Cardinality({i}) = 1
  BY FS_Singleton, Zenon
<1>10. InAir(job) \ {} = {i} /\ ~Faulty(job)
  BY <1>8, Zenon DEF Faulty
<1> QED BY <1>1, <1>9, <1>10, Zenon DEF Counts

\* _dd_bdev_seek_data_done.
LEMMA SeekDataMoves ==
  ASSUME Depth <= 2, DdInv, NEW i \in Io, NEW ok \in BOOLEAN, seek_data_done(i, ok)
  PROVE  Waits(job') /\ Works(job')
<1> DEFINE c == Done(job)
<1>1. /\ job.st[i] = "seek_data"
      /\ job' = IF Stop(job) THEN ExitIfIdle(Rest(Dequeue(job), i))
                ELSE IF Data(job.pos) = {} THEN dd_finalize_output(Rest(Dequeue(c), i), ok)
                ELSE LET k == [c EXCEPT !.pos = Min(Data(job.pos))]
                         sent == ok /\ SeekTaken(Min(Data(job.pos)))
                     IN  Submit(IF sent THEN k ELSE Dequeue(k), i, "seek_hole", sent)
  BY Zenon DEF seek_data_done, SoughtData
<1>2. /\ ModeOK /\ Core(job, {}) /\ Queue(job, {}) /\ job \in Job /\ i \in InAir(job)
      /\ i \in Seeking(job)
  BY <1>1, Zenon DEF DdInv, Core, InAir, Seeking, Flying
<1>3. AtHead(job, i) /\ Tail(job.seek_queue) \in Seq(Io)
  BY <1>2, Seeker, Zenon
<1>4. Back(job, c)
  BY <1>2, DoneBack, Zenon
<1> HIDE DEF c
<1>5. /\ c \in Job /\ c.seek_queue = job.seek_queue /\ c.outstanding = job.outstanding - 1
      /\ c.outstanding \in Nat
  BY <1>4, Zenon DEF Back, Job
<1>6. CASE Stop(job)
  <2> DEFINE d == Dequeue(job)
             r == ExitIfIdle(Rest(d, i))
  <2>1. job' = r
    BY <1>1, <1>6, Zenon
  <2>2. d \in Job /\ d.error = job.error
    BY <1>2, <1>3, DequeueLike, Zenon DEF Like
  <2> HIDE DEF d
  <2>3. r.error = d.error
    BY <2>2, RestLike, Zenon
  <2> HIDE DEF r
  <2> QED BY <1>6, <2>1, <2>2, <2>3, Zenon DEF Waits, Works, Stop
<1>7. CASE ~Stop(job) /\ Data(job.pos) = {}
  <2> DEFINE d == Dequeue(c)
             r == Rest(d, i)
  <2>1. job' = dd_finalize_output(r, ok)
    BY <1>1, <1>7, Zenon
  <2>2. d \in Job /\ d.seek_queue = Tail(job.seek_queue) /\ d.outstanding = c.outstanding
    BY <1>3, <1>5, DequeueShorter, Zenon DEF Shorter
  <2> HIDE DEF d
  <2>3. r \in Job /\ r.seek_queue = d.seek_queue /\ r.outstanding = d.outstanding
    BY <2>2, Zenon DEF Rest, Job, States
  <2> HIDE DEF r
  <2>4. CASE r.outstanding > 0
    <3>1. job' = r
      BY <2>1, <2>4, Zenon DEF dd_finalize_output
    <3>2. job.outstanding # 1
      BY <1>5, <2>2, <2>3, <2>4
    <3>3. r.seek_queue = <<>>
      BY <1>2, <1>7, <2>2, <2>3, <3>2, Alone, Zenon
    <3> QED BY <2>4, <3>1, <3>3, Zenon DEF Waits, Works
  <2>5. CASE ~(r.outstanding > 0)
    <3> DEFINE n == r.exits + 1
               z == Max({r.size, OutStart + copy_size})
    <3>1. job' \in {[r EXCEPT !.exits = n], [[r EXCEPT !.size = z] EXCEPT !.exits = n],
                    [[r EXCEPT !.error = TRUE] EXCEPT !.exits = n]}
      <4>1. /\ [r EXCEPT !.size = z].exits = r.exits
            /\ [r EXCEPT !.error = TRUE].exits = r.exits
        BY <2>3, Zenon DEF Job
      <4>2. dd_exit(r) = [r EXCEPT !.exits = n]
        BY Zenon DEF dd_exit
      <4>3. dd_exit([r EXCEPT !.size = z]) = [[r EXCEPT !.size = z] EXCEPT !.exits = n]
        BY <4>1, Zenon DEF dd_exit
      <4>4. dd_exit([r EXCEPT !.error = TRUE]) = [[r EXCEPT !.error = TRUE] EXCEPT !.exits = n]
        BY <4>1, Zenon DEF dd_exit
      <4>5. \/ job' = dd_exit(r) \/ job' = dd_exit([r EXCEPT !.size = z])
            \/ job' = dd_exit([r EXCEPT !.error = TRUE])
        BY <2>1, <2>5, Zenon DEF dd_finalize_output
      <4> QED BY <4>2, <4>3, <4>4, <4>5, Zenon
    <3>2. n # 0
      <4>1. r.exits \in Nat
        BY <2>3, Zenon DEF Job
      <4> QED BY <4>1
    <3> HIDE DEF n, z
    <3>3. job'.exits = n
      BY <2>3, <3>1, Zenon DEF Job
    <3> QED BY <3>2, <3>3, Zenon DEF Waits, Works
  <2> QED BY <2>4, <2>5, Zenon
<1>8. CASE ~Stop(job) /\ Data(job.pos) # {}
  <2> DEFINE p == Min(Data(job.pos))
             k == [c EXCEPT !.pos = p]
             sent == (ok /\ SeekTaken(p))
             m == IF sent THEN k ELSE Dequeue(k)
  <2>1. job' = Submit(m, i, "seek_hole", sent) /\ sent \in BOOLEAN
    BY <1>1, <1>8, Zenon
  <2>2. p \in Nat
    <3>1. p \in data
      BY <1>2, <1>8, Searches, Zenon DEF Job
    <3>2. data \subseteq Nat
      BY <1>2 DEF ModeOK
    <3> QED BY <3>1, <3>2, Zenon
  <2> HIDE DEF p, sent
  <2>3. k \in Job /\ k.seek_queue = c.seek_queue
    BY <1>5, <2>2, Zenon DEF Job
  <2> HIDE DEF k
  <2>4. Dequeue(k) \in Job
    BY <1>3, <1>5, <2>3, DequeueShorter, Zenon DEF Shorter
  <2>5. m \in Job
    BY <2>3, <2>4, Zenon
  <2> HIDE DEF m
  <2>6. "seek_hole" \in Flying /\ "seek_hole" \in {"seek_data", "seek_hole"}
    BY Zenon DEF Flying
  <2> QED BY <2>1, <2>5, <2>6, SubmitMoves, Zenon
<1> QED BY <1>6, <1>7, <1>8, Zenon

\* _dd_bdev_seek_hole_done.
LEMMA SeekHoleMoves ==
  ASSUME Plain, DdInv, CopyInv, NEW i \in Io, NEW ok \in BOOLEAN, NEW okNext \in BOOLEAN,
         seek_hole_done(i, ok, okNext)
  PROVE  Waits(job') /\ Works(job')
<1> DEFINE d == Dequeue(job)
           j == Done(d)
           k == dd_target_populate_buffer(FromTo(j, i, j.pos, BdevHole(job.pos)), i, ok)
           h == Head(k.seek_queue)
<1>1. /\ job.st[i] = "seek_hole"
      /\ job' = IF Stop(job) THEN ExitIfIdle(Rest(d, i))
                ELSE IF k.seek_queue # <<>> /\ k.pos < Size
                THEN Submit(k, h, "seek_data", okNext)
                ELSE k
  BY Zenon DEF seek_hole_done, SoughtHole
<1>2. /\ ModeOK /\ Core(job, {}) /\ Queue(job, {}) /\ job \in Job /\ i \in InAir(job)
      /\ i \in Seeking(job)
  BY <1>1, Zenon DEF DdInv, Core, InAir, Seeking, Flying
<1>3. AtHead(job, i) /\ Tail(job.seek_queue) \in Seq(Io) /\ mode.sparse /\ mode.inb
  BY <1>2, Seeker, Zenon DEF AtHead
<1>4. d \in Job /\ d.error = job.error /\ d.st = job.st /\ d.pos = job.pos
  BY <1>2, <1>3, DequeueShorter, Zenon DEF Shorter
<1>5. Core(d, {}) /\ i \in InAir(d)
  BY <1>2, <1>3, DequeueShorter, CoreShorterAll, Zenon
<1> HIDE DEF d
<1>6. CASE Stop(job)
  <2> DEFINE r == ExitIfIdle(Rest(d, i))
  <2>1. job' = r
    BY <1>1, <1>6, Zenon
  <2>2. r.error = d.error
    BY <1>4, RestLike, Zenon
  <2> HIDE DEF r
  <2> QED BY <1>4, <1>6, <2>1, <2>2, Zenon DEF Waits, Works, Stop
<1>7. CASE ~Stop(job)
  <2>1. j \in Job /\ j.pos = job.pos
    BY <1>2, <1>4, <1>5, DoneLike, Zenon DEF Like
  <2>2. job' = IF k.seek_queue # <<>> /\ k.pos < Size THEN Submit(k, h, "seek_data", okNext) ELSE k
    BY <1>1, <1>7, Zenon
  <2> HIDE DEF j
  <2>3. j.pos \in data
    <3>1. i \in Io \ {}
      BY Zenon
    <3> QED BY <1>1, <1>2, <1>3, <2>1, <3>1, Zenon DEF Core, OnData
  <2>4. Took(j, i, k) /\ k \in Job /\ (i \in Busy(k) \/ Stop(k))
    <3> DEFINE p == j.pos
    <3>1. p \in data /\ p >= j.pos /\ \A x \in j.pos .. p - 1 : x \notin data
      BY <2>1, <2>3 DEF Job
    <3>2. k = dd_target_populate_buffer(FromTo(j, i, p, BdevHole(p)), i, ok)
      BY <2>1, Zenon
    <3> HIDE DEF p, k
    <3>3. k = dd_target_populate_buffer(FromTo(j, i, p, NextHole(p)), i, ok)
      BY <1>2, <1>3, <2>1, <3>1, <3>2, HoleAlike, Zenon
    <3> QED BY <1>2, <1>3, <2>1, <3>1, <3>3, SearchTakes, Zenon
  <2> HIDE DEF k
  <2>5. CASE ~(k.seek_queue # <<>> /\ k.pos < Size)
    <3>1. job' = k
      BY <2>2, <2>5, Zenon
    <3>2. Works(k)
      BY <2>4, Zenon DEF Works, InAir, Busy, Flying
    <3>3. k.seek_queue # <<>> => AtEnd(k)
      <4>1. k.pos - Start <= copy_size /\ k.pos \in Nat
        BY <2>4, Zenon DEF Took, Job
      <4>2. copy_size = Size - Start
        BY <1>2, <1>3, Zenon DEF copy_size, Plain, ModeOK
      <4>3. Start \in Nat
        BY <1>2, Places, Zenon
      <4> QED BY <2>5, <4>1, <4>2, <4>3 DEF AtEnd
    <3> QED BY <3>1, <3>2, <3>3, Zenon DEF Waits
  <2>6. CASE k.seek_queue # <<>> /\ k.pos < Size
    <3>1. job' = Submit(k, h, "seek_data", okNext)
      BY <2>2, <2>6, Zenon
    <3>2. h \in Io
      BY <2>4, <2>6, SMTT(30) DEF Job
    <3> HIDE DEF h
    <3>3. "seek_data" \in Flying /\ "seek_data" \in {"seek_data", "seek_hole"}
      BY Zenon DEF Flying
    <3> QED BY <2>4, <3>1, <3>2, <3>3, SubmitMoves, Zenon
  <2> QED BY <2>5, <2>6, Zenon
<1> QED BY <1>6, <1>7, Zenon

\* Every step keeps a copy that seeks in a bdev moving.
LEMMA MovingStep ==
  ASSUME Plain, Depth <= 2, DdInv, CopyInv, Moving, [Next]_vars, ~astray'
  PROVE  Moving'
<1>0. ModeOK /\ job \in Job /\ next \in 0 .. Depth /\ job.exits \in Nat
  BY Zenon DEF DdInv, Core, Job
<1>1. ASSUME mode' = mode, intr' = intr,
             mode.sparse /\ mode.inb /\ Waits(job) => Waits(job') /\ (next' > 0 => Works(job'))
      PROVE  Moving'
  <2>1. /\ Waits(job)' = Waits(job') /\ Works(job)' = Works(job')
    BY <1>1, Zenon DEF Waits, Works, Stop, Seeking, InAir, AtEnd, copy_size
  <2> QED BY <1>1, <2>1, Zenon DEF Moving
<1>2. CASE dd_run_refused
  <2> DEFINE f == [job EXCEPT !.error = TRUE]
             n == f.exits + 1
             k == [f EXCEPT !.exits = n]
  <2>1. mode' = mode /\ intr' = intr /\ job' = k
    BY <1>2, Zenon DEF dd_run_refused, dd_exit
  <2>2. f \in Job /\ f.error
    BY <1>0, Zenon DEF Job
  <2> HIDE DEF f, n
  <2>3. k.error
    BY <2>2, Zenon DEF Job
  <2> HIDE DEF k
  <2>4. Waits(job') /\ Works(job')
    BY <2>1, <2>3, Zenon DEF Waits, Works, Stop
  <2> QED BY <1>1, <2>1, <2>4, Zenon
<1>3. ASSUME NEW ok \in BOOLEAN, NEW found, dd_run(ok, found)
      PROVE  Moving'
  <2>1. /\ mode' = mode /\ intr' = intr /\ next < queue_depth
        /\ job' = dd_target_seek(job, next, ok, found)
    BY <1>3, Zenon DEF dd_run
  <2>2. next \in Io
    BY <1>0, <2>1, DepthBound DEF Io
  <2>3. job.st[next] = "new"
    BY <1>0, <2>2 DEF DdInv, Loop
  <2>4. next \notin Seeking(job)
    BY <2>3, Zenon DEF Seeking
  <2>5. mode.sparse /\ mode.inb /\ Waits(job) => Waits(job') /\ Works(job')
    BY <1>0, <2>1, <2>2, <2>4, SeekMoves, Zenon
  <2> QED BY <1>1, <2>1, <2>5, Zenon
<1>4. ASSUME NEW i \in Io, NEW ok \in BOOLEAN, NEW done \in BOOLEAN, NEW found,
             populate_done(i, done, ok) \/ read_done(i, done, ok) \/ write_done(i, done, ok, found)
      PROVE  Moving'
  <2>1. mode' = mode /\ intr' = intr
    BY <1>4, Zenon DEF populate_done, read_done, write_done, Completed
  <2> QED BY <1>1, <1>4, <2>1, DoneMoves, Zenon
<1>5. ASSUME NEW i \in Io, NEW ok \in BOOLEAN, seek_data_done(i, ok)
      PROVE  Moving'
  <2>1. mode' = mode /\ intr' = intr
    BY <1>5, Zenon DEF seek_data_done, SoughtData
  <2> QED BY <1>1, <1>5, <2>1, SeekDataMoves, Zenon
<1>6. ASSUME NEW i \in Io, NEW ok \in BOOLEAN, NEW okNext \in BOOLEAN, seek_hole_done(i, ok, okNext)
      PROVE  Moving'
  <2>1. mode' = mode /\ intr' = intr
    BY <1>6, Zenon DEF seek_hole_done, SoughtHole
  <2> QED BY <1>1, <1>6, <2>1, SeekHoleMoves, Zenon
<1>7. CASE dd_finish
  BY <1>7, Zenon DEF dd_finish, Moving, Waits, Works, Stop
<1>8. CASE UNCHANGED vars
  BY <1>8, Zenon DEF vars, Moving, Waits, Works, Stop, Seeking, InAir, AtEnd, copy_size
<1>9. CASE Progress
  <2>1. Accepted \subseteq BOOLEAN /\ (IF "start" \in Faults THEN BOOLEAN ELSE {TRUE}) \subseteq BOOLEAN
    BY Zenon DEF Accepted
  <2>2. CASE \E ok \in IF "start" \in Faults THEN BOOLEAN ELSE {TRUE}, found \in Found : dd_run(ok, found)
    BY <1>3, <2>1, <2>2, Zenon
  <2>3. CASE \E i \in Io, ok \in Accepted :
               \/ \E done \in BOOLEAN : populate_done(i, done, ok) \/ read_done(i, done, ok)
               \/ \E done \in BOOLEAN, found \in Found : write_done(i, done, ok, found)
               \/ seek_data_done(i, ok)
               \/ \E okNext \in Accepted : seek_hole_done(i, ok, okNext)
    BY <1>4, <1>5, <1>6, <2>1, <2>3, Zenon
  <2>4. CASE \E i \in Io, ok \in Accepted :
               \/ \E found \in {{}} \cup {{p} : p \in Stale} : seek_data_failed(i, found, ok)
               \/ \E okNext \in Accepted, hole \in Stale : seek_hole_failed(i, hole, ok, okNext)
    BY <2>4, Zenon DEF seek_data_failed, seek_hole_failed
  <2> QED BY <1>2, <1>9, <2>2, <2>3, <2>4, Zenon DEF Progress
<1> QED BY <1>7, <1>8, <1>9, Zenon DEF Next

\* A copy whose operations have all completed has called dd_exit, if --sparse is
\* used without --count and there are no more than two dd_ios (the default of --qd),
\* also when it seeks in a bdev.  (With three, one can be left waiting in the queue
\* when the seek before it finds no more data.)
THEOREM DdNeverStuckTwo == Plain /\ Depth <= 2 => (Spec => []NeverStuck)
<1> SUFFICES ASSUME Plain, Depth <= 2 PROVE Spec => []NeverStuck
  BY Zenon
<1>1. Init => Moving
  <2> SUFFICES ASSUME Init PROVE Moving
    BY Zenon
  <2>1. job.seek_queue = <<>> /\ ~(next > 0)
    <3>1. job.seek_queue = <<>> /\ next = 0
      BY Zenon DEF Init
    <3> QED BY <3>1
  <2> QED BY <2>1, Zenon DEF Moving, Waits
<1>2. DdInv /\ CopyInv /\ Moving /\ [Next]_vars => astray' \/ Moving'
  BY MovingStep, Zenon
<1>3. DdInv /\ Moving => NeverStuck
  <2> SUFFICES ASSUME DdInv, Moving, next > 0, InFlight = {}, job.exits = 0, ~SeekFault
               PROVE  FALSE
    <3>1. DdInv => job.exits \in Nat
      BY Zenon DEF DdInv, Core, Job
    <3>2. \A n \in Nat : n > 0 \/ n = 0
      OBVIOUS
    <3> QED BY <3>1, <3>2, Zenon DEF NeverStuck
  <2>1. InAir(job) = {} /\ ~Faulty(job)
    BY Zenon DEF InAir, InFlight, Flying, SeekFault, SeekStopped, Faulty, Stop
  <2>2. job.outstanding = 0
    <3>1. Counts(job, {}) /\ InAir(job) \ {} = {}
      BY <2>1, Zenon DEF DdInv, Core
    <3> QED BY <2>1, <3>1, FS_EmptySet, Zenon DEF Counts
  <2>3. CASE mode.sparse /\ mode.inb
    <3>1. Works(job) /\ ~Stop(job)
      BY <2>1, <2>3, Zenon DEF Moving, Faulty
    <3>2. ~(job.outstanding > 0)
      BY <2>2
    <3> QED BY <2>1, <3>1, <3>2, Zenon DEF Works
  <2>4. CASE ~(mode.sparse /\ mode.inb)
    BY <2>1, <2>4 DEF DdInv, Loop
  <2> QED BY <2>3, <2>4, Zenon
<1>4. astray /\ [Next]_vars => astray'
  BY AstrayStays, Zenon
<1>5. astray => NeverStuck
  BY AstrayMeans, Zenon
<1> QED BY <1>1, <1>2, <1>3, <1>4, <1>5, CopyAlways, PTL DEF Spec
=============================================================================

------------------------------- MODULE DdCopy -------------------------------
(***************************************************************************)
(* The copy engine of spdk_dd (src/app/spdk_dd.c, built without io_uring). *)
(* g_opts.queue_depth dd_ios share g_job.input.pos; each goes round        *)
(* seek, populate, read, write; the one that finds nothing left to do and  *)
(* nothing outstanding calls dd_exit.  One thread runs the handlers, and   *)
(* a handler calls the next ones itself until something is submitted: an   *)
(* operator dd_xxx(j, i) below maps the job before the call to the job     *)
(* after it.  Offsets count blocks of the input.                           *)
(***************************************************************************)
EXTENDS Integers, Sequences, FiniteSets, FiniteSetsExt

CONSTANTS
  Size,      \* blocks of the input
  OutSize,   \* blocks of the output, if it is a bdev
  Unit,      \* --bs, in blocks
  Depth,     \* --qd
  Skip, Seek,\* --skip and --seek, in units
  OutBlock,  \* block size of an output bdev, in blocks
  Modes,     \* [sparse, inb, outb : BOOLEAN, count : Nat]: --sparse, --ib
             \* rather than --if, --ob rather than --of, --count
  Faults,    \* what may fail: "start", "submit", "file", "bdev", "seek"
  Stale      \* the offsets an earlier use of a bdev_io may leave in it

ASSUME DdAssumption ==
  /\ {Size, OutSize, Skip, Seek} \subseteq Nat
  /\ {Unit, Depth, OutBlock} \subseteq Nat \ {0}
  /\ OutBlock <= Unit /\ Skip * Unit <= Size
  /\ Modes \subseteq [sparse : BOOLEAN, inb : BOOLEAN, outb : BOOLEAN, count : Nat]

ASSUME FaultAssumption ==
  Faults \subseteq {"start", "submit", "file", "bdev", "seek"} /\ Stale \subseteq Nat

VARIABLES
  mode,  \* the options
  data,  \* the blocks of the input that are not holes
  next,  \* the dd_ios that dd_run has started so far
  job,   \* g_job and g_error, and the size of an output file
  buf,   \* the buffers of the dd_ios
  intr,  \* g_interrupt
  out,   \* the output: 0 is what was there before, o + 1 block o of the input
  lost,  \* history: a bdev I/O failed, which its callback does not look at
  astray \* history: a seek in a bdev failed, which its callback does not look at

vars == <<mode, data, next, job, buf, intr, out, lost, astray>>

\* The first io_count of these are in use (dd_open_file and dd_open_bdev bound the
\* depth by what there is to copy).
Io == 0 .. Depth - 1

Start == Skip * Unit      \* where reading starts
OutStart == Seek * Unit   \* where writing starts: g_job.output.pos

\* What can be written.
Blocks == 0 .. IF OutStart + Size >= OutSize THEN OutStart + Size ELSE OutSize

copy_size == IF mode.count # 0 THEN mode.count * Unit ELSE Size - Start

out_block == IF mode.outb THEN OutBlock ELSE 1

CeilBlock(n) == ((n + out_block - 1) \div out_block) * out_block

\* dd_open_file, dd_open_bdev: a subtraction below zero wraps round and bounds
\* nothing.
AtMostUnits(d, total, skipped) ==
  IF total \div Unit + 1 >= skipped THEN Min({d, total \div Unit - skipped + 1}) ELSE d

\* dd_open_file: a file of no size is taken to have what --count asks for.
total_size == IF ~mode.inb /\ Size = 0 THEN mode.count * Unit ELSE Size

queue_depth ==
  LET din == AtMostUnits(Depth, total_size, Skip)
      dout == IF mode.outb THEN AtMostUnits(din, OutSize, Seek) ELSE din
  IN  IF mode.count # 0 THEN Min({dout, mode.count}) ELSE dout

Source(o) == IF o \in data THEN o + 1 ELSE -1

\* What lseek with SEEK_DATA and SEEK_HOLE, and the seeks of a bdev, find (external).
\* The end of a file is a hole; for a bdev with no hole left io->length is one unit.
Data(p) == {o \in data : o >= p}
NextHole(p) == Min({o \in p .. Size : o \notin data})
BdevHole(p) == IF NextHole(p) = Size THEN p + Unit ELSE NextHole(p)

Init ==
  /\ mode \in Modes
  /\ data \in SUBSET (0 .. Size - 1)
  /\ job = [pos |-> Start, outstanding |-> 0, error |-> FALSE, exits |-> 0, seek_queue |-> <<>>,
            st |-> [i \in Io |-> "new"], off |-> [i \in Io |-> 0],
            len |-> [i \in Io |-> Unit], size |-> 0]
  /\ next = 0
  /\ buf = [i \in Io |-> <<>>]
  /\ intr = FALSE
  /\ out = [o \in Blocks |-> 0]
  /\ lost = FALSE
  /\ astray = FALSE

-----------------------------------------------------------------------------
(* The handlers; ok tells whether the submission they may make is accepted.  *)

dd_exit(j) == [j EXCEPT !.exits = @ + 1]
ExitIfIdle_Busy(j) == dd_exit(j)
ExitIfIdle(j) == IF j.outstanding = 0 THEN dd_exit(j) ELSE j
Rest(j, i) == [j EXCEPT !.st[i] = "rest"]
Stop(j) == j.error \/ intr

Submit_Counted(j, i, op, ok) ==
  IF ok THEN [j EXCEPT !.outstanding = @ + 1, !.st[i] = op]
        ELSE ExitIfIdle([Rest(j, i) EXCEPT !.error = TRUE, !.outstanding = @ + 1])

Submit_FallsOn(j, i, op, ok) ==
  IF ok THEN [j EXCEPT !.outstanding = @ + 1, !.st[i] = op]
        ELSE ExitIfIdle(ExitIfIdle([Rest(j, i) EXCEPT !.error = TRUE]))

\* Submit an operation of type op, or undo the count and fail.
Submit(j, i, op, ok) ==
  IF ok THEN [j EXCEPT !.outstanding = @ + 1, !.st[i] = op]
        ELSE ExitIfIdle([Rest(j, i) EXCEPT !.error = TRUE])

WriteOffset(j, i) == OutStart + j.off[i] - Start

\* The bdev layer takes whole blocks inside the bdev, and seeks from one; no offset
\* is negative (external).
BdevTakes(off, n) == off % out_block = 0 /\ off + n <= OutSize
OutTakes(j, i) ==
  /\ WriteOffset(j, i) >= 0
  /\ mode.outb => BdevTakes(WriteOffset(j, i), CeilBlock(j.len[i]))
InTakes(j, i) == mode.inb => j.off[i] + j.len[i] <= Size
SeekTaken(p) == p < Size

dd_target_write(j, i, ok) ==
  IF Stop(j) THEN ExitIfIdle(Rest(j, i)) ELSE Submit(j, i, "write", ok /\ OutTakes(j, i))

dd_target_read(j, i, ok) ==
  IF Stop(j) THEN ExitIfIdle(Rest(j, i)) ELSE Submit(j, i, "read", ok /\ InTakes(j, i))

\* Reading has come to the end of the region exactly.  Past the end the difference
\* of the unsigned numbers is huge.
AtEnd(j) == copy_size = j.pos - Start
Left_OfInput(j, n) == Min({n, Size - j.pos})
Left(j, n) == IF copy_size >= j.pos - Start THEN Min({n, copy_size - (j.pos - Start)}) ELSE n

dd_target_populate_buffer_Stays(j, i, ok) ==
  LET k == [j EXCEPT !.off[i] = j.pos, !.len[i] = Left(j, j.len[i])]
      m == k
  IN  IF k.len[i] = 0 \/ Stop(k) THEN ExitIfIdle(Rest(k, i))
      ELSE IF k.len[i] % out_block = 0 THEN dd_target_read(m, i, ok)
      ELSE Submit(m, i, "populate", ok /\ OutTakes(m, i))

dd_target_populate_buffer_Unit(j, i, ok) ==
  LET k == [j EXCEPT !.off[i] = j.pos, !.len[i] = Left(j, j.len[i])]
      m == [k EXCEPT !.pos = @ + Unit]
  IN  IF k.len[i] = 0 \/ Stop(k) THEN ExitIfIdle(Rest(k, i))
      ELSE IF k.len[i] % out_block = 0 THEN dd_target_read(m, i, ok)
      ELSE Submit(m, i, "populate", ok /\ OutTakes(m, i))

\* Take the next range; if it does not fill its last block of the output, read what
\* the output has there first.
dd_target_populate_buffer(j, i, ok) ==
  LET k == [j EXCEPT !.off[i] = j.pos, !.len[i] = Left(j, j.len[i])]
      m == [k EXCEPT !.pos = @ + k.len[i]]
  IN  IF k.len[i] = 0 \/ Stop(k) THEN ExitIfIdle(Rest(k, i))
      ELSE IF k.len[i] % out_block = 0 THEN dd_target_read(m, i, ok)
      ELSE Submit(m, i, "populate", ok /\ OutTakes(m, i))

dd_finalize_output_NoExit(j, ok) == j

\* The last one to come here brings an output file up to its size, unless lseek or
\* ftruncate fails, and exits.
dd_finalize_output(j, ok) ==
  IF j.outstanding > 0 THEN j
  ELSE IF mode.outb THEN dd_exit(j)
  ELSE IF ok THEN dd_exit([j EXCEPT !.size = Max({@, OutStart + copy_size})])
  ELSE dd_exit([j EXCEPT !.error = TRUE])

FromTo_Whole(j, i, p, h) == [j EXCEPT !.pos = p, !.len[i] = h - p]

\* Where the io goes on, with the hole at h.
FromTo(j, i, p, h) == [j EXCEPT !.pos = p, !.len[i] = Min({Unit, h - p})]

\* An input file is searched at once, for data and then for a hole, and found says
\* which of the two succeed (neither does in a file that dd_exit has closed).  A
\* failure is an error if nothing is outstanding and passed over otherwise.
dd_target_seek(j, i, ok, found) ==
  IF ~mode.sparse THEN dd_target_populate_buffer(j, i, ok)
  ELSE IF AtEnd(j) \/ Stop(j) THEN ExitIfIdle(Rest(j, i))
  ELSE IF ~mode.inb THEN
    LET p == Min(Data(j.pos))
        Fail(k) == ExitIfIdle([Rest(k, i) EXCEPT !.error = @ \/ k.outstanding = 0])
    IN  IF j.exits > 0 \/ found = "none" THEN Fail(j)
        ELSE IF Data(j.pos) = {} THEN dd_finalize_output(Rest(j, i), ok)
        ELSE IF found = "data" THEN Fail([j EXCEPT !.pos = p])
        ELSE dd_target_populate_buffer(FromTo(j, i, p, NextHole(p)), i, ok)
  ELSE LET q == [j EXCEPT !.seek_queue = Append(@, i)]
       IN  IF j.seek_queue = <<>> THEN Submit(q, i, "seek_data", ok /\ SeekTaken(j.pos))
                                  ELSE [q EXCEPT !.st[i] = "queued"]

Dequeue(j) == [j EXCEPT !.seek_queue = Tail(@)]
Done(j) == [j EXCEPT !.outstanding = @ - 1]

-----------------------------------------------------------------------------
(* The steps *)

\* dd_run: what the sizes of the bdevs and their blocks refuse.
Refused ==
  LET n == mode.count * Unit
  IN  \/ mode.inb /\ (Start > Size \/ Start + n > Size)
      \/ mode.outb /\ (OutStart > OutSize \/ OutStart + n > OutSize)
      \/ out_block > Unit

dd_run_refused ==
  /\ next = 0 /\ job.exits = 0 /\ Refused
  /\ job' = dd_exit([job EXCEPT !.error = TRUE])
  /\ UNCHANGED <<mode, data, next, buf, intr, out, lost, astray>>

\* dd_run: dd_target_seek for every dd_io in turn.  Nothing completes before the
\* loop is over, but the signal that interrupts may come.
dd_run(ok, found) ==
  /\ next < queue_depth /\ ~Refused
  /\ next' = next + 1
  /\ job' = dd_target_seek(job, next, ok, found)
  /\ UNCHANGED <<mode, data, buf, intr, out, lost, astray>>

Accepted == IF "submit" \in Faults THEN BOOLEAN ELSE {TRUE}
Found ==
  IF "file" \in Faults /\ mode.sparse /\ ~mode.inb THEN {"both", "data", "none"} ELSE {"both"}

\* An operation comes back: whether it was on a bdev, and whether it was done.
\* A file tells, a bdev's callback does not look.
OnBdev(i) == IF job.st[i] = "read" THEN mode.inb ELSE mode.outb
Completed(i, done) ==
  /\ job.exits = 0 /\ next = queue_depth
  /\ ~done => (IF OnBdev(i) THEN "bdev" ELSE "file") \in Faults
  /\ lost' = (lost \/ (~done /\ OnBdev(i)))
  /\ UNCHANGED <<mode, data, next, intr, astray>>

Span(i) == 0 .. CeilBlock(job.len[i]) - 1
Junk == -2

\* _dd_target_populate_buffer_done.  (A file has blocks of size one and never
\* needs it.)
populate_done(i, done, ok) ==
  /\ job.st[i] = "populate" /\ Completed(i, done)
  /\ LET w == WriteOffset(job, i)
     IN  buf' = [buf EXCEPT ![i] = [k \in Span(i) |-> IF done THEN out[w + k] ELSE Junk]]
  /\ job' = dd_target_read(Done(job), i, ok)
  /\ UNCHANGED out

\* _dd_read_bdev_done; dd_aio_poll for a read, which a file cuts off at its end.
read_done(i, done, ok) ==
  /\ job.st[i] = "read" /\ Completed(i, done)
  /\ buf' = [buf EXCEPT ![i] = [k \in Span(i) |->
                IF k >= job.len[i] THEN @[k]
                ELSE IF done THEN Source(job.off[i] + k) ELSE Junk]]
  /\ LET short == ~mode.inb /\ (~done \/ job.off[i] + job.len[i] > Size)
     IN  job' = dd_target_write([Done(job) EXCEPT !.error = @ \/ short], i, ok)
  /\ UNCHANGED out

write_done_Retries(i, done, ok, found) ==
  /\ job.st[i] = "write" /\ Completed(i, done)
  /\ LET w == WriteOffset(job, i)
         end == w + CeilBlock(job.len[i])
         k == [Done(job) EXCEPT !.size = IF done /\ ~mode.outb THEN Max({@, end}) ELSE @]
     IN  IF done \/ mode.outb
         THEN /\ out' = [o \in Blocks |->
                           IF done /\ o \in w .. end - 1 THEN buf[i][o - w] ELSE out[o]]
              /\ buf' = [buf EXCEPT ![i] = <<>>]
              /\ job' = dd_target_seek(k, i, ok, found)
         ELSE UNCHANGED <<out, buf>> /\ job' = dd_target_read(Done(job), i, ok)

\* _dd_write_bdev_done; dd_aio_poll for a write.
write_done(i, done, ok, found) ==
  /\ job.st[i] = "write" /\ Completed(i, done)
  /\ LET w == WriteOffset(job, i)
         end == w + CeilBlock(job.len[i])
         k == [Done(job) EXCEPT !.error = @ \/ (~mode.outb /\ ~done),
                                !.size = IF done /\ ~mode.outb THEN Max({@, end}) ELSE @]
     IN  /\ out' = [o \in Blocks |->
                      IF done /\ o \in w .. end - 1 THEN buf[i][o - w] ELSE out[o]]
         /\ buf' = [buf EXCEPT ![i] = <<>>]
         /\ job' = dd_target_seek(k, i, ok, found)

\* _dd_bdev_seek_data_done, with a seek that found what is in found: data at one
\* offset, or no more data.  On an error or an interrupt it leaves without counting
\* itself as done.
SoughtData(i, found, ok) ==
  /\ job.st[i] = "seek_data" /\ job.exits = 0 /\ next = queue_depth
  /\ LET p == Min(found)
         sent == ok /\ SeekTaken(p)
         k == [Done(job) EXCEPT !.pos = p]
     IN  job' = IF Stop(job) THEN ExitIfIdle(Rest(Dequeue(job), i))
                ELSE IF found = {} THEN dd_finalize_output(Rest(Dequeue(Done(job)), i), ok)
                ELSE Submit(IF sent THEN k ELSE Dequeue(k), i, "seek_hole", sent)
  /\ UNCHANGED <<mode, data, next, buf, intr, out, lost>>

seek_data_done(i, ok) == SoughtData(i, Data(job.pos), ok) /\ UNCHANGED astray

\* The callback does not look at success: after a failure the offset in the
\* bdev_io is what an earlier use of it left there.  (One failure in a copy.)
seek_data_failed(i, found, ok) ==
  /\ "seek" \in Faults /\ ~astray /\ ~Stop(job)
  /\ SoughtData(i, found, ok)
  /\ astray' = TRUE

\* _dd_bdev_seek_hole_done, with a seek that ends at hole: populate, then start the
\* next seek in the queue.
SoughtHole(i, hole, ok, okNext) ==
  /\ job.st[i] = "seek_hole" /\ job.exits = 0 /\ next = queue_depth
  /\ LET d == Dequeue(job)
         j == Done(d)
         k == dd_target_populate_buffer(FromTo(j, i, j.pos, hole), i, ok)
     IN  job' = IF Stop(job) THEN ExitIfIdle(Rest(d, i))
                ELSE IF k.seek_queue # <<>> /\ k.pos < Size
                THEN Submit(k, Head(k.seek_queue), "seek_data", okNext)
                ELSE k
  /\ UNCHANGED <<mode, data, next, buf, intr, out, lost>>

seek_hole_done(i, ok, okNext) == SoughtHole(i, BdevHole(job.pos), ok, okNext) /\ UNCHANGED astray

\* The same for the hole: from an offset before the position io->length is a unit.
seek_hole_failed(i, hole, ok, okNext) ==
  /\ "seek" \in Faults /\ ~astray /\ ~Stop(job)
  /\ SoughtHole(i, IF hole < job.pos THEN job.pos + Unit ELSE hole, ok, okNext)
  /\ astray' = TRUE

\* dd_finish: the user interrupts.
dd_finish ==
  /\ ~intr /\ intr' = TRUE
  /\ UNCHANGED <<mode, data, next, job, buf, out, lost, astray>>

Progress ==
  \/ dd_run_refused
  \/ \E ok \in IF "start" \in Faults THEN BOOLEAN ELSE {TRUE}, found \in Found : dd_run(ok, found)
  \/ \E i \in Io, ok \in Accepted :
       \/ \E done \in BOOLEAN : populate_done(i, done, ok) \/ read_done(i, done, ok)
       \/ \E done \in BOOLEAN, found \in Found : write_done(i, done, ok, found)
       \/ seek_data_done(i, ok)
       \/ \E found \in {{}} \cup {{p} : p \in Stale} : seek_data_failed(i, found, ok)
       \/ \E okNext \in Accepted :
            \/ seek_hole_done(i, ok, okNext)
            \/ \E hole \in Stale : seek_hole_failed(i, hole, ok, okNext)

Next == Progress \/ dd_finish

Spec == Init /\ [][Next]_vars

\* The reactor runs dd_run, and I/O completes.
FairSpec == Spec /\ WF_vars(Progress)

-----------------------------------------------------------------------------
(* Properties *)

States == {"new", "rest", "queued", "populate", "read", "write", "seek_data", "seek_hole"}
Job == [pos : Nat, outstanding : Nat, error : BOOLEAN, exits : Nat, seek_queue : Seq(Io),
        st : [Io -> States], off : [Io -> Nat], len : [Io -> 0 .. Unit], size : Nat]

\* The shape of the state, with io->length at most a unit.
TypeOK ==
  /\ mode \in Modes /\ data \subseteq 0 .. Size - 1
  /\ next \in 0 .. Depth
  /\ job \in Job
  /\ intr \in BOOLEAN /\ lost \in BOOLEAN /\ astray \in BOOLEAN

\* The buffer of a dd_io, of one unit, has room for what populating reads into it and
\* writing takes from it: io->length rounded up to whole blocks of the output.
BufferFits ==
  \A i \in Io : job.st[i] \in {"populate", "read", "write"} => CeilBlock(job.len[i]) <= Unit

InFlight == {i \in Io : job.st[i] \in {"populate", "read", "write", "seek_data", "seek_hole"}}

\* An error or an interrupt in a copy that seeks in an input bdev.  A seek that
\* ends after it leaves g_job.outstanding too high, and _dd_bdev_seek_hole_done
\* starts the next seek even when populating failed and called dd_exit.
SeekStopped == mode.sparse /\ mode.inb /\ Stop(job)

\* The same, or a seek that failed.  What the callbacks then take for its result may
\* be an empty range, or lead back to the beginning, behind the end or past data.
SeekFault == SeekStopped \/ astray

\* g_job.outstanding counts the operations submitted and not completed, which is
\* what the assertions in the callbacks and every test for zero rely on, also
\* after a seek that failed; only after SeekStopped is it an upper bound.
Counted ==
  /\ job.outstanding >= Cardinality(InFlight)
  /\ ~SeekStopped => job.outstanding = Cardinality(InFlight)

\* When dd_exit has been called no operation is under way, for it closes the
\* targets the operation would use (except after a SeekFault).
ExitQuiet == job.exits > 0 /\ ~SeekFault => InFlight = {}

\* For the same reason no handler calls dd_exit twice.  The loop of dd_run may, once
\* for every dd_io that finds nothing to do or fails while nothing is outstanding:
\* an input file that is all holes, or a refused first operation.
ExitOnce == [][~SeekFault' => job'.exits <= job.exits + 1]_vars

\* No two dd_ios ever work on the same block of the output, whole blocks counted:
\* what one has read there to fill its last block, the other does not write.  (A
\* dd_io whose range the output will not take, because the data --sparse found does
\* not start where a block of the output does, will write nothing; a seek that failed
\* can lead two to the same blocks.)
Disjoint ==
  ~astray => \A i, k \in {n \in Io : job.st[n] \in {"populate", "read", "write"} /\ OutTakes(job, n)} :
    i # k => \/ WriteOffset(job, i) + CeilBlock(job.len[i]) <= WriteOffset(job, k)
             \/ WriteOffset(job, k) + CeilBlock(job.len[k]) <= WriteOffset(job, i)

Copied == job.exits > 0 /\ ~job.error /\ ~intr /\ ~lost /\ ~astray
Region == OutStart .. OutStart + copy_size - 1

\* --count: "The number of I/O units to copy".  Nothing outside the region of the
\* output that --seek and --count give is changed, unless a bdev I/O or a seek in a
\* bdev failed unseen.
WithinCount == ~lost /\ ~astray => \A o \in Blocks \ Region : out[o] = 0

\* When spdk_dd reports success, each block of the region holds the block of
\* the input it stands for (a hole that --sparse skips is left alone), and
\* a file has its full length, if there is anything to copy.
CopyExact ==
  Copied =>
    /\ \A o \in Region :
         LET from == Start + o - OutStart
         IN  out[o] = IF mode.sparse /\ from \notin data THEN 0 ELSE Source(from)
    /\ ~mode.outb /\ copy_size > 0 => job.size >= OutStart + copy_size

\* The copy never comes to a halt: with every operation completed, one of the
\* dd_ios has called dd_exit, except after SeekFault.
NeverStuck == next > 0 /\ InFlight = {} => job.exits > 0 \/ SeekFault

\* dd_target_seek: "Check if other seek operation is in progress".  As long as
\* there is something to copy, a dd_io waits in the queue only behind a seek that
\* is in progress.
SeekRunning ==
  (\E i \in Io : job.st[i] = "queued") /\ ~AtEnd(job) /\ ~SeekFault /\ job.exits = 0
    => \E i \in Io : job.st[i] \in {"seek_data", "seek_hole"}

\* Every copy ends, however its I/O fails: a round of a dd_io takes up a part of
\* the input, and the last one calls dd_exit (except after SeekFault).
CopyEnds == <>(job.exits > 0 \/ SeekFault)

\* A failed seek is an error of the copy, like a failed read or write of a file.
SeekFailureShows == astray /\ job.exits > 0 /\ ~intr => job.error

\* dd_finish: "Interrupt operation".  An interrupted copy comes to an end.
InterruptEnds == intr ~> job.exits > 0
=============================================================================

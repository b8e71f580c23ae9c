---------------------------- MODULE UringChannel ----------------------------
(***************************************************************************)
(* A channel of the backing device (spdk_bs_dev_uring.c): its file         *)
(* descriptors, its io_uring, the poller that answers, and the requests    *)
(* the blobstore sends down it.  The kernel works on its own; everything   *)
(* else runs on the thread that has the channel.                           *)
(***************************************************************************)
EXTENDS Integers, FiniteSets

CONSTANTS
  Req,        \* requests, each made once
  Batch,      \* completions one poll takes: 64
  QueueSize,  \* entries of the submission ring: UBI_URING_QUEUE_SIZE
  Delta,      \* the device was made with a snapshot_path
  Faults,     \* the calls that may fail
  MaxOpens    \* bound on the channels made

FaultKind == {"stat", "map", "image", "delta", "ring", "submit", "read"}

ASSUME UringAssumption ==
  /\ Batch \in Nat \ {0} /\ QueueSize \in Nat \ {0} /\ MaxOpens \in Nat
  /\ Delta \in BOOLEAN /\ Faults \subseteq FaultKind

VARIABLES
  dev,       \* of the device: none, registered, gone
  chan,      \* of the channel: none, open, put (its destruction is on the way)
  opens,     \* channels made so far
  imageFds, deltaFds, rings,  \* descriptors and rings that are open
  io,        \* where a request's entry is: none, sq, kernel, or done or error (in the cq)
  batch,     \* completions the poller has peeked and not yet handled
  kind,      \* what a request asks for; "none" before it is made
  result,    \* its first answer: none, ok, failed
  answers,   \* cb_fn calls for it
  buf,       \* its buffer: old, part, full
  cut,       \* history: requests whose io_uring_submit did not take every entry
  late,      \* history: requests touched again after their answer
  crashed    \* the process died of undefined behaviour

files  == <<imageFds, deltaFds, rings>>
device == <<dev, chan, opens, files>>
req    == <<io, kind, result, answers, buf>>
vars   == <<device, req, batch, cut, late, crashed>>

\* Reads inside the files, over their end, at or after blockcnt; anything else.
Kind == {"whole", "tail", "past", "other"}

Init ==
  /\ dev = "none" /\ chan = "none" /\ opens = 0
  /\ imageFds = 0 /\ deltaFds = 0 /\ rings = 0
  /\ io = [r \in Req |-> "none"] /\ kind = io /\ result = io
  /\ answers = [r \in Req |-> 0] /\ buf = [r \in Req |-> "old"]
  /\ batch = {} /\ cut = {} /\ late = {} /\ crashed = FALSE

InRing(places) == {r \in Req : io[r] \in places}
Pending(r) == kind[r] # "none" /\ result[r] = "none"

-----------------------------------------------------------------------------
(* The device and its channel *)

\* bs_dev_uring_create: without the image, or with an unreadable map, there is no
\* device.  blockcnt is taken from the image's size here, once.
bs_dev_uring_create ==
  /\ ~crashed /\ dev = "none"
  /\ \/ dev' = "registered"
     \/ {"stat", "map"} \cap Faults # {} /\ dev' = "gone"
  /\ UNCHANGED <<chan, opens, files, req, batch, cut, late, crashed>>

\* bs_dev_uring_destroy: the blobstore has put its channels.
bs_dev_uring_destroy ==
  /\ ~crashed /\ dev = "registered" /\ chan = "none"
  /\ dev' = "gone"
  /\ UNCHANGED <<chan, opens, files, req, batch, cut, late, crashed>>

\* bs_dev_uring_create_channel; spdk_get_io_channel finds a channel on its way out.
bs_dev_uring_create_channel ==
  /\ ~crashed /\ chan = "put" /\ dev = "registered"
  /\ chan' = "open"
  /\ UNCHANGED <<dev, opens, files, req, batch, cut, late, crashed>>

bs_dev_uring_create_channel_cb ==
  /\ ~crashed /\ dev = "registered" /\ chan = "none" /\ opens < MaxOpens
  /\ chan' = "open" /\ opens' = opens + 1
  /\ imageFds' = imageFds + 1 /\ rings' = rings + 1
  /\ deltaFds' = IF Delta THEN deltaFds + 1 ELSE deltaFds
  /\ UNCHANGED <<dev, req, batch, cut, late, crashed>>

create_channel_fail_KeepsImage(f) ==
  /\ ~crashed /\ dev = "registered" /\ chan = "none" /\ f \in Faults
  /\ f = "delta" => Delta
  /\ imageFds' = IF f = "image" THEN imageFds ELSE imageFds + 1
  /\ crashed' = TRUE
  /\ UNCHANGED <<dev, chan, opens, deltaFds, rings, req, batch, cut, late>>

\* One of the three calls fails.  What was opened is closed again, and then
\* free(ch) is given the middle of SPDK's allocation, which ends the process.
create_channel_fail(f) ==
  /\ ~crashed /\ dev = "registered" /\ chan = "none" /\ f \in Faults
  /\ f = "delta" => Delta
  /\ crashed' = TRUE
  /\ UNCHANGED <<device, req, batch, cut, late>>

\* bs_dev_uring_destroy_channel: the last user puts the channel, when all its
\* requests have been answered.  The destruction is a message to the thread.
bs_dev_uring_destroy_channel ==
  /\ ~crashed /\ chan = "open" /\ \A r \in Req : ~Pending(r)
  /\ chan' = "put"
  /\ UNCHANGED <<dev, opens, files, req, batch, cut, late, crashed>>

\* io_uring_queue_exit drops what the ring has; snapshot_file_fd stays open.
bs_dev_uring_destroy_channel_cb ==
  /\ ~crashed /\ chan = "put" /\ batch = {}
  /\ chan' = "none"
  /\ io' = [r \in Req |-> "none"]
  /\ rings' = rings - 1 /\ imageFds' = imageFds - 1
  /\ UNCHANGED <<dev, opens, deltaFds, kind, result, answers, buf, batch, cut, late, crashed>>

-----------------------------------------------------------------------------
(* Requests.  One made while a batch is being handled is made by a callback. *)

\* cb_fn: a second call uses arguments that the first one gave back.
cb_fn(r, ok) ==
  /\ answers' = [answers EXCEPT ![r] = @ + 1]
  /\ result' = [result EXCEPT ![r] = IF @ # "none" THEN @ ELSE IF ok THEN "ok" ELSE "failed"]
  /\ late' = IF result[r] # "none" THEN late \union {r} ELSE late

Make(r, kinds) ==
  /\ ~crashed /\ chan = "open" /\ kind[r] = "none"
  /\ \E k \in kinds : kind' = [kind EXCEPT ![r] = k]

\* write, writev, writev_ext, flush, write_zeroes, unmap and copy are refused.
bs_dev_uring_write(r) ==
  /\ Make(r, {"other"}) /\ cb_fn(r, FALSE)
  /\ UNCHANGED <<device, io, buf, batch, cut, crashed>>

read_past_NoAnswer(r) ==
  /\ Make(r, {"past"})
  /\ UNCHANGED <<device, io, result, answers, buf, batch, cut, late, crashed>>

\* bs_dev_uring_read, readv and readv_ext at or after blockcnt: answered at once,
\* the buffer untouched.
read_past(r) ==
  /\ Make(r, {"past"}) /\ cb_fn(r, TRUE)
  /\ UNCHANGED <<device, io, buf, batch, cut, crashed>>

\* io_uring_get_sqe found no room and its null pointer is written through.
read_no_sqe(r) ==
  /\ Make(r, {"whole", "tail"}) /\ Cardinality(InRing({"sq"})) >= QueueSize
  /\ crashed' = TRUE
  /\ UNCHANGED <<device, io, result, answers, buf, batch, cut, late>>

bs_dev_uring_read_NoSubmit(r) ==
  /\ Make(r, {"whole", "tail"}) /\ Cardinality(InRing({"sq"})) < QueueSize
  /\ io' = [io EXCEPT ![r] = "sq"]
  /\ UNCHANGED <<device, result, answers, buf, batch, cut, late, crashed>>

\* io_uring_submit takes entries in order: all of them, or only some that were
\* left from before.  The code does not tell these apart.
bs_dev_uring_read(r) ==
  /\ Make(r, {"whole", "tail"}) /\ Cardinality(InRing({"sq"})) < QueueSize
  /\ \/ /\ io' = [q \in Req |-> IF q \in InRing({"sq"}) \union {r} THEN "kernel" ELSE io[q]]
        /\ UNCHANGED cut
     \/ /\ "submit" \in Faults
        /\ \E taken \in SUBSET InRing({"sq"}) \ {{}} :
             io' = [q \in Req |-> IF q \in taken THEN "kernel"
                                  ELSE IF q = r THEN "sq" ELSE io[q]]
        /\ cut' = cut \union {r}
  /\ UNCHANGED <<device, result, answers, buf, batch, late, crashed>>

\* io_uring_submit fails: answered, but the entry stays in the ring.
submit_error(r) ==
  /\ "submit" \in Faults
  /\ Make(r, {"whole", "tail"}) /\ Cardinality(InRing({"sq"})) < QueueSize
  /\ io' = [io EXCEPT ![r] = "sq"] /\ cut' = cut \union {r}
  /\ cb_fn(r, FALSE)
  /\ UNCHANGED <<device, buf, batch, crashed>>

\* The kernel carries out a read (external).  Over the end of the file it is short.
KernelDone(r) ==
  /\ ~crashed /\ io[r] = "kernel"
  /\ \/ /\ io' = [io EXCEPT ![r] = "done"]
        /\ buf' = [buf EXCEPT ![r] = IF kind[r] = "whole" THEN "full" ELSE "part"]
     \/ "read" \in Faults /\ io' = [io EXCEPT ![r] = "error"] /\ UNCHANGED buf
  /\ late' = IF result[r] # "none" THEN late \union {r} ELSE late
  /\ UNCHANGED <<device, kind, result, answers, batch, cut, crashed>>

-----------------------------------------------------------------------------
(* bs_dev_uring_poll *)

Completed == InRing({"done", "error"})

poll_WaitsForAll ==
  /\ ~crashed /\ chan # "none" /\ batch = {} /\ Cardinality(Completed) >= Batch
  /\ \E b \in SUBSET Completed : Cardinality(b) = Batch /\ batch' = b
  /\ UNCHANGED <<device, req, cut, late, crashed>>

\* io_uring_peek_batch_cqe: as many as there are, up to Batch.
poll ==
  /\ ~crashed /\ chan # "none" /\ batch = {} /\ Completed # {}
  /\ \E b \in SUBSET Completed :
       /\ Cardinality(b) = IF Cardinality(Completed) < Batch THEN Cardinality(Completed) ELSE Batch
       /\ batch' = b
  /\ UNCHANGED <<device, req, cut, late, crashed>>

poll_complete_Unseen(r) ==
  /\ ~crashed /\ r \in batch /\ answers[r] < 2
  /\ cb_fn(r, io[r] = "done")
  /\ batch' = batch \ {r}
  /\ UNCHANGED <<device, io, kind, buf, cut, crashed>>

poll_complete_NoError(r) ==
  /\ ~crashed /\ r \in batch
  /\ cb_fn(r, TRUE)
  /\ io' = [io EXCEPT ![r] = "none"] /\ batch' = batch \ {r}
  /\ UNCHANGED <<device, kind, buf, cut, crashed>>

poll_complete_Stays(r) ==
  /\ ~crashed /\ r \in batch
  /\ cb_fn(r, io[r] = "done")
  /\ io' = [io EXCEPT ![r] = "none"]
  /\ UNCHANGED <<device, kind, buf, batch, cut, crashed>>

\* The loop's body: any count of bytes is a success.  io_uring_cqe_seen follows.
poll_complete(r) ==
  /\ ~crashed /\ r \in batch
  /\ cb_fn(r, io[r] = "done")
  /\ io' = [io EXCEPT ![r] = "none"] /\ batch' = batch \ {r}
  /\ UNCHANGED <<device, kind, buf, cut, crashed>>

Next ==
  \/ bs_dev_uring_create \/ bs_dev_uring_destroy
  \/ bs_dev_uring_create_channel \/ bs_dev_uring_create_channel_cb
  \/ \E f \in {"image", "delta", "ring"} : create_channel_fail(f)
  \/ bs_dev_uring_destroy_channel \/ bs_dev_uring_destroy_channel_cb
  \/ \E r \in Req : \/ bs_dev_uring_write(r) \/ read_past(r) \/ read_no_sqe(r)
                    \/ bs_dev_uring_read(r) \/ submit_error(r)
                    \/ KernelDone(r) \/ poll_complete(r)
  \/ poll

Spec == Init /\ [][Next]_vars

\* The kernel finishes reads and the reactor polls; nobody has to make requests.
FairSpec ==
  /\ Spec /\ WF_vars(poll)
  /\ \A r \in Req : WF_vars(KernelDone(r)) /\ WF_vars(poll_complete(r))

-----------------------------------------------------------------------------
(* Properties *)

Place == {"none", "sq", "kernel", "done", "error"}

\* Types; the poller handles completions that are in the ring, and only a request
\* that was made has an entry.
TypeOK ==
  /\ dev \in {"none", "registered", "gone"} /\ chan \in {"none", "open", "put"}
  /\ opens \in Nat /\ imageFds \in Nat /\ deltaFds \in Nat /\ rings \in Nat
  /\ io \in [Req -> Place] /\ kind \in [Req -> Kind \union {"none"}]
  /\ result \in [Req -> {"none", "ok", "failed"}]
  /\ answers \in [Req -> Nat] /\ buf \in [Req -> {"old", "part", "full"}]
  /\ batch \subseteq Completed /\ cut \subseteq Req /\ late \subseteq Req
  /\ crashed \in BOOLEAN
  /\ \A r \in Req : io[r] # "none" => kind[r] \in {"whole", "tail"}

\* bs_dev_uring_read and bs_dev_uring_poll answer a request once, and neither the
\* kernel nor the poller comes back to it: the blobstore may use buffer and
\* arguments again.  The exception is a request whose own io_uring_submit failed.
TouchedOnce ==
  \A r \in Req \ cut :
    r \notin late /\ answers[r] = IF result[r] = "none" THEN 0 ELSE 1

\* A read of a range that lies in the files and is answered with success has filled
\* its buffer, whatever else was in flight, failed, or shared its batch.
SuccessIsData ==
  \A r \in Req : kind[r] = "whole" /\ result[r] = "ok" => buf[r] = "full"

\* A request that has not been answered is somewhere the poller or a later submission
\* will find it: a channel that goes takes no request with it.
NoneLost ==
  ~crashed => \A r \in Req : Pending(r) => chan = "open" /\ io[r] # "none"

\* Every path out of a channel, failed creations included, closes what it
\* opened, but for snapshot_file_fd, which each destroyed channel leaves open.
Descriptors ==
  /\ imageFds = IF chan = "none" THEN 0 ELSE 1
  /\ rings = imageFds
  /\ deltaFds = IF Delta THEN opens ELSE 0

\* What fills the ring, and leads to the null pointer of io_uring_get_sqe, is the
\* entries of submissions that failed or took only a part: never plain load.
RingRoom == InRing({"sq"}) \subseteq cut

\* The kernel and the poller answer every request, however many poll batches it
\* takes, but for one whose entry no submission has taken.
ReadAnswered ==
  \A r \in Req : Pending(r) ~> ~Pending(r) \/ io[r] = "sq" \/ crashed

\* Not so: the entry of a failed submission goes to the kernel with the next one,
\* which fills a buffer that was given back and answers a second time.
NoLateTouch == late = {}
=============================================================================

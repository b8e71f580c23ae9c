----------------------------- MODULE UbiSnapshot ----------------------------
(***************************************************************************)
(* bdev_ubi_snapshot (bdev_ubi_snapshot.c): requests for snapshots of one  *)
(* ubi_bdev, each a chain of blobstore callbacks that ends in a copy that  *)
(* runs in the background.  Requests overlap, calls fail, and the ubi_bdev *)
(* may be deleted while requests are under way.  A callback is one step.   *)
(***************************************************************************)
EXTENDS Integers, FiniteSets

CONSTANTS
  Req,        \* calls of bdev_ubi_snapshot
  Allocated,  \* clusters a copy has to write
  Faults      \* which calls may fail, a subset of FaultKind

FaultKind == {"bs", "setro", "copysync", "copy", "path"}

ASSUME SnapshotAssumption == Faults \subseteq FaultKind /\ Allocated \in Nat

VARIABLES
  serial,   \* the client starts a request only when the last is answered and
            \* bdev_ubi_snapshot_status says that none is in progress
  pc,       \* the callback the request waits for
  toFile,   \* the request names a file
  lock,     \* requests that hold the lock on the device's blob (0 or 1 of them)
  busy,     \* requests that found it taken
  answers,  \* calls of cb_fn
  ctx,      \* snapshot_contexts that exist
  ch,       \* requests that hold a blobstore channel
  delta,    \* requests whose delta device exists
  deltaCh,  \* its channel: none, open, put, closed
  clone,    \* requests that have the clone open
  in_progress, result, copied_clusters,  \* snapshot_status
  done,     \* clusters a request has copied
  dev,      \* the ubi_bdev: absent, listed, unlisted, its blobstore unloading, freed
  used,     \* requests that used it after it was freed
  crashed   \* the process was aborted

\* What rpc_bdev_ubi_snapshot_status reports, with the number of the clone's clusters.
status == <<in_progress, result, copied_clusters>>
vars == <<serial, pc, toFile, lock, busy, answers, ctx, ch, delta, deltaCh, clone,
          status, done, dev, used, crashed>>
unchanged == <<serial, toFile, dev, used, crashed>>

Waiting == {"snapshot", "clone", "open", "close", "decouple", "copy"}
PC == Waiting \cup {"idle", "ended", "stuck", "wild"}

Init ==
  /\ serial \in BOOLEAN
  /\ pc = [r \in Req |-> "idle"]
  /\ toFile \in [Req -> BOOLEAN]
  /\ lock = {} /\ busy = {}
  /\ answers = [r \in Req |-> 0]
  /\ ctx = {} /\ ch = {} /\ delta = {} /\ clone = {}
  /\ deltaCh = [r \in Req |-> "none"]
  /\ in_progress = FALSE /\ result = 0 /\ copied_clusters = 0
  /\ done = [r \in Req |-> 0]
  /\ dev = "absent"
  /\ used = {}
  /\ crashed = FALSE

-----------------------------------------------------------------------------
cb_fn(r) == answers' = [answers EXCEPT ![r] = @ + 1]

cleanup_snapshot_context(r) ==
  /\ delta' = delta \ {r} /\ ch' = ch \ {r} /\ ctx' = ctx \ {r}

\* The callback of the step the request waits for runs while the ubi_bdev exists.
Called(r, step) == ~crashed /\ dev # "freed" /\ pc[r] = step

\* The error branch every callback of the chain has.
fail_NoCleanup(r) ==
  /\ pc' = [pc EXCEPT ![r] = "ended"]
  /\ result' = -1
  /\ cb_fn(r)
  /\ UNCHANGED <<ctx, ch, delta>>
  /\ UNCHANGED <<deltaCh, in_progress, copied_clusters, done, unchanged>>

fail(r) ==
  /\ pc' = [pc EXCEPT ![r] = "ended"]
  /\ result' = -1
  /\ cb_fn(r)
  /\ cleanup_snapshot_context(r)
  /\ UNCHANGED <<deltaCh, in_progress, copied_clusters, done, unchanged>>

\* bdev_ubi_snapshot.  The blobstore gives one snapshot of a blob at a time the
\* lock and fails the others with -EBUSY (external).
bdev_ubi_snapshot(r) ==
  /\ ~crashed /\ pc[r] = "idle" /\ dev = "listed"
  /\ serial => ~in_progress /\ \A q \in Req : pc[q] # "idle" => answers[q] > 0
  /\ pc' = [pc EXCEPT ![r] = "snapshot"]
  /\ ctx' = ctx \cup {r}
  /\ IF lock = {} THEN lock' = {r} /\ UNCHANGED busy ELSE busy' = busy \cup {r} /\ UNCHANGED lock
  /\ UNCHANGED <<answers, ch, delta, deltaCh, clone, status, done, unchanged>>

\* bdev_ubi_snapshot of a bdev that is not there.
bdev_ubi_snapshot_nodev(r) ==
  /\ ~crashed /\ pc[r] = "idle" /\ dev # "listed"
  /\ pc' = [pc EXCEPT ![r] = "ended"]
  /\ cb_fn(r)
  /\ UNCHANGED <<lock, busy, ctx, ch, delta, deltaCh, clone, status, done, unchanged>>

ubi_snapshot_create_cb(r) ==
  /\ Called(r, "snapshot") /\ r \notin busy
  /\ lock' = lock \ {r}
  /\ IF toFile[r]
     THEN /\ pc' = [pc EXCEPT ![r] = "clone"]
          /\ ch' = ch \cup {r}
          /\ UNCHANGED <<answers, delta, ctx>>
     ELSE /\ pc' = [pc EXCEPT ![r] = "ended"]
          /\ cb_fn(r)
          /\ cleanup_snapshot_context(r)
  /\ UNCHANGED <<busy, deltaCh, clone, status, done, unchanged>>

snapshot_error(r) ==
  /\ Called(r, "snapshot") /\ (r \in busy \/ "bs" \in Faults)
  /\ lock' = lock \ {r} /\ busy' = busy \ {r}
  /\ fail(r)
  /\ UNCHANGED clone

ubi_clone_create_cb_Drops(r) ==
  /\ Called(r, "clone")
  /\ pc' = [pc EXCEPT ![r] = "stuck"]
  /\ UNCHANGED <<lock, busy, answers, ctx, ch, delta, deltaCh, clone, status, done, unchanged>>

ubi_clone_create_cb(r) ==
  /\ Called(r, "clone")
  /\ pc' = [pc EXCEPT ![r] = "open"]
  /\ UNCHANGED <<lock, busy, answers, ctx, ch, delta, deltaCh, clone, status, done, unchanged>>

\* ubi_open_clone_cb: the clone is made read-only and closed; if it cannot be
\* made read-only, it stays open.
ubi_open_clone_cb(r) ==
  /\ Called(r, "open")
  /\ clone' = clone \cup {r}
  /\ pc' = [pc EXCEPT ![r] = "close"]
  /\ UNCHANGED <<lock, busy, answers, ctx, ch, delta, deltaCh, status, done, unchanged>>

set_read_only_error(r) ==
  /\ Called(r, "open") /\ "setro" \in Faults
  /\ clone' = clone \cup {r}
  /\ fail(r)
  /\ UNCHANGED <<lock, busy>>

ubi_close_clone_cb(r) ==
  /\ Called(r, "close")
  /\ clone' = clone \ {r}
  /\ pc' = [pc EXCEPT ![r] = "decouple"]
  /\ UNCHANGED <<lock, busy, answers, ctx, ch, delta, deltaCh, status, done, unchanged>>

\* ubi_clone_create_cb, ubi_open_clone_cb, ubi_close_clone_cb and
\* ubi_decouple_parent_cb with an error.
chain_error(r) ==
  /\ "bs" \in Faults
  /\ \E step \in {"clone", "open", "close", "decouple"} : Called(r, step)
  /\ fail(r)
  /\ UNCHANGED <<lock, busy, clone>>

ubi_start_snapshot_Unmarked(r) ==
  /\ Called(r, "decouple")
  /\ delta' = delta \cup {r} /\ deltaCh' = [deltaCh EXCEPT ![r] = "open"]
  /\ clone' = clone \cup {r}
  /\ pc' = [pc EXCEPT ![r] = "copy"]
  /\ cb_fn(r)
  /\ UNCHANGED <<lock, busy, ctx, ch, status, done, unchanged>>

\* ubi_decouple_parent_cb and ubi_start_snapshot: create the delta device, start
\* the copy of the clone, answer.
ubi_start_snapshot(r) ==
  /\ Called(r, "decouple")
  /\ in_progress' = TRUE
  /\ delta' = delta \cup {r} /\ deltaCh' = [deltaCh EXCEPT ![r] = "open"]
  /\ clone' = clone \cup {r}
  /\ pc' = [pc EXCEPT ![r] = "copy"]
  /\ cb_fn(r)
  /\ UNCHANGED <<lock, busy, ctx, ch, result, copied_clusters, done, unchanged>>

\* The copy cannot be started: the request is answered with an error, the rest
\* stays as it is.
ubi_start_snapshot_sync(r) ==
  /\ Called(r, "decouple") /\ "copysync" \in Faults
  /\ in_progress' = TRUE
  /\ delta' = delta \cup {r}
  /\ pc' = [pc EXCEPT ![r] = "stuck"]
  /\ cb_fn(r)
  /\ UNCHANGED <<lock, busy, ctx, ch, deltaCh, clone, result, copied_clusters, done, unchanged>>

\* The file cannot be opened: bs_dev_delta_create_channel_cb frees the context of
\* the channel, which is not a block of its own, and the process is aborted.
ubi_start_snapshot_badpath(r) ==
  /\ Called(r, "decouple") /\ "path" \in Faults
  /\ crashed' = TRUE
  /\ in_progress' = TRUE
  /\ delta' = delta \cup {r}
  /\ UNCHANGED <<serial, pc, toFile, lock, busy, answers, ctx, ch, deltaCh, clone, result,
                 copied_clusters, done, dev, used>>

ubi_shallow_copy_status_cb_Adds(r) ==
  /\ Called(r, "copy") /\ done[r] < Allocated
  /\ done' = [done EXCEPT ![r] = @ + 1]
  /\ copied_clusters' = copied_clusters + 1
  /\ UNCHANGED <<pc, lock, busy, answers, ctx, ch, delta, deltaCh, clone, in_progress, result,
                 unchanged>>

\* A cluster has been written.
ubi_shallow_copy_status_cb(r) ==
  /\ Called(r, "copy") /\ done[r] < Allocated
  /\ done' = [done EXCEPT ![r] = @ + 1]
  /\ copied_clusters' = done[r] + 1
  /\ UNCHANGED <<pc, lock, busy, answers, ctx, ch, delta, deltaCh, clone, in_progress, result,
                 unchanged>>

ubi_shallow_copy_complete_cb_Early(r) ==
  /\ Called(r, "copy")
  /\ clone' = clone \ {r}
  /\ deltaCh' = [deltaCh EXCEPT ![r] = "put"]
  /\ pc' = [pc EXCEPT ![r] = "ended"]
  /\ cleanup_snapshot_context(r)
  /\ in_progress' = FALSE
  /\ UNCHANGED <<lock, busy, answers, result, copied_clusters, done, unchanged>>

ubi_shallow_copy_complete_cb_Answers(r) ==
  /\ Called(r, "copy")
  /\ \/ done[r] = Allocated /\ UNCHANGED result
     \/ "copy" \in Faults /\ result' = -1
  /\ clone' = clone \ {r}
  /\ deltaCh' = [deltaCh EXCEPT ![r] = "put"]
  /\ pc' = [pc EXCEPT ![r] = "ended"]
  /\ cb_fn(r)
  /\ cleanup_snapshot_context(r)
  /\ in_progress' = FALSE
  /\ UNCHANGED <<lock, busy, copied_clusters, done, unchanged>>

\* The end of the copy: the blobstore closes the clone and puts the delta channel,
\* then calls ubi_shallow_copy_complete_cb.
ubi_shallow_copy_complete_cb(r) ==
  /\ Called(r, "copy")
  /\ \/ done[r] = Allocated /\ UNCHANGED result
     \/ "copy" \in Faults /\ result' = -1
  /\ clone' = clone \ {r}
  /\ deltaCh' = [deltaCh EXCEPT ![r] = "put"]
  /\ pc' = [pc EXCEPT ![r] = "ended"]
  /\ cleanup_snapshot_context(r)
  /\ in_progress' = FALSE
  /\ UNCHANGED <<lock, busy, answers, copied_clusters, done, unchanged>>

\* bs_dev_delta_destroy_channel_cb runs as a message of its own and writes the map.
\* It does not use the ubi_bdev.
bs_dev_delta_destroy_channel_cb(r) ==
  /\ ~crashed /\ deltaCh[r] = "put"
  /\ deltaCh' = [deltaCh EXCEPT ![r] = "closed"]
  /\ UNCHANGED <<pc, lock, busy, answers, ctx, ch, delta, clone, status, done, unchanged>>

\* ubi_finish_create registers the bdev.
ubi_finish_create ==
  /\ ~crashed /\ dev = "absent" /\ dev' = "listed"
  /\ UNCHANGED <<serial, pc, toFile, lock, busy, answers, ctx, ch, delta, deltaCh, clone,
                 status, done, used, crashed>>

\* bdev_ubi_delete takes the name away, ubi_destruct closes the blob and unloads the
\* blobstore unless somebody has another blob of it open, _device_unregister_cb
\* frees the ubi_bdev.  None of them looks at the requests.
bdev_ubi_delete ==
  /\ ~crashed /\ dev = "listed" /\ dev' = "unlisted"
  /\ UNCHANGED <<serial, pc, toFile, lock, busy, answers, ctx, ch, delta, deltaCh, clone,
                 status, done, used, crashed>>

ubi_destruct ==
  /\ ~crashed /\ dev = "unlisted" /\ clone = {} /\ dev' = "unloading"
  /\ UNCHANGED <<serial, pc, toFile, lock, busy, answers, ctx, ch, delta, deltaCh, clone,
                 status, done, used, crashed>>

\* The unload fails and the blobstore stays.
ubi_destruct_bs_unload_cb ==
  /\ ~crashed /\ dev = "unloading" /\ dev' = "unlisted"
  /\ UNCHANGED <<serial, pc, toFile, lock, busy, answers, ctx, ch, delta, deltaCh, clone,
                 status, done, used, crashed>>

_device_unregister_cb ==
  /\ ~crashed /\ dev \in {"unlisted", "unloading"} /\ dev' = "freed"
  /\ UNCHANGED <<serial, pc, toFile, lock, busy, answers, ctx, ch, delta, deltaCh, clone,
                 status, done, used, crashed>>

\* A callback reads the freed ubi_bdev, or a request goes on in a blobstore that is
\* being unloaded; what follows is undefined.
UseFreed(r) ==
  /\ ~crashed /\ dev \in {"unloading", "freed"} /\ pc[r] \in Waiting
  /\ pc' = [pc EXCEPT ![r] = "wild"]
  /\ used' = IF dev = "freed" THEN used \cup {r} ELSE used
  /\ UNCHANGED <<serial, toFile, lock, busy, answers, ctx, ch, delta, deltaCh, clone, status,
                 done, dev, crashed>>

Callback(r) ==
  \/ ubi_snapshot_create_cb(r) \/ snapshot_error(r)
  \/ ubi_clone_create_cb(r) \/ ubi_open_clone_cb(r) \/ set_read_only_error(r)
  \/ ubi_close_clone_cb(r) \/ chain_error(r)
  \/ ubi_start_snapshot(r) \/ ubi_start_snapshot_sync(r) \/ ubi_start_snapshot_badpath(r)
  \/ ubi_shallow_copy_status_cb(r) \/ ubi_shallow_copy_complete_cb(r)
  \/ bs_dev_delta_destroy_channel_cb(r)
  \/ UseFreed(r)

Next ==
  \/ \E r \in Req : bdev_ubi_snapshot(r) \/ bdev_ubi_snapshot_nodev(r) \/ Callback(r)
  \/ ubi_finish_create
  \/ bdev_ubi_delete
  \/ ubi_destruct \/ ubi_destruct_bs_unload_cb
  \/ _device_unregister_cb

Spec == Init /\ [][Next]_vars

\* The blobstore completes every call and the thread runs every message.
FairSpec == Spec /\ \A r \in Req : WF_vars(Callback(r))

-----------------------------------------------------------------------------
(* Properties *)

\* Types; the lock has at most one holder.
TypeOK ==
  /\ serial \in BOOLEAN /\ toFile \in [Req -> BOOLEAN]
  /\ pc \in [Req -> PC]
  /\ lock \subseteq Req /\ busy \subseteq Req
  /\ \A q, r \in lock : q = r
  /\ answers \in [Req -> Nat]
  /\ ctx \subseteq Req /\ ch \subseteq Req /\ delta \subseteq Req /\ clone \subseteq Req
  /\ deltaCh \in [Req -> {"none", "open", "put", "closed"}]
  /\ in_progress \in BOOLEAN /\ result \in {0, -1} /\ copied_clusters \in 0..Allocated
  /\ done \in [Req -> 0..Allocated]
  /\ dev \in {"absent", "listed", "unlisted", "unloading", "freed"}
  /\ used \subseteq Req
  /\ crashed \in BOOLEAN

\* cb_fn is called once for every request, before the context that holds it is
\* freed: when the chain fails or ends, or when the copy has been started, and
\* not again when the copy ends.
AnsweredOnce ==
  \A r \in Req : pc[r] # "wild" =>
    answers[r] = IF pc[r] \in {"copy", "stuck", "ended"} THEN 1 ELSE 0

\* No callback finds its context freed, and a request that has ended holds no
\* context, channel or delta device: cleanup_snapshot_context runs on every way
\* out but one, after the last use.  The one is a copy that cannot be started
\* ("stuck"), which keeps all three for good.  The clone is closed too, unless it
\* could not be made read-only or closed; then no copy of it was started and
\* snapshot_status.result reports the failure.
Released ==
  \A r \in Req :
    /\ r \in ctx <=> pc[r] \in Waiting \cup {"stuck", "wild"}
    /\ r \in ch \cup delta => r \in ctx
    /\ pc[r] = "ended" /\ r \in clone =>
         Faults \cap {"bs", "setro"} # {} /\ deltaCh[r] = "none" /\ result # 0

\* The same without the exceptions, which ubi_open_clone_cb and ubi_start_snapshot
\* do not keep: a request that was answered and has no copy under way holds nothing.
ReleasedAll ==
  \A r \in Req : answers[r] > 0 /\ pc[r] \notin {"copy", "wild"} =>
    r \notin ctx \cup ch \cup delta \cup clone

\* No request has lost its ubi_bdev or blobstore, and the process is there.
Sane == ~crashed /\ \A r \in Req : pc[r] # "wild"

\* For a client that waits for the answer and for in_progress to be false before
\* the next request, in_progress tells whether a copy is under way, and two copies
\* never run at once; except that a copy that could not be started leaves
\* in_progress true for good.
StatusExact ==
  serial /\ Sane =>
    /\ (in_progress <=> \E r \in Req : pc[r] = "copy") \/ \E r \in Req : pc[r] = "stuck"
    /\ \A q, r \in Req : pc[q] = "copy" /\ pc[r] = "copy" => q = r

\* The same without the exception, which needs copies that can be started.
StatusTrue ==
  serial /\ Sane => (in_progress <=> \E r \in Req : pc[r] = "copy")

\* Every request is answered unless the ubi_bdev is deleted under it, and the request
\* goes on in what is no longer there.
EventuallyAnswered ==
  \A r \in Req : pc[r] = "snapshot" ~> answers[r] > 0 \/ pc[r] = "wild" \/ crashed

\* A copy that was started ends, all its clusters copied or with an error, and
\* its file gets its map.
EventuallyMapped ==
  \A r \in Req :
    deltaCh[r] = "open" ~> \/ deltaCh[r] = "closed" /\ (done[r] = Allocated \/ result # 0)
                          \/ pc[r] = "wild" \/ crashed

\* bdev_ubi.c frees the ubi_bdev with the comment "Done with this ubi_bdev."
\* No request uses it after that.
NoUseAfterFree == used = {}
=============================================================================

----------------------------- MODULE UbiService -----------------------------
(***************************************************************************)
(* UbiBdev and UbiSnapshot composed: ubi bdevs are created and deleted     *)
(* while requests for snapshots of one of them are under way, and the two  *)
(* share its blobstore.  The blobstore refuses to unload while a request   *)
(* has a blob open, goes away under a request that has none open, and      *)
(* closes the base bdev with its last channel.                             *)
(***************************************************************************)
EXTENDS UbiBdev

CONSTANTS
  Dev,         \* the ubi bdev whose snapshots are asked for
  SnapReq,     \* calls of bdev_ubi_snapshot
  Allocated,   \* clusters a copy has to write
  SnapFaults   \* which of UbiSnapshot's calls may fail

ASSUME ServiceAssumption == Dev \in Inst /\ "busy" \in Faults

VARIABLES
  serial, spc, toFile, lock, busy, answers, ctx, ch, delta, deltaCh, clone,
  in_progress, result, copied_clusters, done, used,  \* as in UbiSnapshot
  aborted   \* the process died in a snapshot request

snapVars == <<serial, spc, toFile, lock, busy, answers, ctx, ch, delta, deltaCh, clone,
              in_progress, result, copied_clusters, done, used, aborted>>

\* The ubi_bdev as snapshot requests see it: spdk_bdev_get_by_name finds it, it is
\* only in their contexts, its blobstore is being unloaded, or it or its blobstore
\* is freed.
DevState ==
  IF Listed(Dev) THEN "listed"
  ELSE IF pc[Dev] \notin {"unlisted", "destructed"} THEN "absent"
  ELSE IF mem[Dev] = "freed" \/ bs[Dev] = "closed" THEN "freed"
  ELSE IF bs[Dev] = "unloading" THEN "unloading"
  ELSE "unlisted"

Snap == INSTANCE UbiSnapshot WITH
          Req <- SnapReq, Faults <- SnapFaults, pc <- spc, dev <- DevState, crashed <- aborted

ServiceInit == Init /\ Snap!Init

\* What ubi_destruct_blob_close_cb gets from spdk_bs_unload (external).  It refuses
\* while a blob is open: one of a request that has the clone open, and possibly one
\* of a request that waits for the blobstore, which opens blobs on the way.  The
\* base bdev is closed with the blobstore's last channel.
Unloads(i) ==
  /\ pc[i] = "unlisted" /\ pc'[i] = "destructed" =>
       /\ bs'[i] = "stuck" => i = Dev /\ (clone # {} \/ \E r \in SnapReq : spc[r] \in Snap!Waiting)
       /\ i = Dev /\ clone # {} => bs'[i] = "stuck"
  /\ i = Dev /\ bs[i] = "unloading" /\ bs'[i] = "closed" => ch = {}

BdevProgress(i) == ~aborted /\ Progress(i) /\ Unloads(i) /\ UNCHANGED snapVars
BdevRequest(i)  == ~aborted /\ Request(i) /\ UNCHANGED snapVars

SnapRequest(r) ==
  /\ ~crashed /\ UNCHANGED vars
  /\ Snap!bdev_ubi_snapshot(r) \/ Snap!bdev_ubi_snapshot_nodev(r)

SnapProgress(r) == ~crashed /\ UNCHANGED vars /\ Snap!Callback(r)

ServiceNext ==
  \/ \E i \in Inst : BdevProgress(i) \/ BdevRequest(i)
  \/ \E r \in SnapReq : SnapRequest(r) \/ SnapProgress(r)

ServiceVars == <<vars, snapVars>>

ServiceSpec == ServiceInit /\ [][ServiceNext]_ServiceVars

\* As in the components: what was started completes.
Fairness ==
  /\ \A i \in Inst : WF_ServiceVars(BdevProgress(i))
  /\ \A r \in SnapReq : WF_ServiceVars(SnapProgress(r))

FairService == ServiceSpec /\ Fairness

-----------------------------------------------------------------------------
(* Properties *)

\* Seen from a snapshot request, creation and deletion of its ubi_bdev do what
\* UbiSnapshot says and no more, so what holds there holds of the service.
ImplementsSnapshot == Snap!Spec

Ended == crashed \/ aborted

\* A creation is answered (bdev_ubi_create: "This will always call the callback
\* stored in context->done_fn") unless the process dies.
ServiceCreateEnds == \A i \in Inst : pc[i] # "idle" ~> answer[i].calls > 0 \/ Ended

\* A creation that fails, wherever it fails, lets go of the base bdev, unless the
\* blobstore refuses to unload.
ServiceFailureReleases ==
  \A i \in Inst : pc[i] = "failed" ~> i \notin opened \/ bs[i] = "stuck" \/ Ended

\* Once the users of a deleted bdev have put their channels the ubi_bdev is freed.
\* The base bdev is closed too, unless the blobstore has refused to unload or a
\* request keeps its channel for good, whose copy could not be started or whose
\* blobstore was unloaded under it.
ServiceDeleteReleases ==
  \A i \in Inst :
    (pc[i] = "unregistering" /\ users[i] = 0)
      ~> \/ mem[i] = "freed" /\ (i \notin opened \/ bs[i] = "stuck" \/ (i = Dev /\ ch # {}))
         \/ Ended
=============================================================================

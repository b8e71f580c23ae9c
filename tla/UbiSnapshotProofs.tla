-------------------------- MODULE UbiSnapshotProofs -------------------------
(***************************************************************************)
(* Proofs about UbiSnapshot, for every set of requests, every number of    *)
(* clusters to copy and every set of calls that may fail.                  *)
(***************************************************************************)
EXTENDS UbiSnapshot, TLAPS

USE SnapshotAssumption

\* Every callback keeps the shape of the state.
LEMMA TypeStep == TypeOK /\ [Next]_vars => TypeOK'
<1> SUFFICES ASSUME TypeOK, [Next]_vars PROVE TypeOK'
  BY Zenon
<1> USE DEF TypeOK, PC, Waiting
<1>1. ASSUME NEW r \in Req, bdev_ubi_snapshot(r) PROVE TypeOK'
  BY <1>1, Zenon DEF bdev_ubi_snapshot, status, unchanged
<1>2. ASSUME NEW r \in Req, bdev_ubi_snapshot_nodev(r) PROVE TypeOK'
  BY <1>2 DEF bdev_ubi_snapshot_nodev, cb_fn, status, unchanged
<1>3. ASSUME NEW r \in Req, ubi_snapshot_create_cb(r) PROVE TypeOK'
  BY <1>3 DEF ubi_snapshot_create_cb, Called, cb_fn, cleanup_snapshot_context, status,
     unchanged
<1>4. ASSUME NEW r \in Req, snapshot_error(r) PROVE TypeOK'
  BY <1>4 DEF snapshot_error, Called, fail, cb_fn, cleanup_snapshot_context, unchanged
<1>5. ASSUME NEW r \in Req, ubi_clone_create_cb(r) PROVE TypeOK'
  BY <1>5, Zenon DEF ubi_clone_create_cb, Called, status, unchanged
<1>6. ASSUME NEW r \in Req, ubi_open_clone_cb(r) PROVE TypeOK'
  BY <1>6, Zenon DEF ubi_open_clone_cb, Called, status, unchanged
<1>7. ASSUME NEW r \in Req, set_read_only_error(r) PROVE TypeOK'
  BY <1>7 DEF set_read_only_error, Called, fail, cb_fn, cleanup_snapshot_context,
     unchanged
<1>8. ASSUME NEW r \in Req, ubi_close_clone_cb(r) PROVE TypeOK'
  BY <1>8, Zenon DEF ubi_close_clone_cb, Called, status, unchanged
<1>9. ASSUME NEW r \in Req, chain_error(r) PROVE TypeOK'
  BY <1>9 DEF chain_error, Called, fail, cb_fn, cleanup_snapshot_context, unchanged
<1>10. ASSUME NEW r \in Req, ubi_start_snapshot(r) PROVE TypeOK'
  BY <1>10 DEF ubi_start_snapshot, Called, cb_fn, unchanged
<1>11. ASSUME NEW r \in Req, ubi_start_snapshot_sync(r) PROVE TypeOK'
  BY <1>11 DEF ubi_start_snapshot_sync, Called, cb_fn, unchanged
<1>12. ASSUME NEW r \in Req, ubi_start_snapshot_badpath(r) PROVE TypeOK'
  BY <1>12, Zenon DEF ubi_start_snapshot_badpath, Called
<1>13. ASSUME NEW r \in Req, ubi_shallow_copy_status_cb(r) PROVE TypeOK'
  BY <1>13 DEF ubi_shallow_copy_status_cb, Called, unchanged
<1>14. ASSUME NEW r \in Req, ubi_shallow_copy_complete_cb(r) PROVE TypeOK'
  BY <1>14, Zenon DEF ubi_shallow_copy_complete_cb, Called, cleanup_snapshot_context, unchanged
<1>15. ASSUME NEW r \in Req, bs_dev_delta_destroy_channel_cb(r) PROVE TypeOK'
  BY <1>15, Zenon DEF bs_dev_delta_destroy_channel_cb, status, unchanged
<1>16. ASSUME NEW r \in Req, UseFreed(r) PROVE TypeOK'
  BY <1>16, Zenon DEF UseFreed, status
<1>17. CASE ubi_finish_create \/ bdev_ubi_delete
  BY <1>17, Zenon DEF ubi_finish_create, bdev_ubi_delete, status
<1>18. CASE ubi_destruct \/ ubi_destruct_bs_unload_cb
  BY <1>18, Zenon DEF ubi_destruct, ubi_destruct_bs_unload_cb, status
<1>19. CASE _device_unregister_cb
  BY <1>19, Zenon DEF _device_unregister_cb, status
<1>20. CASE UNCHANGED vars
  BY <1>20, Zenon DEF vars, status, unchanged
<1> QED BY <1>1, <1>2, <1>3, <1>4, <1>5, <1>6, <1>7, <1>8, <1>9, <1>10, <1>11, <1>12,
           <1>13, <1>14, <1>15, <1>16, <1>17, <1>18, <1>19, <1>20, Zenon DEF Next, Callback

\* The type invariant holds, and with it that the lock has at most one holder.
THEOREM SnapshotTypes == Spec => []TypeOK
<1>1. Init => TypeOK
  <2> SUFFICES ASSUME Init PROVE TypeOK
    BY Zenon
  <2>1. pc \in [Req -> PC] /\ serial \in BOOLEAN /\ crashed \in BOOLEAN /\ in_progress \in BOOLEAN
    BY Zenon DEF Init, PC
  <2>2. copied_clusters \in 0 .. Allocated /\ done \in [Req -> 0 .. Allocated]
    BY DEF Init
  <2>3. answers \in [Req -> Nat] /\ result \in {0, -1}
    BY Zenon DEF Init
  <2> QED BY <2>1, <2>2, <2>3, Zenon DEF Init, TypeOK
<1>2. TypeOK /\ [Next]_vars => TypeOK'
  BY TypeStep, Zenon
<1> QED BY <1>1, <1>2, PTL DEF Spec

-----------------------------------------------------------------------------
\* Every callback that ends the chain or starts the copy answers, and no other does.
LEMMA AnsweredStep == TypeOK /\ AnsweredOnce /\ [Next]_vars => AnsweredOnce'
<1> SUFFICES ASSUME TypeOK /\ AnsweredOnce, [Next]_vars PROVE AnsweredOnce'
  BY Zenon
<1> USE DEF TypeOK, AnsweredOnce, Waiting
<1>1. ASSUME NEW r \in Req, bdev_ubi_snapshot(r) PROVE AnsweredOnce'
  BY <1>1, Zenon DEF bdev_ubi_snapshot, status, unchanged
<1>2. ASSUME NEW r \in Req, bdev_ubi_snapshot_nodev(r) PROVE AnsweredOnce'
  BY <1>2 DEF bdev_ubi_snapshot_nodev, cb_fn, status, unchanged
<1>3. ASSUME NEW r \in Req, ubi_snapshot_create_cb(r) PROVE AnsweredOnce'
  BY <1>3 DEF ubi_snapshot_create_cb, Called, cb_fn, cleanup_snapshot_context, status,
     unchanged
<1>4. ASSUME NEW r \in Req, snapshot_error(r) PROVE AnsweredOnce'
  BY <1>4 DEF snapshot_error, Called, fail, cb_fn, cleanup_snapshot_context, unchanged
<1>5. ASSUME NEW r \in Req, ubi_clone_create_cb(r) PROVE AnsweredOnce'
  BY <1>5, Zenon DEF ubi_clone_create_cb, Called, status, unchanged
<1>6. ASSUME NEW r \in Req, ubi_open_clone_cb(r) PROVE AnsweredOnce'
  BY <1>6, Zenon DEF ubi_open_clone_cb, Called, status, unchanged
<1>7. ASSUME NEW r \in Req, set_read_only_error(r) PROVE AnsweredOnce'
  BY <1>7 DEF set_read_only_error, Called, fail, cb_fn, cleanup_snapshot_context,
     unchanged
<1>8. ASSUME NEW r \in Req, ubi_close_clone_cb(r) PROVE AnsweredOnce'
  BY <1>8, Zenon DEF ubi_close_clone_cb, Called, status, unchanged
<1>9. ASSUME NEW r \in Req, chain_error(r) PROVE AnsweredOnce'
  BY <1>9 DEF chain_error, Called, fail, cb_fn, cleanup_snapshot_context, unchanged
<1>10. ASSUME NEW r \in Req, ubi_start_snapshot(r) PROVE AnsweredOnce'
  BY <1>10 DEF ubi_start_snapshot, Called, cb_fn, unchanged
<1>11. ASSUME NEW r \in Req, ubi_start_snapshot_sync(r) PROVE AnsweredOnce'
  BY <1>11 DEF ubi_start_snapshot_sync, Called, cb_fn, unchanged
<1>12. ASSUME NEW r \in Req, ubi_start_snapshot_badpath(r) PROVE AnsweredOnce'
  BY <1>12, Zenon DEF ubi_start_snapshot_badpath, Called
<1>13. ASSUME NEW r \in Req, ubi_shallow_copy_status_cb(r) PROVE AnsweredOnce'
  BY <1>13, Zenon DEF ubi_shallow_copy_status_cb, Called, unchanged
<1>14. ASSUME NEW r \in Req, ubi_shallow_copy_complete_cb(r) PROVE AnsweredOnce'
  BY <1>14, Zenon DEF ubi_shallow_copy_complete_cb, Called, cleanup_snapshot_context, unchanged
<1>15. ASSUME NEW r \in Req, bs_dev_delta_destroy_channel_cb(r) PROVE AnsweredOnce'
  BY <1>15, Zenon DEF bs_dev_delta_destroy_channel_cb, status, unchanged
<1>16. ASSUME NEW r \in Req, UseFreed(r) PROVE AnsweredOnce'
  BY <1>16, Zenon DEF UseFreed, status
<1>17. CASE ubi_finish_create \/ bdev_ubi_delete
  BY <1>17, Zenon DEF ubi_finish_create, bdev_ubi_delete, status
<1>18. CASE ubi_destruct \/ ubi_destruct_bs_unload_cb
  BY <1>18, Zenon DEF ubi_destruct, ubi_destruct_bs_unload_cb, status
<1>19. CASE _device_unregister_cb
  BY <1>19, Zenon DEF _device_unregister_cb, status
<1>20. CASE UNCHANGED vars
  BY <1>20, Zenon DEF vars, status, unchanged
<1> QED BY <1>1, <1>2, <1>3, <1>4, <1>5, <1>6, <1>7, <1>8, <1>9, <1>10, <1>11, <1>12,
           <1>13, <1>14, <1>15, <1>16, <1>17, <1>18, <1>19, <1>20, Zenon DEF Next, Callback

\* Every request is answered exactly once, by the end of its chain of callbacks,
\* whichever call fails and however the requests overlap: cb_fn is never called
\* a second time by the end of the copy, and no early return leaves it out.
THEOREM SnapshotAnswered == Spec => []AnsweredOnce
<1>1. Init => AnsweredOnce
  BY Zenon DEF Init, AnsweredOnce
<1>2. TypeOK /\ AnsweredOnce /\ [Next]_vars => AnsweredOnce'
  BY AnsweredStep, Zenon
<1> QED BY <1>1, <1>2, SnapshotTypes, PTL DEF Spec

-----------------------------------------------------------------------------
\* What Released needs besides itself.  The delta device has a channel only once
\* the copy is started, and the clone is open only between ubi_open_clone_cb and
\* ubi_close_clone_cb, while it is copied, and where a request that ended left it.
ClonesHeld ==
  \A r \in Req :
    /\ pc[r] \in {"idle", "snapshot", "clone", "open", "close", "decouple"} =>
         deltaCh[r] = "none"
    /\ r \in clone => pc[r] \in {"close", "copy", "ended", "wild"}

ReleasedInv == Released /\ ClonesHeld

\* cleanup_snapshot_context runs when a request ends, and only then.
LEMMA ReleasedStep == TypeOK /\ ReleasedInv /\ [Next]_vars => ReleasedInv'
<1> SUFFICES ASSUME TypeOK /\ ReleasedInv, [Next]_vars PROVE ReleasedInv'
  BY Zenon
<1> USE DEF TypeOK, ReleasedInv, Released, ClonesHeld, Waiting
<1>1. ASSUME NEW r \in Req, bdev_ubi_snapshot(r) PROVE ReleasedInv'
  BY <1>1, Zenon DEF bdev_ubi_snapshot, status, unchanged
<1>2. ASSUME NEW r \in Req, bdev_ubi_snapshot_nodev(r) PROVE ReleasedInv'
  BY <1>2, Zenon DEF bdev_ubi_snapshot_nodev, cb_fn, status, unchanged
<1>3. ASSUME NEW r \in Req, ubi_snapshot_create_cb(r) PROVE ReleasedInv'
  BY <1>3 DEF ubi_snapshot_create_cb, Called, cb_fn, cleanup_snapshot_context, status,
     unchanged
<1>4. ASSUME NEW r \in Req, snapshot_error(r) PROVE ReleasedInv'
  BY <1>4, Zenon DEF snapshot_error, Called, fail, cb_fn, cleanup_snapshot_context, unchanged
<1>5. ASSUME NEW r \in Req, ubi_clone_create_cb(r) PROVE ReleasedInv'
  BY <1>5, Zenon DEF ubi_clone_create_cb, Called, status, unchanged
<1>6. ASSUME NEW r \in Req, ubi_open_clone_cb(r) PROVE ReleasedInv'
  BY <1>6, Zenon DEF ubi_open_clone_cb, Called, status, unchanged
<1>7. ASSUME NEW r \in Req, set_read_only_error(r) PROVE ReleasedInv'
  BY <1>7 DEF set_read_only_error, Called, fail, cb_fn, cleanup_snapshot_context,
     unchanged
<1>8. ASSUME NEW r \in Req, ubi_close_clone_cb(r) PROVE ReleasedInv'
  BY <1>8, Zenon DEF ubi_close_clone_cb, Called, status, unchanged
<1>9. ASSUME NEW r \in Req, chain_error(r) PROVE ReleasedInv'
  BY <1>9 DEF chain_error, Called, fail, cb_fn, cleanup_snapshot_context, unchanged
<1>10. ASSUME NEW r \in Req, ubi_start_snapshot(r) PROVE ReleasedInv'
  BY <1>10, Zenon DEF ubi_start_snapshot, Called, cb_fn, unchanged
<1>11. ASSUME NEW r \in Req, ubi_start_snapshot_sync(r) PROVE ReleasedInv'
  BY <1>11, Zenon DEF ubi_start_snapshot_sync, Called, cb_fn, unchanged
<1>12. ASSUME NEW r \in Req, ubi_start_snapshot_badpath(r) PROVE ReleasedInv'
  BY <1>12, Zenon DEF ubi_start_snapshot_badpath, Called
<1>13. ASSUME NEW r \in Req, ubi_shallow_copy_status_cb(r) PROVE ReleasedInv'
  BY <1>13, Zenon DEF ubi_shallow_copy_status_cb, Called, unchanged
<1>14. ASSUME NEW r \in Req, ubi_shallow_copy_complete_cb(r) PROVE ReleasedInv'
  BY <1>14, Zenon DEF ubi_shallow_copy_complete_cb, Called, cleanup_snapshot_context, unchanged
<1>15. ASSUME NEW r \in Req, bs_dev_delta_destroy_channel_cb(r) PROVE ReleasedInv'
  BY <1>15, Zenon DEF bs_dev_delta_destroy_channel_cb, status, unchanged
<1>16. ASSUME NEW r \in Req, UseFreed(r) PROVE ReleasedInv'
  BY <1>16, Zenon DEF UseFreed, status
<1>17. CASE ubi_finish_create \/ bdev_ubi_delete
  BY <1>17, Zenon DEF ubi_finish_create, bdev_ubi_delete, status
<1>18. CASE ubi_destruct \/ ubi_destruct_bs_unload_cb
  BY <1>18, Zenon DEF ubi_destruct, ubi_destruct_bs_unload_cb, status
<1>19. CASE _device_unregister_cb
  BY <1>19, Zenon DEF _device_unregister_cb, status
<1>20. CASE UNCHANGED vars
  BY <1>20, Zenon DEF vars, status, unchanged
<1> QED BY <1>1, <1>2, <1>3, <1>4, <1>5, <1>6, <1>7, <1>8, <1>9, <1>10, <1>11, <1>12,
           <1>13, <1>14, <1>15, <1>16, <1>17, <1>18, <1>19, <1>20, Zenon DEF Next, Callback

\* No callback of the chain or of the copy finds its context freed, and a request
\* that has ended holds no context, channel or delta device, and the clone open
\* only where it could not be made read-only or closed, which snapshot_status.result
\* reports.
THEOREM SnapshotReleased == Spec => []Released
<1>1. Init => ReleasedInv
  BY Zenon DEF Init, ReleasedInv, Released, ClonesHeld, Waiting
<1>2. TypeOK /\ ReleasedInv /\ [Next]_vars => ReleasedInv'
  BY ReleasedStep, Zenon
<1>3. ReleasedInv => Released
  BY Zenon DEF ReleasedInv
<1> QED BY <1>1, <1>2, <1>3, SnapshotTypes, PTL DEF Spec

-----------------------------------------------------------------------------
\* What StatusExact needs besides itself.  A client that waits has at most one
\* request that is neither answered nor ended, and no request before it left a
\* copy: the next request finds in_progress false, so no copy is under way, and
\* every earlier request answered, so none is in its chain of callbacks.
OneAtATime ==
  serial /\ Sane =>
    \A q, r \in Req :
      pc[q] \in Waiting \cup {"stuck"} /\ pc[r] \in Waiting \cup {"stuck"} => q = r

\* A copy that could not be started leaves in_progress true; spdk_bs_blob_shallow_copy
\* has then failed at once.
Stuck ==
  \A r \in Req : pc[r] = "stuck" =>
    "copysync" \in Faults /\ (serial /\ Sane => in_progress)

StatusInv == StatusExact /\ OneAtATime /\ Stuck

\* Every callback keeps in_progress in step with the copy of the one request.
LEMMA StatusStep == TypeOK /\ AnsweredOnce /\ StatusInv /\ [Next]_vars => StatusInv'
<1> SUFFICES ASSUME TypeOK /\ AnsweredOnce /\ StatusInv, [Next]_vars PROVE StatusInv'
  BY Zenon
<1> USE DEF TypeOK, AnsweredOnce, StatusInv, StatusExact, OneAtATime, Sane, Stuck, Waiting, PC
<1>1. ASSUME NEW r \in Req, bdev_ubi_snapshot(r) PROVE StatusInv'
  BY <1>1 DEF bdev_ubi_snapshot, status, unchanged
<1>2. ASSUME NEW r \in Req, bdev_ubi_snapshot_nodev(r) PROVE StatusInv'
  BY <1>2 DEF bdev_ubi_snapshot_nodev, cb_fn, status, unchanged
<1>3. ASSUME NEW r \in Req, ubi_snapshot_create_cb(r) PROVE StatusInv'
  BY <1>3 DEF ubi_snapshot_create_cb, Called, cb_fn, cleanup_snapshot_context, status,
     unchanged
<1>4. ASSUME NEW r \in Req, snapshot_error(r) PROVE StatusInv'
  BY <1>4 DEF snapshot_error, Called, fail, cb_fn, cleanup_snapshot_context, unchanged
<1>5. ASSUME NEW r \in Req, ubi_clone_create_cb(r) PROVE StatusInv'
  BY <1>5 DEF ubi_clone_create_cb, Called, status, unchanged
<1>6. ASSUME NEW r \in Req, ubi_open_clone_cb(r) PROVE StatusInv'
  BY <1>6 DEF ubi_open_clone_cb, Called, status, unchanged
<1>7. ASSUME NEW r \in Req, set_read_only_error(r) PROVE StatusInv'
  BY <1>7 DEF set_read_only_error, Called, fail, cb_fn, cleanup_snapshot_context,
     unchanged
<1>8. ASSUME NEW r \in Req, ubi_close_clone_cb(r) PROVE StatusInv'
  BY <1>8 DEF ubi_close_clone_cb, Called, status, unchanged
<1>9. ASSUME NEW r \in Req, chain_error(r) PROVE StatusInv'
  BY <1>9 DEF chain_error, Called, fail, cb_fn, cleanup_snapshot_context, unchanged
<1>10. ASSUME NEW r \in Req, ubi_start_snapshot(r) PROVE StatusInv'
  BY <1>10 DEF ubi_start_snapshot, Called, cb_fn, unchanged
<1>11. ASSUME NEW r \in Req, ubi_start_snapshot_sync(r) PROVE StatusInv'
  BY <1>11 DEF ubi_start_snapshot_sync, Called, cb_fn, unchanged
<1>12. ASSUME NEW r \in Req, ubi_start_snapshot_badpath(r) PROVE StatusInv'
  BY <1>12, Zenon DEF ubi_start_snapshot_badpath, Called
<1>13. ASSUME NEW r \in Req, ubi_shallow_copy_status_cb(r) PROVE StatusInv'
  BY <1>13, Zenon DEF ubi_shallow_copy_status_cb, Called, unchanged
<1>14. ASSUME NEW r \in Req, ubi_shallow_copy_complete_cb(r) PROVE StatusInv'
  BY <1>14 DEF ubi_shallow_copy_complete_cb, Called, cleanup_snapshot_context, unchanged
<1>15. ASSUME NEW r \in Req, bs_dev_delta_destroy_channel_cb(r) PROVE StatusInv'
  BY <1>15, Zenon DEF bs_dev_delta_destroy_channel_cb, status, unchanged
<1>16. ASSUME NEW r \in Req, UseFreed(r) PROVE StatusInv'
  BY <1>16, Zenon DEF UseFreed, status
<1>17. CASE ubi_finish_create \/ bdev_ubi_delete
  BY <1>17 DEF ubi_finish_create, bdev_ubi_delete, status
<1>18. CASE ubi_destruct \/ ubi_destruct_bs_unload_cb
  BY <1>18 DEF ubi_destruct, ubi_destruct_bs_unload_cb, status
<1>19. CASE _device_unregister_cb
  BY <1>19, Zenon DEF _device_unregister_cb, status
<1>20. CASE UNCHANGED vars
  BY <1>20, Zenon DEF vars, status, unchanged
<1> QED BY <1>1, <1>2, <1>3, <1>4, <1>5, <1>6, <1>7, <1>8, <1>9, <1>10, <1>11, <1>12,
           <1>13, <1>14, <1>15, <1>16, <1>17, <1>18, <1>19, <1>20, Zenon DEF Next, Callback

\* Every state of the specification has the invariant.
LEMMA SnapshotStatusInv == Spec => []StatusInv
<1>1. Init => StatusInv
  BY Zenon DEF Init, StatusInv, StatusExact, OneAtATime, Sane, Stuck, Waiting
<1>2. TypeOK /\ AnsweredOnce /\ StatusInv /\ [Next]_vars => StatusInv'
  BY StatusStep, Zenon
<1> QED BY <1>1, <1>2, SnapshotTypes, SnapshotAnswered, PTL DEF Spec

\* For a client that waits for the answer and for in_progress to be false,
\* snapshot_status.in_progress tells whether a copy is under way and two copies
\* never run at once, unless a copy could not be started.
THEOREM SnapshotStatus == Spec => []StatusExact
<1>1. StatusInv => StatusExact
  BY Zenon DEF StatusInv
<1> QED BY <1>1, SnapshotStatusInv, PTL

\* Where spdk_bs_blob_shallow_copy always starts the copy, in_progress tells such a
\* client whether a copy is under way, with no exception.
THEOREM SnapshotStatusTrue ==
  ASSUME "copysync" \notin Faults PROVE Spec => []StatusTrue
<1>1. StatusInv => StatusTrue
  BY Zenon DEF StatusInv, StatusExact, StatusTrue, Stuck, Sane
<1> QED BY <1>1, SnapshotStatusInv, PTL
=============================================================================

----------------------------- MODULE UringProofs ----------------------------
(***************************************************************************)
(* Proofs about UringChannel, for any requests, batch and ring size, with  *)
(* and without a snapshot file; every fault is allowed unless a theorem    *)
(* says otherwise.                                                         *)
(***************************************************************************)
EXTENDS UringChannel, FiniteSetTheorems, TLAPS

\* A request is answered by whoever takes it out of the ring, and what the kernel
\* reports as done has filled the buffer.
Entries ==
  \A r \in Req :
    /\ kind[r] = "none" => result[r] = "none"
    /\ io[r] # "none" /\ r \notin cut => result[r] = "none"
    /\ io[r] = "done" /\ kind[r] = "whole" => buf[r] = "full"

ChannelInv ==
  TypeOK /\ TouchedOnce /\ SuccessIsData /\ NoneLost /\ Descriptors /\ RingRoom /\ Entries

\* ChannelInv holds at first.
LEMMA UringInit == Init => ChannelInv
<1> SUFFICES ASSUME Init PROVE ChannelInv
  BY Zenon
<1>1. TypeOK
  BY Zenon DEF Init, TypeOK, Kind, Place, Completed, InRing
<1>2. TouchedOnce /\ SuccessIsData /\ RingRoom /\ Entries
  BY Zenon DEF Init, TouchedOnce, SuccessIsData, RingRoom, Entries, InRing
<1>3. NoneLost /\ Descriptors
  BY UringAssumption, Zenon DEF Init, NoneLost, Descriptors, Pending
<1> QED
  BY <1>1, <1>2, <1>3, Zenon DEF ChannelInv

\* Every step keeps it.
LEMMA ChannelStep == ChannelInv /\ [Next]_vars => ChannelInv'
<1> SUFFICES ASSUME ChannelInv, [Next]_vars PROVE ChannelInv'
  BY Zenon
<1> USE DEF ChannelInv, TypeOK, TouchedOnce, SuccessIsData, NoneLost, Descriptors, RingRoom,
            Entries, Kind, Place, Completed, InRing, Pending, device, files, req
<1>1. CASE \/ bs_dev_uring_create \/ bs_dev_uring_destroy
           \/ bs_dev_uring_create_channel \/ bs_dev_uring_destroy_channel
  BY <1>1 DEF bs_dev_uring_create, bs_dev_uring_destroy, bs_dev_uring_create_channel,
              bs_dev_uring_destroy_channel
<1>2. CASE bs_dev_uring_create_channel_cb
  BY <1>2 DEF bs_dev_uring_create_channel_cb
<1>3. ASSUME NEW f \in {"image", "delta", "ring"}, create_channel_fail(f) PROVE ChannelInv'
  BY <1>3, Zenon DEF create_channel_fail
<1>4. CASE bs_dev_uring_destroy_channel_cb
  BY <1>4 DEF bs_dev_uring_destroy_channel_cb
<1>5. ASSUME NEW r \in Req, bs_dev_uring_write(r) \/ read_past(r) PROVE ChannelInv'
  BY <1>5 DEF bs_dev_uring_write, read_past, Make, cb_fn
<1>6. ASSUME NEW r \in Req, read_no_sqe(r) PROVE ChannelInv'
  BY <1>6 DEF read_no_sqe, Make
<1>7. ASSUME NEW r \in Req, bs_dev_uring_read(r) PROVE ChannelInv'
  BY <1>7 DEF bs_dev_uring_read, Make
<1>8. ASSUME NEW r \in Req, submit_error(r) PROVE ChannelInv'
  BY <1>8 DEF submit_error, Make, cb_fn
<1>9. ASSUME NEW r \in Req, KernelDone(r) PROVE ChannelInv'
  BY <1>9 DEF KernelDone
<1>10. ASSUME NEW r \in Req, poll_complete(r) PROVE ChannelInv'
  BY <1>10 DEF poll_complete, cb_fn
<1>11. CASE poll
  BY <1>11 DEF poll
<1>12. CASE UNCHANGED vars
  BY <1>12, Zenon DEF vars
<1> QED
  BY <1>1, <1>2, <1>3, <1>4, <1>5, <1>6, <1>7, <1>8, <1>9, <1>10, <1>11, <1>12, Zenon DEF Next

\* ChannelInv always holds.
LEMMA ChannelInvHolds == Spec => []ChannelInv
BY UringInit, ChannelStep, PTL DEF Spec

\* The types of the channel's state.
THEOREM UringTypes == Spec => []TypeOK
<1>1. ChannelInv => TypeOK
  BY Zenon DEF ChannelInv
<1> QED
  BY <1>1, ChannelInvHolds, PTL

\* Without a failed io_uring_submit of its own, a request is answered once by
\* bs_dev_uring_read or bs_dev_uring_poll, and left alone from then on.
THEOREM UringTouchedOnce == Spec => []TouchedOnce
<1>1. ChannelInv => TouchedOnce
  BY Zenon DEF ChannelInv
<1> QED
  BY <1>1, ChannelInvHolds, PTL

\* bs_dev_uring_poll reports success only for reads that filled their buffer, where
\* the range lies in the file.
THEOREM UringSuccessIsData == Spec => []SuccessIsData
<1>1. ChannelInv => SuccessIsData
  BY Zenon DEF ChannelInv
<1> QED
  BY <1>1, ChannelInvHolds, PTL

\* No unanswered request is dropped by the ring, the poller or the channel's end.
THEOREM UringNoneLost == Spec => []NoneLost
<1>1. ChannelInv => NoneLost
  BY Zenon DEF ChannelInv
<1> QED
  BY <1>1, ChannelInvHolds, PTL

\* bs_dev_uring_create_channel_cb and bs_dev_uring_destroy_channel_cb close
\* everything they should but the snapshot file, however often channels come and go.
THEOREM UringDescriptors == Spec => []Descriptors
<1>1. ChannelInv => Descriptors
  BY Zenon DEF ChannelInv
<1> QED
  BY <1>1, ChannelInvHolds, PTL

\* Only entries of submissions that went wrong take room in the ring.
THEOREM UringRingRoom == Spec => []RingRoom
<1>1. ChannelInv => RingRoom
  BY Zenon DEF ChannelInv
<1> QED
  BY <1>1, ChannelInvHolds, PTL

-----------------------------------------------------------------------------
\* Where io_uring_submit takes every entry it is given, nothing stays in the ring.
SubmitsAll == "submit" \notin Faults => cut = {}

\* SubmitsAll always holds.
LEMMA SubmitsAllHolds == Spec => []SubmitsAll
<1>1. Init => SubmitsAll
  BY Zenon DEF Init, SubmitsAll
<1>2. SubmitsAll /\ [Next]_vars => SubmitsAll'
  BY Zenon DEF SubmitsAll, Next, vars, bs_dev_uring_create, bs_dev_uring_destroy,
       bs_dev_uring_create_channel, bs_dev_uring_create_channel_cb, create_channel_fail,
       bs_dev_uring_destroy_channel, bs_dev_uring_destroy_channel_cb, bs_dev_uring_write,
       read_past, read_no_sqe, bs_dev_uring_read, submit_error, KernelDone, poll_complete, poll
<1> QED BY <1>1, <1>2, PTL DEF Spec

\* If io_uring_submit never fails or takes only a part, neither the kernel nor the
\* poller touches a request that was answered: the failed submission is the one
\* cause of it.
THEOREM UringNoLateTouch == "submit" \notin Faults => (Spec => []NoLateTouch)
<1> SUFFICES ASSUME "submit" \notin Faults PROVE Spec => []NoLateTouch
  BY Zenon
<1>1. ChannelInv /\ SubmitsAll => NoLateTouch
  BY Zenon DEF ChannelInv, TypeOK, TouchedOnce, SubmitsAll, NoLateTouch
<1> QED BY <1>1, ChannelInvHolds, SubmitsAllHolds, PTL

\* Nor does the process then die of a full ring, whatever the load: only a channel
\* whose files or ring cannot be opened ends it.
CrashCause == crashed => {"image", "delta", "ring"} \cap Faults # {}

\* io_uring_get_sqe finds room for every read, if io_uring_submit never fails or
\* takes only a part.
THEOREM UringAlwaysRoom == "submit" \notin Faults => (Spec => []CrashCause)
<1> SUFFICES ASSUME "submit" \notin Faults PROVE Spec => []CrashCause
  BY Zenon
<1>1. Init => CrashCause
  BY Zenon DEF Init, CrashCause
<1>2. ChannelInv /\ SubmitsAll => InRing({"sq"}) = {}
  BY Zenon DEF ChannelInv, RingRoom, SubmitsAll
<1>3. ASSUME InRing({"sq"}) = {} PROVE Cardinality(InRing({"sq"})) = 0
  BY <1>3, FS_EmptySet, Zenon
<1>4. ~(0 >= QueueSize)
  BY UringAssumption
<1>5. ASSUME NEW r \in Req, ChannelInv, SubmitsAll, read_no_sqe(r) PROVE FALSE
  BY <1>2, <1>3, <1>4, <1>5, Zenon DEF read_no_sqe
<1>6. ChannelInv /\ SubmitsAll /\ CrashCause /\ [Next]_vars => CrashCause'
  BY <1>5, Zenon DEF CrashCause, Next, vars, bs_dev_uring_create, bs_dev_uring_destroy,
       bs_dev_uring_create_channel, bs_dev_uring_create_channel_cb, create_channel_fail,
       bs_dev_uring_destroy_channel, bs_dev_uring_destroy_channel_cb, bs_dev_uring_write,
       read_past, bs_dev_uring_read, submit_error, KernelDone, poll_complete, poll
<1> QED BY <1>1, <1>6, ChannelInvHolds, SubmitsAllHolds, PTL DEF Spec
=============================================================================

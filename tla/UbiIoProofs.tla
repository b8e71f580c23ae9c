----------------------------- MODULE UbiIoProofs ----------------------------
(***************************************************************************)
(* Proofs about UbiIo, for any requests and blocks: every request is       *)
(* answered once, and over a base bdev without a volatile cache no crash   *)
(* or restart undoes a write that was answered.                            *)
(***************************************************************************)
EXTENDS UbiIo, TLAPS

\* What a crash can undo is nothing: stable storage has what reads return, and
\* neither is older than what was answered.
Settled ==
  ~writeback => /\ media = cache
                /\ \A b \in Block : cache[b] >= acked[b] /\ cache[b] >= flushed[b]

IoInv == TypeOK /\ AnsweredOnce /\ Settled

\* IoInv holds at first.
LEMMA IoInit == Init => IoInv
<1>1. Init => TypeOK
  BY DEF Init, TypeOK, Op, Blank
<1>2. Init => AnsweredOnce
  BY Zenon DEF Init, AnsweredOnce
<1>3. Init => Settled
  BY DEF Init, Settled, Blank
<1> QED
  BY <1>1, <1>2, <1>3, Zenon DEF IoInv

\* A completed write raises the number of writes and keeps every version below.
LEMMA StoredTypes ==
  ASSUME TypeOK, NEW b \in Block, Stored(b)
  PROVE  /\ writes' = writes + 1
         /\ writes' \in Nat
         /\ cache' \in [Block -> 0..writes'] /\ media' \in [Block -> 0..writes']
         /\ \A f \in [Block -> 0..writes] : f \in [Block -> 0..writes']
<1>1. writes' = writes + 1 /\ writes' \in Nat /\ writes \in Nat
  BY DEF TypeOK, Stored
<1>2. writes + 1 \in 0..writes' /\ \A n \in 0..writes : n \in 0..writes'
  BY <1>1
<1>3. \A f \in [Block -> 0..writes] : f \in [Block -> 0..writes']
  BY <1>2, Zenon
<1>4. cache' \in [Block -> 0..writes']
  BY <1>2, <1>3, Zenon DEF Stored, TypeOK
<1>5. media' \in [Block -> 0..writes']
  BY <1>2, <1>3, Zenon DEF Stored, TypeOK
<1> QED
  BY <1>1, <1>3, <1>4, <1>5, Zenon

\* Every step keeps the types.
LEMMA TypeStep == TypeOK /\ [Next]_vars => TypeOK'
<1> SUFFICES ASSUME TypeOK, [Next]_vars PROVE TypeOK'
  BY Zenon
<1>1. ASSUME NEW r \in Req, submit_rw(r) PROVE TypeOK'
  BY <1>1, Zenon DEF TypeOK, submit_rw, request
<1>2. ASSUME NEW r \in Req, submit_flush(r) PROVE TypeOK'
  BY <1>2 DEF TypeOK, submit_flush, request, spdk_bdev_io_complete
<1>3. ASSUME NEW r \in Req, submit_other(r) PROVE TypeOK'
  BY <1>3 DEF TypeOK, submit_other, request, spdk_bdev_io_complete
<1>4. ASSUME NEW r \in Req, ubi_blob_io_complete(r) PROVE TypeOK'
  <2>1. CASE op[r] = "WRITE"
    <3>1. Stored(blk[r]) /\ blk[r] \in Block
      BY <1>4, <2>1, Zenon DEF ubi_blob_io_complete, TypeOK
    <3>2. acked' \in [Block -> 0..writes'] /\ flushed' \in [Block -> 0..writes']
      BY <1>4, <2>1, <3>1, StoredTypes DEF ubi_blob_io_complete, TypeOK
    <3> QED
      BY <1>4, <3>1, <3>2, StoredTypes DEF TypeOK, ubi_blob_io_complete, request, spdk_bdev_io_complete
  <2>2. CASE op[r] # "WRITE"
    BY <1>4, <2>2 DEF TypeOK, ubi_blob_io_complete, request, spdk_bdev_io_complete
  <2> QED
    BY <2>1, <2>2, Zenon
<1>5. ASSUME NEW r \in Req, ubi_blob_io_error(r) PROVE TypeOK'
  <2>1. CASE Stored(blk[r])
    <3>1. blk[r] \in Block
      BY Zenon DEF TypeOK
    <3>2. acked' \in [Block -> 0..writes'] /\ flushed' \in [Block -> 0..writes']
      BY <1>5, <2>1, <3>1, StoredTypes, Zenon DEF ubi_blob_io_error, TypeOK
    <3> QED
      BY <1>5, <2>1, <3>1, <3>2, StoredTypes DEF TypeOK, ubi_blob_io_error, request, spdk_bdev_io_complete
  <2>2. CASE UNCHANGED <<writes, cache, media>>
    BY <1>5, <2>2 DEF TypeOK, ubi_blob_io_error, request, spdk_bdev_io_complete
  <2> QED
    BY <1>5, <2>1, <2>2, Zenon DEF ubi_blob_io_error
<1>6. ASSUME NEW b \in Block, Writeback(b) PROVE TypeOK'
  BY <1>6, Zenon DEF TypeOK, Writeback, request
<1>7. CASE Crash
  BY <1>7, Zenon DEF TypeOK, Crash, request
<1>8. CASE bdev_ubi_delete
  BY <1>8, Zenon DEF TypeOK, bdev_ubi_delete, request
<1>9. Blank \in [Block -> 0..writes]
  BY DEF Blank, TypeOK
<1>10. ASSUME NEW p, Create(p)
       PROVE  /\ up' \in BOOLEAN
              /\ cache' \in [Block -> 0..writes] /\ media' \in [Block -> 0..writes]
  BY <1>9, <1>10, Zenon DEF Create, TypeOK
<1>11. CASE LoadConfig
  BY <1>10, <1>11, Zenon DEF TypeOK, LoadConfig, request
<1>12. ASSUME NEW p \in Params, rpc_bdev_ubi_create(p) PROVE TypeOK'
  BY <1>9, <1>10, <1>12, Zenon DEF TypeOK, rpc_bdev_ubi_create, request
<1>13. CASE UNCHANGED vars
  BY <1>13, Zenon DEF TypeOK, vars, request
<1> QED
  BY <1>1, <1>2, <1>3, <1>4, <1>5, <1>6, <1>7, <1>8, <1>11, <1>12, <1>13, Zenon DEF Next

\* A request is answered by the step that makes it ok or failed, and by no other.
LEMMA AnswerStep == TypeOK /\ AnsweredOnce /\ [Next]_vars => AnsweredOnce'
<1> SUFFICES ASSUME TypeOK, AnsweredOnce, [Next]_vars PROVE AnsweredOnce'
  BY Zenon
<1> USE DEF AnsweredOnce, TypeOK
<1>1. ASSUME NEW r \in Req, st[r] \in {"new", "queued"}, NEW ok \in BOOLEAN,
             spdk_bdev_io_complete(r, ok)
      PROVE  AnsweredOnce'
  BY <1>1 DEF spdk_bdev_io_complete
<1>2. ASSUME NEW r \in Req, submit_rw(r) PROVE AnsweredOnce'
  BY <1>2, Zenon DEF submit_rw
<1>3. ASSUME NEW r \in Req,
             \/ submit_flush(r) \/ submit_other(r)
             \/ ubi_blob_io_complete(r) \/ ubi_blob_io_error(r)
      PROVE  AnsweredOnce'
  BY <1>1, <1>3, Zenon DEF submit_flush, submit_other, ubi_blob_io_complete, ubi_blob_io_error
<1>4. ASSUME NEW b \in Block, Writeback(b) PROVE AnsweredOnce'
  BY <1>4, Zenon DEF Writeback
<1>5. CASE Crash
  BY <1>5, Zenon DEF Crash
<1>6. CASE bdev_ubi_delete \/ LoadConfig
  BY <1>6, Zenon DEF bdev_ubi_delete, LoadConfig
<1>7. ASSUME NEW p \in Params, rpc_bdev_ubi_create(p) PROVE AnsweredOnce'
  BY <1>7, Zenon DEF rpc_bdev_ubi_create
<1>8. CASE UNCHANGED vars
  BY <1>8, Zenon DEF vars
<1> QED
  BY <1>2, <1>3, <1>4, <1>5, <1>6, <1>7, <1>8, Zenon DEF Next

\* Without a cache a write reaches stable storage before it is answered.
LEMMA SettledStep == TypeOK /\ Settled /\ [Next]_vars => Settled'
<1> SUFFICES ASSUME TypeOK, Settled, [Next]_vars, ~writeback' PROVE Settled'
  BY Zenon DEF Settled
<1>0. ~writeback
  BY Zenon DEF Next, vars, request, submit_rw, submit_flush, submit_other,
         ubi_blob_io_complete, ubi_blob_io_error, Writeback, Crash, bdev_ubi_delete,
         LoadConfig, rpc_bdev_ubi_create
<1>1. media = cache /\ \A b \in Block : cache[b] >= acked[b] /\ cache[b] >= flushed[b]
  BY <1>0, Zenon DEF Settled
<1>2. ASSUME NEW b \in Block, Stored(b), UNCHANGED flushed,
             \/ acked' = [acked EXCEPT ![b] = writes + 1]
             \/ UNCHANGED acked
      PROVE  Settled'
  <2>1. media' = cache' /\ cache' = [cache EXCEPT ![b] = writes + 1]
    BY <1>0, <1>1, <1>2, Zenon DEF Stored
  <2>2. ASSUME NEW a \in Block PROVE cache'[a] >= acked'[a] /\ cache'[a] >= flushed'[a]
    <3>1. writes \in Nat /\ cache[a] \in 0..writes /\ acked[a] \in 0..writes
          /\ flushed[a] \in 0..writes
      BY Zenon DEF TypeOK
    <3>2. cache'[a] = IF a = b THEN writes + 1 ELSE cache[a]
      BY <2>1, Zenon DEF TypeOK
    <3>3. acked'[a] = acked[a] \/ (a = b /\ acked'[a] = writes + 1)
      BY <1>2, Zenon DEF TypeOK
    <3> QED
      BY <1>1, <1>2, <3>1, <3>2, <3>3
  <2> QED
    BY <2>1, <2>2, Zenon DEF Settled
<1>3. ASSUME NEW r \in Req, ubi_blob_io_complete(r) PROVE Settled'
  <2>1. CASE op[r] = "WRITE"
    BY <1>2, <1>3, <2>1, Zenon DEF ubi_blob_io_complete, TypeOK
  <2>2. CASE op[r] # "WRITE"
    BY <1>1, <1>3, <2>2, Zenon DEF ubi_blob_io_complete, Settled
  <2> QED
    BY <2>1, <2>2, Zenon
<1>4. ASSUME NEW r \in Req, ubi_blob_io_error(r) PROVE Settled'
  <2>1. CASE Stored(blk[r])
    BY <1>2, <1>4, <2>1, Zenon DEF ubi_blob_io_error, TypeOK
  <2>2. CASE UNCHANGED <<writes, cache, media>>
    BY <1>1, <1>4, <2>2, Zenon DEF ubi_blob_io_error, Settled
  <2> QED
    BY <1>4, <2>1, <2>2, Zenon DEF ubi_blob_io_error
<1>5. ASSUME NEW r \in Req, submit_flush(r) PROVE Settled'
  BY <1>1, <1>5 DEF submit_flush, Settled, TypeOK
<1>6. ASSUME NEW r \in Req, submit_rw(r) \/ submit_other(r) PROVE Settled'
  BY <1>1, <1>6, Zenon DEF submit_rw, submit_other, Settled
<1>7. ASSUME NEW b \in Block, Writeback(b) PROVE Settled'
  BY <1>1, <1>7, Zenon DEF Writeback
<1>8. CASE Crash
  BY <1>1, <1>8, Zenon DEF Crash, Settled
<1>9. CASE bdev_ubi_delete
  BY <1>1, <1>9, Zenon DEF bdev_ubi_delete, Settled
<1>10. CASE LoadConfig
  <2>1. ~decodes(ubi_write_config_json)
    BY DEF decodes, ubi_write_config_json, Required
  <2> QED
    BY <1>1, <1>10, <2>1, Zenon DEF LoadConfig, Create, Settled
<1>11. ASSUME NEW p \in Params, rpc_bdev_ubi_create(p) PROVE Settled'
  BY <1>1, <1>11 DEF rpc_bdev_ubi_create, Create, Blank, Settled
<1>12. CASE UNCHANGED vars
  BY <1>1, <1>12, Zenon DEF vars, Settled
<1> QED
  BY <1>3, <1>4, <1>5, <1>6, <1>7, <1>8, <1>9, <1>10, <1>11, <1>12, Zenon DEF Next

\* IoInv always holds.
LEMMA IoInvHolds == Spec => []IoInv
<1>1. IoInv /\ [Next]_vars => IoInv'
  BY TypeStep, AnswerStep, SettledStep, Zenon DEF IoInv
<1> QED
  BY <1>1, IoInit, PTL DEF Spec

\* Every request is answered once, by ubi_submit_request or by
\* ubi_blob_io_complete, however requests, failures and crashes interleave.
THEOREM IoAnsweredOnce == Spec => []AnsweredOnce
BY IoInvHolds, PTL DEF IoInv

\* Over a base bdev without a volatile cache the device has none either, as its
\* write_cache = 0 says: no crash undoes an answered write, and neither does a
\* restart from what ubi_write_config_json wrote.
THEOREM IoWriteThrough == Spec => []WriteThrough
<1>1. IoInv => WriteThrough
  BY Zenon DEF IoInv, Settled, WriteThrough
<1> QED
  BY <1>1, IoInvHolds, PTL
=============================================================================

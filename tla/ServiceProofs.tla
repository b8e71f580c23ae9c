---------------------------- MODULE ServiceProofs ---------------------------
(***************************************************************************)
(* Proofs about UbiBdev, for any number of ubi bdevs, names, base bdevs    *)
(* and channels, whichever of the calls may fail; and about UbiService:    *)
(* all that holds of it, and its snapshot requests behave as UbiSnapshot   *)
(* says.                                                                   *)
(***************************************************************************)
EXTENDS UbiService, TLAPS

USE BdevAssumption, ServiceAssumption

-----------------------------------------------------------------------------
(* The life of a ubi bdev *)

\* One ubi_bdev's resources, given where it is in its life.  Every step changes
\* one ubi_bdev only, so this is proved for that one.
Creating(i) == pc[i] \in {"bs_init", "create_blob", "snapshot", "open_blob"}
OnHead(i)   == pc[i] \in {"registered", "unregistering", "unlisted"}

Life(i) ==
  /\ i \in head <=> OnHead(i)
  /\ i \in blob <=> OnHead(i)
  /\ Creating(i) \/ OnHead(i) => mem[i] = "live" /\ iodev[i] = "registered" /\ i \in opened
  /\ OnHead(i) \/ (Creating(i) /\ pc[i] # "bs_init") => bs[i] = "open"
  /\ pc[i] \in {"idle", "bs_init"} => bs[i] = "none"
  /\ pc[i] \in {"idle", "failed"} => iodev[i] \in {"none", "gone"}
  /\ mem[i] = "freed" => pc[i] = "destructed"
  /\ pc[i] \notin {"registered", "unregistering"} => users[i] = 0
  /\ ~OnHead(i) /\ pc[i] # "destructed" => closing[i] = 0
  /\ pc[i] = "destructed" =>
       /\ bs[i] \in {"unloading", "closed", "stuck"}
       /\ iodev[i] \in {"unregistering", "gone"}
       /\ iodev[i] = "unregistering" => mem[i] = "live"
       /\ closing[i] > 0 => iodev[i] = "unregistering" /\ i \in opened

Answered(i) ==
  /\ answer[i].calls = IF pc[i] = "idle" \/ Creating(i) THEN 0 ELSE 1
  /\ answer[i].ok => pc[i] # "failed"

NamesDistinct ==
  \A i, j \in Inst : (Listed(i) /\ Listed(j) /\ name[i] = name[j]) => i = j

LifeInv == TypeOK /\ NamesDistinct /\ \A i \in Inst : Life(i) /\ Answered(i)

\* The state of one ubi_bdev is what a step of another leaves alone.
Same(j) ==
  /\ pc'[j] = pc[j] /\ mem'[j] = mem[j] /\ iodev'[j] = iodev[j] /\ bs'[j] = bs[j]
  /\ users'[j] = users[j] /\ closing'[j] = closing[j] /\ answer'[j] = answer[j]
  /\ (j \in head') = (j \in head) /\ (j \in blob') = (j \in blob)
  /\ (j \in opened') = (j \in opened)

\* A step that leaves a ubi_bdev alone keeps what is known of it.
LEMMA SameKeeps ==
  ASSUME NEW j \in Inst, Same(j), Life(j), Answered(j)
  PROVE  Life(j)' /\ Answered(j)'
BY Zenon DEF Same, Life, Answered, Creating, OnHead

\* The failure branch of ubi_finish_create, from any point of the creation.
LEMMA FailKeeps ==
  ASSUME TypeOK, NEW i \in Inst, Life(i), Answered(i), pc[i] = "idle" \/ Creating(i),
         finish_create_fail(i), mem'[i] # "freed"
  PROVE  Life(i)' /\ Answered(i)'
<1>1. /\ pc'[i] = "failed" /\ head' = head /\ blob' = blob \ {i}
      /\ iodev'[i] = (IF iodev[i] = "registered" THEN "gone" ELSE iodev[i])
      /\ users'[i] = users[i] /\ closing'[i] = closing[i]
  BY Zenon DEF finish_create_fail, TypeOK
<1>2. answer'[i] = [calls |-> answer[i].calls + 1, ok |-> FALSE]
  BY Zenon DEF finish_create_fail, done_fn, TypeOK
<1>3. Life(i)'
  BY <1>1, Zenon DEF Life, Creating, OnHead, TypeOK
<1>4. Answered(i)'
  BY <1>1, <1>2 DEF Answered, Creating
<1> QED BY <1>3, <1>4, Zenon

\* The type invariant is inductive.
LEMMA TypeStep == TypeOK /\ [Next]_vars => TypeOK'
<1> SUFFICES ASSUME TypeOK, [Next]_vars PROVE TypeOK'
  BY Zenon
<1> USE DEF TypeOK, PC, options
<1>0. ASSUME NEW i \in Inst, NEW ok \in BOOLEAN, done_fn(i, ok)
      PROVE  answer' \in [Inst -> [calls : Nat, ok : BOOLEAN]]
  BY <1>0 DEF done_fn
<1>1. ASSUME NEW i \in Inst, finish_create_fail(i), mem' \in [Inst -> {"none", "live", "freed"}],
             opened' \subseteq Inst
      PROVE  TypeOK'
  <2>1. answer' \in [Inst -> [calls : Nat, ok : BOOLEAN]]
    BY <1>0, <1>1, Zenon DEF finish_create_fail
  <2> QED BY <1>1, <2>1, Zenon DEF finish_create_fail
<1>2. ASSUME NEW i \in Inst, Progress(i) PROVE TypeOK'
  <2>1. CASE ubi_bs_init_complete(i)
    BY <2>1, Zenon DEF ubi_bs_init_complete
  <2>2. CASE ubi_bs_init_error(i)
    BY <1>1, <2>2, Zenon DEF ubi_bs_init_error
  <2>3. CASE ubi_blob_create_complete(i)
    BY <1>1, <2>3, Zenon DEF ubi_blob_create_complete
  <2>4. CASE ubi_blob_snapshot_complete(i)
    BY <1>1, <2>4, Zenon DEF ubi_blob_snapshot_complete
  <2>5. CASE ubi_blob_open_complete(i)
    <3>1. answer' \in [Inst -> [calls : Nat, ok : BOOLEAN]]
      BY <1>0, <2>5, Zenon DEF ubi_blob_open_complete
    <3> QED BY <2>5, <3>1, Zenon DEF ubi_blob_open_complete
  <2>6. CASE register_error(i)
    <3>1. CASE finish_create_fail(i)
      BY <1>1, <2>6, <3>1, Zenon DEF register_error
    <3>2. CASE ~finish_create_fail(i)
      BY <2>6, <3>2, Zenon DEF register_error
    <3> QED BY <3>1, <3>2, Zenon
  <2>7. CASE open_error(i)
    BY <2>7, Zenon DEF open_error
  <2>8. CASE ubi_destroy_channel_cb(i)
    BY <2>8 DEF ubi_destroy_channel_cb
  <2>9. CASE Unlist(i)
    BY <2>9, Zenon DEF Unlist
  <2>10. CASE ubi_destruct(i)
    BY <2>10, Zenon DEF ubi_destruct
  <2>11. CASE _device_unregister_cb(i)
    BY <2>11, Zenon DEF _device_unregister_cb
  <2>12. CASE ubi_destruct_bs_unload_cb(i)
    BY <2>12, Zenon DEF ubi_destruct_bs_unload_cb
  <2>13. CASE unload_error(i)
    BY <2>13, Zenon DEF unload_error
  <2>14. CASE ubi_destruct_busy(i)
    BY <2>14, Zenon DEF ubi_destruct_busy
  <2> QED BY <1>2, <2>1, <2>2, <2>3, <2>4, <2>5, <2>6, <2>7, <2>8, <2>9, <2>10, <2>11,
             <2>12, <2>13, <2>14, Zenon DEF Progress
<1>3. ASSUME NEW i \in Inst, Request(i) PROVE TypeOK'
  <2>1. CASE bdev_ubi_create(i)
    BY <2>1, Zenon DEF bdev_ubi_create
  <2>2. CASE bdev_ubi_create_fail(i)
    <3>1. mem' \in [Inst -> {"none", "live", "freed"}] /\ opened' = opened
      BY <2>2, Zenon DEF bdev_ubi_create_fail
    <3> QED BY <1>1, <2>2, <3>1, Zenon DEF bdev_ubi_create_fail
  <2>3. CASE bdev_ubi_delete(i)
    BY <2>3, Zenon DEF bdev_ubi_delete
  <2>4. CASE ubi_get_io_channel(i)
    BY <2>4 DEF ubi_get_io_channel
  <2>5. CASE PutChannel(i)
    BY <2>5 DEF PutChannel
  <2>6. CASE ubi_create_channel_error(i)
    BY <2>6, Zenon DEF ubi_create_channel_error
  <2> QED BY <1>3, <2>1, <2>2, <2>3, <2>4, <2>5, <2>6, Zenon DEF Request
<1>4. CASE UNCHANGED vars
  BY <1>4, Zenon DEF vars
<1> QED BY <1>2, <1>3, <1>4, Zenon DEF Next

\* The initial states have their type.
LEMMA TypeInit == Init => TypeOK
<1> SUFFICES ASSUME Init PROVE TypeOK
  BY Zenon
<1>1. answer \in [Inst -> [calls : Nat, ok : BOOLEAN]]
  BY Zenon DEF Init
<1>2. crashed \in BOOLEAN /\ stray \in BOOLEAN
  BY Zenon DEF Init
<1>3. pc \in [Inst -> PC]
  BY Zenon DEF Init, PC
<1>4. users \in [Inst -> Nat] /\ closing \in [Inst -> Nat]
  BY Zenon DEF Init
<1>5. /\ mem \in [Inst -> {"none", "live", "freed"}]
      /\ iodev \in [Inst -> {"none", "registered", "unregistering", "gone"}]
      /\ bs \in [Inst -> {"none", "open", "unloading", "closed", "stuck"}]
  BY Zenon DEF Init
<1> QED BY <1>1, <1>2, <1>3, <1>4, <1>5, Zenon DEF Init, TypeOK

\* The type invariant holds.
THEOREM BdevTypes == Spec => []TypeOK
<1> QED BY TypeInit, TypeStep, PTL DEF Spec

-----------------------------------------------------------------------------
\* A step of one ubi_bdev keeps what is known of it, and leaves the others alone.
LEMMA StepLife ==
  ASSUME LifeInv, NEW i \in Inst, Progress(i) \/ Request(i)
  PROVE  /\ Life(i)' /\ Answered(i)'
         /\ \A j \in Inst : j # i => Same(j)
<1> USE DEF LifeInv
<1>0. TypeOK /\ Life(i) /\ Answered(i)
  BY Zenon
<1> USE DEF TypeOK, options
<1>a. ASSUME finish_create_fail(i), opened' \in {opened, opened \ {i}},
             \A j \in Inst : j # i => mem'[j] = mem[j]
      PROVE  \A j \in Inst : j # i => Same(j)
  BY <1>a DEF finish_create_fail, done_fn, Same
<1>b. pc[i] = "idle" \/ Creating(i) => mem[i] # "freed"
  BY <1>0, Zenon DEF Life, Creating
<1>1. CASE ubi_bs_init_complete(i)
  BY <1>0, <1>1 DEF ubi_bs_init_complete, Same, Life, Answered, Creating, OnHead
<1>2. CASE ubi_bs_init_error(i)
  BY <1>0, <1>2, <1>a, <1>b, FailKeeps, Zenon DEF ubi_bs_init_error, Creating
<1>3. CASE ubi_blob_create_complete(i)
  <2>1. CASE finish_create_fail(i)
    BY <1>0, <1>3, <1>a, <1>b, <2>1, FailKeeps, Zenon DEF ubi_blob_create_complete, Creating
  <2>2. CASE ~finish_create_fail(i)
    BY <1>0, <1>3, <2>2 DEF ubi_blob_create_complete, Same, Life, Answered, Creating, OnHead
  <2> QED BY <2>1, <2>2, Zenon
<1>4. CASE ubi_blob_snapshot_complete(i)
  <2>1. CASE finish_create_fail(i)
    BY <1>0, <1>4, <1>a, <1>b, <2>1, FailKeeps, Zenon DEF ubi_blob_snapshot_complete, Creating
  <2>2. CASE ~finish_create_fail(i)
    BY <1>0, <1>4, <2>2 DEF ubi_blob_snapshot_complete, Same, Life, Answered, Creating, OnHead
  <2> QED BY <2>1, <2>2, Zenon
<1>5. CASE ubi_blob_open_complete(i)
  <2>1. answer'[i] = [calls |-> answer[i].calls + 1, ok |-> TRUE]
    BY <1>5, Zenon DEF ubi_blob_open_complete, done_fn
  <2>2. Answered(i)'
    BY <1>0, <1>5, <2>1 DEF ubi_blob_open_complete, Answered, Creating
  <2>3. Life(i)'
    BY <1>0, <1>5, Zenon DEF ubi_blob_open_complete, Life, Creating, OnHead
  <2>4. \A j \in Inst : j # i => Same(j)
    BY <1>5 DEF ubi_blob_open_complete, done_fn, Same
  <2> QED BY <2>2, <2>3, <2>4, Zenon
<1>6. CASE register_error(i)
  <2>1. CASE finish_create_fail(i)
    BY <1>0, <1>6, <1>a, <1>b, <2>1, FailKeeps, Zenon DEF register_error, Creating
  <2>2. CASE ~finish_create_fail(i)
    BY <1>0, <1>6, <2>2, Zenon DEF register_error, Same, Life, Answered, Creating, OnHead
  <2> QED BY <2>1, <2>2, Zenon
<1>7. CASE open_error(i)
  BY <1>0, <1>7, Zenon DEF open_error, Same, Life, Answered, Creating, OnHead
<1>8. CASE ubi_destroy_channel_cb(i)
  BY <1>0, <1>8 DEF ubi_destroy_channel_cb, Same, Life, Answered, Creating, OnHead
<1>9. CASE Unlist(i)
  BY <1>0, <1>9 DEF Unlist, Same, Life, Answered, Creating, OnHead
<1>10. CASE ubi_destruct(i)
  BY <1>0, <1>10 DEF ubi_destruct, Same, Life, Answered, Creating, OnHead
<1>11. CASE _device_unregister_cb(i)
  BY <1>0, <1>11 DEF _device_unregister_cb, Same, Life, Answered, Creating, OnHead, PC
<1>12. CASE ubi_destruct_bs_unload_cb(i)
  BY <1>0, <1>12 DEF ubi_destruct_bs_unload_cb, Same, Life, Answered, Creating, OnHead
<1>13. CASE unload_error(i)
  BY <1>0, <1>13, Zenon DEF unload_error, Same, Life, Answered, Creating, OnHead
<1>14. CASE bdev_ubi_create(i)
  BY <1>0, <1>14 DEF bdev_ubi_create, Same, Life, Answered, Creating, OnHead
<1>15. CASE bdev_ubi_create_fail(i)
  <2>1. \A j \in Inst : j # i => mem'[j] = mem[j]
    BY <1>15, Zenon DEF bdev_ubi_create_fail
  <2>2. mem'[i] # "freed"
    BY <1>b, <1>15, Zenon DEF bdev_ubi_create_fail
  <2> QED BY <1>0, <1>15, <1>a, <2>1, <2>2, FailKeeps, Zenon DEF bdev_ubi_create_fail
<1>16. CASE bdev_ubi_delete(i)
  BY <1>0, <1>16 DEF bdev_ubi_delete, Same, Life, Answered, Creating, OnHead
<1>17. CASE ubi_get_io_channel(i)
  BY <1>0, <1>17, Zenon DEF ubi_get_io_channel, Same, Life, Answered, Creating, OnHead
<1>18. CASE PutChannel(i)
  BY <1>0, <1>18 DEF PutChannel, Same, Life, Answered, Creating, OnHead
<1>19. CASE ubi_destruct_busy(i)
  BY <1>0, <1>19 DEF ubi_destruct_busy, Same, Life, Answered, Creating, OnHead
<1>20. CASE ubi_create_channel_error(i)
  BY <1>0, <1>20, Zenon DEF ubi_create_channel_error, Same, Life, Answered, Creating, OnHead
<1> QED BY <1>1, <1>2, <1>3, <1>4, <1>5, <1>6, <1>7, <1>8, <1>9, <1>10, <1>11, <1>12, <1>13,
           <1>14, <1>15, <1>16, <1>17, <1>18, <1>19, <1>20, Zenon DEF Progress, Request

\* Only ubi_finish_create lists a bdev, and it lists none under a taken name.
LEMMA StepNames ==
  ASSUME LifeInv, NEW i \in Inst, Progress(i) \/ Request(i)
  PROVE  NamesDistinct'
<1>1. name' = name
  BY Zenon DEF Progress, Request, ubi_bs_init_complete, ubi_bs_init_error, ubi_blob_create_complete,
         ubi_blob_snapshot_complete, ubi_blob_open_complete, register_error, open_error,
         ubi_destroy_channel_cb, Unlist, ubi_destruct, ubi_destruct_busy, _device_unregister_cb,
         ubi_destruct_bs_unload_cb, unload_error, bdev_ubi_create, bdev_ubi_create_fail,
         bdev_ubi_delete, ubi_get_io_channel, ubi_create_channel_error, PutChannel,
         finish_create_fail, options
<1>2. \A j \in Inst : j # i => Listed(j)' = Listed(j)
  BY StepLife, Zenon DEF Same, Listed
<1>3. Listed(i)' => Listed(i) \/ ~Taken(name[i])
  <2> USE DEF LifeInv, TypeOK, Listed
  <2>1. CASE ubi_blob_open_complete(i)
    BY <2>1, Zenon DEF ubi_blob_open_complete
  <2>2. CASE ~ubi_blob_open_complete(i)
    BY <2>2, ZenonT(30) DEF Progress, Request, ubi_bs_init_complete, ubi_bs_init_error,
         ubi_blob_create_complete, ubi_blob_snapshot_complete, register_error, open_error,
         ubi_destroy_channel_cb, Unlist, ubi_destruct, ubi_destruct_busy, _device_unregister_cb,
         ubi_destruct_bs_unload_cb, unload_error, bdev_ubi_create, bdev_ubi_create_fail,
         bdev_ubi_delete, ubi_get_io_channel, ubi_create_channel_error, PutChannel,
         finish_create_fail
  <2> QED BY <2>1, <2>2, Zenon
<1> QED BY <1>1, <1>2, <1>3, Zenon DEF NamesDistinct, LifeInv, Taken

\* LifeInv is inductive.
LEMMA LifeInvStep == LifeInv /\ [Next]_vars => LifeInv'
<1> SUFFICES ASSUME LifeInv, [Next]_vars PROVE LifeInv'
  BY Zenon
<1>1. TypeOK'
  BY TypeStep, Zenon DEF LifeInv
<1>2. ASSUME NEW i \in Inst, Progress(i) \/ Request(i) PROVE LifeInv'
  <2>1. Life(i)' /\ Answered(i)' /\ \A j \in Inst : j # i => Same(j)
    BY <1>2, StepLife, Zenon
  <2>2. \A j \in Inst : j # i => Life(j)' /\ Answered(j)'
    BY <2>1, SameKeeps, Zenon DEF LifeInv
  <2>3. NamesDistinct'
    BY <1>2, StepNames, Zenon
  <2> QED BY <1>1, <2>1, <2>2, <2>3, Zenon DEF LifeInv
<1>3. CASE UNCHANGED vars
  BY <1>1, <1>3 DEF vars, LifeInv, Life, Answered, Creating, OnHead, NamesDistinct, Listed
<1> QED BY <1>2, <1>3, Zenon DEF Next

\* LifeInv holds of every reachable state.
LEMMA LifeInvHolds == Spec => []LifeInv
<1>1. Init => LifeInv
  <2> SUFFICES ASSUME Init PROVE LifeInv
    BY Zenon
  <2>1. TypeOK
    BY TypeInit, Zenon
  <2>2. NamesDistinct
    BY Zenon DEF Init, NamesDistinct, Listed
  <2>3. ASSUME NEW i \in Inst PROVE Life(i) /\ Answered(i)
    BY Zenon DEF Init, Life, Answered, Creating, OnHead
  <2> QED BY <2>1, <2>2, <2>3, Zenon DEF LifeInv
<1> QED BY <1>1, LifeInvStep, PTL DEF Spec

\* LifeInv has the three properties of the life of ubi bdevs.
LEMMA LifeSafe == LifeInv => AnswerOnce /\ HeadWhole /\ ChannelsSafe
<1> SUFFICES ASSUME LifeInv PROVE AnswerOnce /\ HeadWhole /\ ChannelsSafe
  BY Zenon
<1>1. AnswerOnce
  BY Zenon DEF LifeInv, AnswerOnce, Answered, Creating
<1>2. HeadWhole
  BY Zenon DEF LifeInv, HeadWhole, Life, OnHead, NamesDistinct, TypeOK
<1>3. ASSUME NEW i \in Inst, users[i] + closing[i] > 0
      PROVE  mem[i] = "live" /\ iodev[i] \in {"registered", "unregistering"} /\ i \in opened
  <2>1. users[i] \in Nat /\ closing[i] \in Nat /\ pc[i] \in PC /\ Life(i)
    BY Zenon DEF LifeInv, TypeOK
  <2> QED BY <1>3, <2>1 DEF Life, Creating, OnHead, PC
<1> QED BY <1>1, <1>2, <1>3, Zenon DEF ChannelsSafe

\* A listed ubi_bdev is whole and has its name to itself, whatever fails and in
\* whatever order the callbacks of other creations and deletions come.
THEOREM BdevHeadWhole == Spec => []HeadWhole
BY LifeInvHolds, LifeSafe, PTL

\* No channel outlives its ubi_bdev.
THEOREM BdevChannelsSafe == Spec => []ChannelsSafe
BY LifeInvHolds, LifeSafe, PTL

\* done_fn is called exactly once per creation that ended, with the right status.
THEOREM BdevAnswerOnce == Spec => []AnswerOnce
BY LifeInvHolds, LifeSafe, PTL

-----------------------------------------------------------------------------
(* The service *)

\* Every step of the service is one of UbiBdev or leaves its state alone.
LEMMA BdevSteps == [ServiceNext]_ServiceVars => [Next]_vars
BY Zenon DEF ServiceNext, ServiceVars, BdevProgress, BdevRequest, SnapRequest, SnapProgress, Next

\* The invariant of UbiBdev holds of the service.
LEMMA ServiceLife == ServiceSpec => []LifeInv
<1>1. ServiceInit => Init
  BY Zenon DEF ServiceInit
<1>2. ServiceSpec => Spec
  BY <1>1, BdevSteps, PTL DEF ServiceSpec, Spec
<1> QED BY <1>2, LifeInvHolds, PTL

\* While snapshots are taken of a ubi bdev too, and their requests keep its blobstore
\* from being unloaded or lose it: every creation is answered once, the listed bdevs
\* are whole, and no channel outlives its ubi_bdev.
THEOREM ServiceSafe == ServiceSpec => [](AnswerOnce /\ HeadWhole /\ ChannelsSafe)
BY ServiceLife, LifeSafe, PTL

-----------------------------------------------------------------------------
\* How a step moves the ubi_bdev and its blobstore through their lives.
LEMMA LifeMoves ==
  ASSUME TypeOK, NEW i \in Inst, Progress(i) \/ Request(i)
  PROVE  \/ /\ pc'[i] = pc[i] /\ (mem'[i] = mem[i] \/ iodev[i] = "unregistering")
            /\ \/ bs'[i] = bs[i]
               \/ bs[i] = "unloading" /\ bs'[i] \in {"closed", "stuck"} /\ mem'[i] = mem[i]
         \/ /\ pc[i] = "idle" \/ Creating(i)
            /\ pc'[i] \in {"bs_init", "create_blob", "snapshot", "open_blob", "failed", "registered"}
         \/ /\ mem'[i] = mem[i]
            /\ <<pc[i], pc'[i]>> \in {<<"registered", "unregistering">>,
                                     <<"unregistering", "unlisted">>,
                                     <<"unlisted", "destructed">>}
<1> USE DEF TypeOK, Creating
<1>1. CASE Request(i)
  BY <1>1, Zenon DEF Request, bdev_ubi_create, bdev_ubi_create_fail, finish_create_fail,
       bdev_ubi_delete, ubi_get_io_channel, ubi_create_channel_error, PutChannel
<1>2. CASE \/ ubi_bs_init_complete(i) \/ ubi_bs_init_error(i)
           \/ ubi_blob_create_complete(i) \/ ubi_blob_snapshot_complete(i)
           \/ ubi_blob_open_complete(i) \/ register_error(i)
  BY <1>2, Zenon DEF ubi_bs_init_complete, ubi_bs_init_error, ubi_blob_create_complete,
       ubi_blob_snapshot_complete, ubi_blob_open_complete, register_error, finish_create_fail
<1>3. CASE \/ open_error(i) \/ ubi_destroy_channel_cb(i) \/ _device_unregister_cb(i)
           \/ ubi_destruct_bs_unload_cb(i) \/ unload_error(i)
  BY <1>3, Zenon DEF open_error, ubi_destroy_channel_cb, _device_unregister_cb,
       ubi_destruct_bs_unload_cb, unload_error
<1>4. CASE Unlist(i) \/ ubi_destruct(i) \/ ubi_destruct_busy(i)
  BY <1>4, Zenon DEF Unlist, ubi_destruct, ubi_destruct_busy
<1> QED BY <1>1, <1>2, <1>3, <1>4, Zenon DEF Progress

\* What a step of UbiBdev does to the ubi_bdev is one of the things that
\* UbiSnapshot expects of creation and deletion.
LEMMA DevSteps ==
  ASSUME LifeInv, NEW i \in Inst, (Progress(i) /\ Unloads(i)) \/ Request(i)
  PROVE  \/ DevState' = DevState
         \/ DevState = "absent" /\ DevState' = "listed"
         \/ DevState = "listed" /\ DevState' = "unlisted"
         \/ DevState = "unlisted" /\ DevState' = "unloading" /\ clone = {}
         \/ DevState = "unloading" /\ DevState' = "unlisted"
         \/ DevState \in {"unlisted", "unloading"} /\ DevState' = "freed"
<1>1. CASE i # Dev
  BY <1>1, StepLife, Zenon DEF Same, DevState, Listed
<1>2. CASE i = Dev
  <2>1. TypeOK /\ Life(i) /\ Life(i)'
    BY StepLife, Zenon DEF LifeInv
  <2>2. pc[i] \in PC /\ (mem[i] = "freed" => pc[i] = "destructed")
        /\ (mem'[i] = "freed" => pc'[i] = "destructed")
        /\ (iodev[i] = "unregistering" => pc[i] = "destructed" /\ mem[i] = "live")
    BY <2>1, Zenon DEF TypeOK, Life, Creating, OnHead, PC
  <2>3. /\ pc[i] = "destructed" => bs[i] \in {"unloading", "closed", "stuck"}
        /\ pc'[i] = "destructed" => bs'[i] \in {"unloading", "closed", "stuck"}
    BY <2>1, Zenon DEF Life
  <2>4. CASE pc[i] = "unlisted" /\ pc'[i] = "destructed"
    <3>1. Progress(i) /\ Unloads(i) /\ (ubi_destruct(i) \/ ubi_destruct_busy(i))
      BY <2>1, <2>4, LifeMoves, Zenon DEF Request, bdev_ubi_create, bdev_ubi_create_fail,
           bdev_ubi_delete, ubi_get_io_channel, ubi_create_channel_error, PutChannel, Progress,
           ubi_bs_init_complete, ubi_bs_init_error, ubi_blob_create_complete,
           ubi_blob_snapshot_complete, ubi_blob_open_complete, register_error, open_error,
           ubi_destroy_channel_cb, Unlist, _device_unregister_cb, ubi_destruct_bs_unload_cb,
           unload_error, TypeOK
    <3>2. mem'[i] = mem[i] /\ mem[i] # "freed" /\ bs'[i] \in {"unloading", "stuck"}
      BY <2>1, <2>2, <2>4, <3>1, Zenon DEF ubi_destruct, ubi_destruct_busy, TypeOK
    <3>3. bs'[i] = "unloading" => clone = {}
      BY <1>2, <2>4, <3>1, Zenon DEF Unloads
    <3>4. DevState = "unlisted"
      <4>1. bs[i] = "open"
        BY <2>1, <2>4, Zenon DEF Life, OnHead
      <4> QED BY <1>2, <2>4, <3>2, <4>1, Zenon DEF DevState, Listed
    <3>5. CASE bs'[i] = "unloading"
      <4>1. DevState' = "unloading"
        BY <1>2, <2>4, <3>2, <3>5, Zenon DEF DevState, Listed
      <4> QED BY <3>3, <3>4, <3>5, <4>1, Zenon
    <3>6. CASE bs'[i] = "stuck"
      <4>1. DevState' = "unlisted"
        BY <1>2, <2>4, <3>2, <3>6, Zenon DEF DevState, Listed
      <4> QED BY <3>4, <4>1, Zenon
    <3> QED BY <3>2, <3>5, <3>6, Zenon
  <2>5. CASE pc'[i] = pc[i]
    <3>1. CASE pc[i] # "destructed"
      <4>1. bs'[i] = bs[i] \/ bs[i] = "unloading" \/ Creating(i) \/ pc[i] = "idle"
        BY <2>1, <2>5, LifeMoves, Zenon
      <4>2. pc[i] = "unlisted" => bs[i] = "open"
        BY <2>1, Zenon DEF Life, OnHead
      <4> QED BY <1>2, <2>2, <2>5, <3>1, <4>1, <4>2, Zenon DEF DevState, Listed, Creating
    <3>2. CASE pc[i] = "destructed"
      <4>1. /\ mem'[i] = mem[i] \/ mem[i] = "live"
            /\ \/ bs'[i] = bs[i]
               \/ bs[i] = "unloading" /\ bs'[i] \in {"closed", "stuck"} /\ mem'[i] = mem[i]
        BY <2>1, <2>2, <2>5, <3>2, LifeMoves, Zenon DEF Creating
      <4>2. /\ DevState = (IF mem[i] = "freed" \/ bs[i] = "closed" THEN "freed"
                           ELSE IF bs[i] = "unloading" THEN "unloading" ELSE "unlisted")
            /\ DevState' = (IF mem'[i] = "freed" \/ bs'[i] = "closed" THEN "freed"
                            ELSE IF bs'[i] = "unloading" THEN "unloading" ELSE "unlisted")
        BY <1>2, <2>5, <3>2, Zenon DEF DevState, Listed
      <4> QED BY <2>3, <2>5, <3>2, <4>1, <4>2, Zenon
    <3> QED BY <3>1, <3>2, Zenon
  <2>6. CASE pc'[i] # pc[i] /\ ~(pc[i] = "unlisted" /\ pc'[i] = "destructed")
    <3>1. CASE pc[i] = "idle" \/ Creating(i)
      <4>1. pc'[i] \in {"bs_init", "create_blob", "snapshot", "open_blob", "failed", "registered"}
        BY <2>1, <2>6, <3>1, LifeMoves, Zenon DEF Creating
      <4> QED BY <1>2, <3>1, <4>1, Zenon DEF DevState, Listed, Creating
    <3>2. CASE pc[i] = "registered" /\ pc'[i] = "unregistering"
      BY <1>2, <3>2, Zenon DEF DevState, Listed
    <3>3. CASE pc[i] = "unregistering" /\ pc'[i] = "unlisted"
      <4>1. bs'[i] = "open" /\ mem'[i] = "live"
        BY <2>1, <3>3, Zenon DEF Life, OnHead
      <4> QED BY <1>2, <3>3, <4>1, Zenon DEF DevState, Listed
    <3> QED BY <2>1, <2>6, <3>1, <3>2, <3>3, LifeMoves, Zenon
  <2> QED BY <2>4, <2>5, <2>6, Zenon
<1> QED BY <1>1, <1>2, Zenon

\* Every step of the service is one of UbiSnapshot or leaves its state alone.
LEMMA SnapSteps == LifeInv /\ [ServiceNext]_ServiceVars => [Snap!Next]_(Snap!vars)
<1> SUFFICES ASSUME LifeInv, [ServiceNext]_ServiceVars PROVE [Snap!Next]_(Snap!vars)
  BY Zenon
<1>1. ASSUME NEW i \in Inst, BdevProgress(i) \/ BdevRequest(i)
      PROVE  [Snap!Next]_(Snap!vars)
  <2>1. ~aborted /\ UNCHANGED snapVars /\ ((Progress(i) /\ Unloads(i)) \/ Request(i))
    BY <1>1, Zenon DEF BdevProgress, BdevRequest
  <2>2. CASE DevState' = DevState
    BY <2>1, <2>2, Zenon DEF snapVars, Snap!vars, Snap!status
  <2>3. CASE DevState = "absent" /\ DevState' = "listed"
    BY <2>1, <2>3, Zenon DEF snapVars, Snap!Next, Snap!ubi_finish_create, Snap!status
  <2>4. CASE DevState = "listed" /\ DevState' = "unlisted"
    BY <2>1, <2>4, Zenon DEF snapVars, Snap!Next, Snap!bdev_ubi_delete, Snap!status
  <2>5. CASE DevState = "unlisted" /\ DevState' = "unloading" /\ clone = {}
    BY <2>1, <2>5, Zenon DEF snapVars, Snap!Next, Snap!ubi_destruct, Snap!status
  <2>6. CASE DevState = "unloading" /\ DevState' = "unlisted"
    BY <2>1, <2>6, Zenon DEF snapVars, Snap!Next, Snap!ubi_destruct_bs_unload_cb, Snap!status
  <2>7. CASE DevState \in {"unlisted", "unloading"} /\ DevState' = "freed"
    BY <2>1, <2>7, Zenon DEF snapVars, Snap!Next, Snap!_device_unregister_cb, Snap!status
  <2> QED BY <2>1, <2>2, <2>3, <2>4, <2>5, <2>6, <2>7, DevSteps, Zenon
<1>2. ASSUME NEW r \in SnapReq, SnapRequest(r) \/ SnapProgress(r)
      PROVE  [Snap!Next]_(Snap!vars)
  BY <1>2, Zenon DEF SnapRequest, SnapProgress, Snap!Next
<1>3. CASE UNCHANGED ServiceVars
  BY <1>3, Zenon DEF ServiceVars, vars, snapVars, Snap!vars, Snap!status, DevState, Listed
<1> QED BY <1>1, <1>2, <1>3, Zenon DEF ServiceNext

\* The service implements UbiSnapshot: seen from a snapshot request, creations,
\* deletions and the unloading of the blobstore do to its ubi_bdev what UbiSnapshot
\* says, so that whatever is proved there holds of the requests of the service.
THEOREM ServiceImplementsSnapshot == ServiceSpec => ImplementsSnapshot
<1>1. ServiceInit => Snap!Init
  BY Zenon DEF ServiceInit
<1> QED BY <1>1, SnapSteps, ServiceLife, PTL DEF ServiceSpec, ImplementsSnapshot, Snap!Spec
=============================================================================

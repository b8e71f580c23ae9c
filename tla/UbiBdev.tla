------------------------------- MODULE UbiBdev ------------------------------
(***************************************************************************)
(* The life of ubi bdevs (bdev_ubi.c, bdev_ubi_io_channel.c): creation as  *)
(* a chain of blobstore callbacks, registration, I/O channels, deletion.   *)
(* Everything but the channels runs on the SPDK application thread, so a   *)
(* callback is one step; between two steps anything else may run, and each *)
(* asynchronous call may fail if Faults has it.                            *)
(***************************************************************************)
EXTENDS Integers, FiniteSets

CONSTANTS
  Inst,         \* calls of bdev_ubi_create, and the ubi_bdevs they make
  Name,         \* bdev names
  BaseBdev,     \* names of base bdevs
  Faults,       \* which calls may fail, a subset of FaultKind
  MaxChannels   \* bound: channels of a ubi_bdev that exist at a time

FaultKind == {"nomem", "base", "bs", "blob", "snapshot", "open", "register", "unload",
              "busy", "channel"}

ASSUME BdevAssumption ==
  /\ Faults \subseteq FaultKind
  /\ MaxChannels \in Nat

VARIABLES
  pc,       \* where the ubi_bdev is in its life
  name, base, format, \* its options
  mem,      \* the struct ubi_bdev
  iodev,    \* the io_device registered under its address
  blob,     \* the ubi_bdevs that hold an open blob
  bs,       \* the blobstore
  opened,   \* the ubi_bdevs whose bs_dev has the base bdev open
  head,     \* g_ubi_bdev_head
  users,    \* channels in use
  closing,  \* channels put whose destroy callback has not run yet
  answer,   \* calls of done_fn: how often, and the last status
  touched,  \* ubi_bdevs that were used after they were freed
  stray,    \* there is a poller whose channel is not there
  crashed   \* the process died of a null pointer or a failed assertion

vars == <<pc, name, base, format, mem, iodev, blob, bs, opened, head, users,
          closing, answer, touched, stray, crashed>>
options == <<name, base, format>>

PC == {"idle", "bs_init", "create_blob", "snapshot", "open_blob", "registered",
       "unregistering", "unlisted", "destructed", "failed"}

Init ==
  /\ pc = [i \in Inst |-> "idle"]
  /\ name \in [Inst -> Name] /\ base \in [Inst -> BaseBdev] /\ format \in [Inst -> BOOLEAN]
  /\ mem = [i \in Inst |-> "none"]
  /\ iodev = [i \in Inst |-> "none"]
  /\ blob = {}
  /\ bs = [i \in Inst |-> "none"]
  /\ opened = {}
  /\ head = {}
  /\ users = [i \in Inst |-> 0] /\ closing = [i \in Inst |-> 0]
  /\ answer = [i \in Inst |-> [calls |-> 0, ok |-> FALSE]]
  /\ touched = {} /\ stray = FALSE
  /\ crashed = FALSE

-----------------------------------------------------------------------------
done_fn(i, ok) == answer' = [answer EXCEPT ![i] = [calls |-> @.calls + 1, ok |-> ok]]

\* The bdev layer has a bdev of that name (external).
Listed(i) == pc[i] \in {"registered", "unregistering"}
Taken(n) == \E j \in Inst : Listed(j) /\ name[j] = n

finish_create_fail_Leak(i) ==
  /\ pc' = [pc EXCEPT ![i] = "failed"]
  /\ iodev' = [iodev EXCEPT ![i] = IF @ = "registered" THEN "gone" ELSE @]
  /\ blob' = blob \ {i}
  /\ UNCHANGED bs
  /\ done_fn(i, FALSE)
  /\ UNCHANGED <<options, head, users, closing, touched, stray, crashed>>

\* ubi_finish_create with an error: unregister the io_device, close the blob if
\* there is one, start to unload the blobstore if there is one, and answer.  The
\* ubi_bdev itself is not freed.
finish_create_fail(i) ==
  /\ pc' = [pc EXCEPT ![i] = "failed"]
  /\ iodev' = [iodev EXCEPT ![i] = IF @ = "registered" THEN "gone" ELSE @]
  /\ blob' = blob \ {i}
  /\ bs' = [bs EXCEPT ![i] = IF @ = "open" THEN "unloading" ELSE @]
  /\ done_fn(i, FALSE)
  /\ UNCHANGED <<options, head, users, closing, touched, stray, crashed>>

\* bdev_ubi_create, when an allocation fails or the base bdev cannot be opened.
bdev_ubi_create_fail(i) ==
  /\ ~crashed /\ pc[i] = "idle"
  /\ \/ "nomem" \in Faults /\ mem' \in {mem, [mem EXCEPT ![i] = "live"]}
     \/ "base" \in Faults /\ mem' = [mem EXCEPT ![i] = "live"]
  /\ finish_create_fail(i)
  /\ UNCHANGED opened

\* bdev_ubi_create up to spdk_bs_init or spdk_bs_load.  Opening the base bdev
\* does not claim it.
bdev_ubi_create(i) ==
  /\ ~crashed /\ pc[i] = "idle"
  /\ mem' = [mem EXCEPT ![i] = "live"]
  /\ opened' = opened \cup {i}
  /\ iodev' = [iodev EXCEPT ![i] = "registered"]
  /\ pc' = [pc EXCEPT ![i] = "bs_init"]
  /\ UNCHANGED <<options, blob, bs, head, users, closing, answer, touched, stray, crashed>>

\* ubi_bs_init_complete.  On an error the blobstore has closed the base bdev.
ubi_bs_init_complete(i) ==
  /\ ~crashed /\ pc[i] = "bs_init"
  /\ bs' = [bs EXCEPT ![i] = "open"]
  /\ pc' = [pc EXCEPT ![i] = IF format[i] THEN "create_blob" ELSE "open_blob"]
  /\ UNCHANGED <<options, mem, iodev, blob, opened, head, users, closing,
                 answer, touched, stray, crashed>>

ubi_bs_init_error_NoReturn(i) ==
  /\ ~crashed /\ pc[i] = "bs_init" /\ "bs" \in Faults
  /\ done_fn(i, FALSE)
  /\ pc' = [pc EXCEPT ![i] = "create_blob"]
  /\ UNCHANGED <<options, mem, iodev, blob, bs, opened, head, users, closing,
                 touched, stray, crashed>>

ubi_bs_init_error(i) ==
  /\ ~crashed /\ pc[i] = "bs_init" /\ "bs" \in Faults
  /\ opened' = opened \ {i}
  /\ finish_create_fail(i)
  /\ UNCHANGED mem

ubi_blob_create_complete_Forgets(i) ==
  /\ ~crashed /\ pc[i] = "create_blob"
  /\ \/ pc' = [pc EXCEPT ![i] = "snapshot"]
     \/ "blob" \in Faults /\ pc' = [pc EXCEPT ![i] = "idle"]
  /\ UNCHANGED <<options, mem, iodev, blob, bs, opened, head, users, closing,
                 answer, touched, stray, crashed>>

\* ubi_blob_create_complete and ubi_blob_snapshot_complete.
ubi_blob_create_complete(i) ==
  /\ ~crashed /\ pc[i] = "create_blob"
  /\ \/ /\ pc' = [pc EXCEPT ![i] = "snapshot"]
        /\ UNCHANGED <<options, iodev, blob, bs, head, users, closing,
                       answer, touched, stray, crashed>>
     \/ "blob" \in Faults /\ finish_create_fail(i)
  /\ UNCHANGED <<mem, opened>>

ubi_blob_snapshot_complete(i) ==
  /\ ~crashed /\ pc[i] = "snapshot"
  /\ \/ /\ pc' = [pc EXCEPT ![i] = "open_blob"]
        /\ UNCHANGED <<options, iodev, blob, bs, head, users, closing,
                       answer, touched, stray, crashed>>
     \/ "snapshot" \in Faults /\ finish_create_fail(i)
  /\ UNCHANGED <<mem, opened>>

\* ubi_blob_open_complete, after spdk_bs_open_blob or spdk_bs_iter_first, and the
\* registration in ubi_finish_create.
ubi_blob_open_complete(i) ==
  /\ ~crashed /\ pc[i] = "open_blob" /\ ~Taken(name[i])
  /\ blob' = blob \cup {i}
  /\ head' = head \cup {i}
  /\ pc' = [pc EXCEPT ![i] = "registered"]
  /\ done_fn(i, TRUE)
  /\ UNCHANGED <<options, mem, iodev, bs, opened, users, closing, touched, stray, crashed>>

\* The same, when spdk_bdev_register refuses the name.  ubi_finish_create then calls
\* spdk_bdev_module_release_bdev for a bdev that nobody has claimed, which a build
\* with assertions does not survive (external).
register_error(i) ==
  /\ ~crashed /\ pc[i] = "open_blob"
  /\ Taken(name[i]) \/ "register" \in Faults
  /\ \/ finish_create_fail(i)
     \/ /\ crashed' = TRUE
        /\ UNCHANGED <<pc, options, iodev, blob, bs, head, users, closing, answer, touched, stray>>
  /\ UNCHANGED <<mem, opened>>

\* ubi_blob_open_complete with an error: the log line that comes before the check
\* of bserrno asks for the id of a null blob.
open_error(i) ==
  /\ ~crashed /\ pc[i] = "open_blob" /\ "open" \in Faults
  /\ crashed' = TRUE
  /\ UNCHANGED <<pc, options, mem, iodev, blob, bs, opened, head, users, closing,
                 answer, touched, stray>>

-----------------------------------------------------------------------------
\* ubi_get_io_channel and ubi_create_channel_cb, for a user of the bdev.
ubi_get_io_channel(i) ==
  /\ ~crashed /\ pc[i] = "registered"
  /\ users[i] + closing[i] < MaxChannels
  /\ users' = [users EXCEPT ![i] = @ + 1]
  /\ UNCHANGED <<pc, options, mem, iodev, blob, bs, opened, head, closing,
                 answer, touched, stray, crashed>>

\* ubi_create_channel_cb, when there is no blobstore channel: the user gets none and
\* the poller stays.  ubi_io_poll does not look at its argument.
ubi_create_channel_error(i) ==
  /\ ~crashed /\ pc[i] = "registered" /\ "channel" \in Faults
  /\ stray' = TRUE
  /\ UNCHANGED <<pc, options, mem, iodev, blob, bs, opened, head, users, closing, answer, touched,
                 crashed>>

\* The user puts the channel (external); its destroy callback is a message.
PutChannel(i) ==
  /\ ~crashed /\ users[i] > 0
  /\ users' = [users EXCEPT ![i] = @ - 1]
  /\ closing' = [closing EXCEPT ![i] = @ + 1]
  /\ UNCHANGED <<pc, options, mem, iodev, blob, bs, opened, head, answer, touched, stray, crashed>>

\* ubi_destroy_channel_cb.
ubi_destroy_channel_cb(i) ==
  /\ ~crashed /\ closing[i] > 0
  /\ closing' = [closing EXCEPT ![i] = @ - 1]
  /\ UNCHANGED <<pc, options, mem, iodev, blob, bs, opened, head, users,
                 answer, touched, stray, crashed>>

bdev_ubi_delete_Direct(i) ==
  /\ ~crashed /\ pc[i] = "registered"
  /\ head' = head \ {i}
  /\ blob' = blob \ {i}
  /\ bs' = [bs EXCEPT ![i] = "unloading"]
  /\ iodev' = [iodev EXCEPT ![i] = "unregistering"]
  /\ pc' = [pc EXCEPT ![i] = "destructed"]
  /\ UNCHANGED <<options, mem, opened, users, closing, answer, touched, stray, crashed>>

\* bdev_ubi_delete of a registered bdev; of any other it changes nothing.
bdev_ubi_delete(i) ==
  /\ ~crashed /\ pc[i] = "registered"
  /\ pc' = [pc EXCEPT ![i] = "unregistering"]
  /\ UNCHANGED <<options, mem, iodev, blob, bs, opened, head, users, closing,
                 answer, touched, stray, crashed>>

\* The bdev layer forgets the bdev once nobody has it open (external).
Unlist(i) ==
  /\ ~crashed /\ pc[i] = "unregistering" /\ users[i] = 0
  /\ pc' = [pc EXCEPT ![i] = "unlisted"]
  /\ UNCHANGED <<options, mem, iodev, blob, bs, opened, head, users, closing,
                 answer, touched, stray, crashed>>

ubi_destruct_FreesNow(i) ==
  /\ ~crashed /\ pc[i] = "unlisted"
  /\ head' = head \ {i}
  /\ blob' = blob \ {i}
  /\ bs' = [bs EXCEPT ![i] = "unloading"]
  /\ iodev' = [iodev EXCEPT ![i] = "gone"]
  /\ mem' = [mem EXCEPT ![i] = "freed"]
  /\ pc' = [pc EXCEPT ![i] = "destructed"]
  /\ UNCHANGED <<options, opened, users, closing, answer, touched, stray, crashed>>

ubi_destruct_KeepsHead(i) ==
  /\ ~crashed /\ pc[i] = "unlisted"
  /\ blob' = blob \ {i}
  /\ bs' = [bs EXCEPT ![i] = "unloading"]
  /\ iodev' = [iodev EXCEPT ![i] = "unregistering"]
  /\ pc' = [pc EXCEPT ![i] = "destructed"]
  /\ UNCHANGED <<options, mem, opened, head, users, closing, answer, touched, stray, crashed>>

ubi_destruct_KeepsIoDevice(i) ==
  /\ ~crashed /\ pc[i] = "unlisted"
  /\ head' = head \ {i}
  /\ blob' = blob \ {i}
  /\ bs' = [bs EXCEPT ![i] = "unloading"]
  /\ pc' = [pc EXCEPT ![i] = "destructed"]
  /\ UNCHANGED <<options, mem, iodev, opened, users, closing, answer, touched, stray, crashed>>

\* ubi_destruct: the blob closes at once, the blobstore begins to unload, and the
\* io_device goes when its channels have.  The delete callback is called on the
\* return of this function.
ubi_destruct(i) ==
  /\ ~crashed /\ pc[i] = "unlisted"
  /\ head' = head \ {i}
  /\ blob' = blob \ {i}
  /\ bs' = [bs EXCEPT ![i] = "unloading"]
  /\ iodev' = [iodev EXCEPT ![i] = "unregistering"]
  /\ pc' = [pc EXCEPT ![i] = "destructed"]
  /\ UNCHANGED <<options, mem, opened, users, closing, answer, touched, stray, crashed>>

\* The same, when somebody else has a blob open: closing ours ends at once,
\* spdk_bs_unload refuses with -EBUSY, and ubi_destruct_bs_unload_cb logs it.
ubi_destruct_busy(i) ==
  /\ ~crashed /\ pc[i] = "unlisted" /\ "busy" \in Faults
  /\ head' = head \ {i}
  /\ blob' = blob \ {i}
  /\ bs' = [bs EXCEPT ![i] = "stuck"]
  /\ iodev' = [iodev EXCEPT ![i] = "unregistering"]
  /\ pc' = [pc EXCEPT ![i] = "destructed"]
  /\ UNCHANGED <<options, mem, opened, users, closing, answer, touched, stray, crashed>>

\* _device_unregister_cb, a message sent when no channel is left.
_device_unregister_cb(i) ==
  /\ ~crashed /\ iodev[i] = "unregistering" /\ closing[i] = 0
  /\ iodev' = [iodev EXCEPT ![i] = "gone"]
  /\ mem' = [mem EXCEPT ![i] = "freed"]
  /\ UNCHANGED <<pc, options, blob, bs, opened, head, users, closing,
                 answer, touched, stray, crashed>>

\* ubi_destruct_bs_unload_cb: with success it does nothing, and the base bdev is
\* closed with the last blobstore channel.
ubi_destruct_bs_unload_cb(i) ==
  /\ ~crashed /\ bs[i] = "unloading" /\ closing[i] = 0
  /\ bs' = [bs EXCEPT ![i] = "closed"]
  /\ opened' = opened \ {i}
  /\ UNCHANGED <<pc, options, mem, iodev, blob, head, users, closing,
                 answer, touched, stray, crashed>>

\* With an error it logs the name of the ubi_bdev; the base bdev stays open.
unload_error(i) ==
  /\ ~crashed /\ bs[i] = "unloading" /\ "unload" \in Faults
  /\ bs' = [bs EXCEPT ![i] = "stuck"]
  /\ touched' = IF mem[i] = "freed" THEN touched \cup {i} ELSE touched
  /\ UNCHANGED <<pc, options, mem, iodev, blob, opened, head, users, closing,
                 answer, stray, crashed>>

\* What SPDK completes or schedules by itself, once started.
Progress(i) ==
  \/ ubi_bs_init_complete(i) \/ ubi_bs_init_error(i)
  \/ ubi_blob_create_complete(i) \/ ubi_blob_snapshot_complete(i)
  \/ ubi_blob_open_complete(i) \/ register_error(i) \/ open_error(i)
  \/ ubi_destroy_channel_cb(i) \/ Unlist(i)
  \/ ubi_destruct(i) \/ ubi_destruct_busy(i)
  \/ _device_unregister_cb(i) \/ ubi_destruct_bs_unload_cb(i) \/ unload_error(i)

\* What users decide.
Request(i) ==
  \/ bdev_ubi_create(i) \/ bdev_ubi_create_fail(i)
  \/ bdev_ubi_delete(i)
  \/ ubi_get_io_channel(i) \/ ubi_create_channel_error(i) \/ PutChannel(i)

Next == \E i \in Inst : Progress(i) \/ Request(i)

Spec == Init /\ [][Next]_vars

\* Asynchronous calls complete and messages are delivered: SPDK's reactor polls
\* for as long as the process lives.  Nothing is assumed of the users.
FairSpec == Spec /\ \A i \in Inst : WF_vars(Progress(i))

-----------------------------------------------------------------------------
(* Properties *)

\* The shape of the state.
TypeOK ==
  /\ pc \in [Inst -> PC]
  /\ name \in [Inst -> Name] /\ base \in [Inst -> BaseBdev] /\ format \in [Inst -> BOOLEAN]
  /\ mem \in [Inst -> {"none", "live", "freed"}]
  /\ iodev \in [Inst -> {"none", "registered", "unregistering", "gone"}]
  /\ blob \subseteq Inst /\ opened \subseteq Inst /\ head \subseteq Inst
  /\ touched \subseteq Inst /\ stray \in BOOLEAN
  /\ bs \in [Inst -> {"none", "open", "unloading", "closed", "stuck"}]
  /\ users \in [Inst -> Nat] /\ closing \in [Inst -> Nat]
  /\ answer \in [Inst -> [calls : Nat, ok : BOOLEAN]]
  /\ crashed \in BOOLEAN

\* done_fn is called once, when the creation has ended, and says whether the bdev
\* was registered: along every error path of the callback chain.
AnswerOnce ==
  \A i \in Inst :
    /\ answer[i].calls = IF pc[i] \in {"idle", "bs_init", "create_blob", "snapshot", "open_blob"}
                         THEN 0 ELSE 1
    /\ answer[i].ok => pc[i] # "failed"

\* A ubi_bdev on g_ubi_bdev_head is whole: allocated, its io_device registered,
\* its blob, blobstore and base bdev open; and the names of bdevs are distinct.
HeadWhole ==
  /\ \A i \in head : /\ mem[i] = "live" /\ iodev[i] = "registered"
                     /\ i \in blob /\ bs[i] = "open" /\ i \in opened
  /\ \A i, j \in Inst : (Listed(i) /\ Listed(j) /\ name[i] = name[j]) => i = j

\* As long as a channel exists, in use or waiting for its destroy callback, the
\* ubi_bdev is allocated and its io_device is there: ubi_submit_request and
\* ubi_destroy_channel_cb never see one that _device_unregister_cb has freed.
ChannelsSafe ==
  \A i \in Inst : users[i] + closing[i] > 0 =>
    /\ mem[i] = "live"
    /\ iodev[i] \in {"registered", "unregistering"}
    /\ i \in opened

\* bdev_ubi.c, _device_unregister_cb: "Done with this ubi_bdev."  No callback uses
\* a ubi_bdev after it was freed.
NoUseAfterFree == touched = {}

\* Every poller belongs to a channel.
PollersOwned == ~stray

\* test_conf.json creates "ubi_on_already_claimed_bdev" on a base bdev that
\* another ubi bdev uses: a base bdev has one blobstore on it at a time.
BaseExclusive == \A i, j \in opened : base[i] = base[j] => i = j

\* bdev_ubi.c, bdev_ubi_create: "This will always call the callback stored in
\* context->done_fn with the success status."
CreateAnswered == \A i \in Inst : pc[i] # "idle" ~> answer[i].calls > 0
=============================================================================

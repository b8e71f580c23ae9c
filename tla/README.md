# bdev_ubi in TLA+

Specifications of bdev_ubi, an SPDK block device module that shows a base bdev
initialised lazily from an image file, takes snapshots of it and copies them to
delta files, and of `spdk_dd`, the copy program kept beside it. Modules are
checked with TLC on small instances; the properties that matter most are proved
with TLAPS for every value of the constants. `PROJECT.json` maps each definition
to the source lines it stands for.

## The system

| part | source | state | module |
|---|---|---|---|
| backing device: image file overlaid with a delta file | `spdk_bs_dev_uring.c` | image, `cluster_map` | `EsnapDev` |
| io_uring channels of the backing device | `spdk_bs_dev_uring.c` | descriptors, ring, the poller's batch, requests | `UringChannel` |
| data path: blob, snapshots, backing device, delta files | `bdev_ubi.c`, `bdev_ubi_snapshot.c`, both bs_devs | clusters of each layer | `UbiVolume`, abstractly `Disk` |
| delta file, and a device that reads it | `spdk_bs_dev_delta.c`, `spdk_bs_dev_uring.c` | file, its map, each channel's map and file position, the reader's map | `DeltaFile` |
| life of a ubi bdev | `bdev_ubi.c`, `bdev_ubi_io_channel.c` | ubi_bdev, io_device, blobstore, list, channels | `UbiBdev` |
| I/O requests, crashes, create calls and the saved configuration | `bdev_ubi.c`, `bdev_ubi_rpc.c` | requests, base bdev and its cache | `UbiIo` |
| snapshot requests | `bdev_ubi_snapshot.c` | callback chain, `snapshot_context`, `snapshot_status` | `UbiSnapshot` |
| the service: ubi bdevs and snapshot requests over one blobstore | `bdev_ubi.c`, `bdev_ubi_snapshot.c`, `bdev_ubi_rpc.c` | both of the above | `UbiService` |
| `spdk_dd` | `spdk_dd.c` | `g_job`, the dd_ios, seek queue, output | `DdCopy` |

How they interact: a create request opens a base bdev, puts a blobstore on it and
makes a thin blob whose parent is the backing device (`UbiBdev`). I/O goes to the
blob (`UbiIo`), which reads through snapshots, delta file and image and copies a
cluster up on its first write (`UbiVolume`); a read that reaches the files goes
through the ring of the thread's channel (`UringChannel`). A snapshot request
freezes the blob's clusters, clones and decouples them, and copies them to a delta
file in the background (`UbiSnapshot`, `DeltaFile`); another device may be created
from that file. `UbiVolume` extends `EsnapDev` and composes the layers.
`UbiService` composes `UbiBdev` and `UbiSnapshot`: while a request has a blob open
unloading the blobstore fails with -EBUSY, and otherwise a deletion takes blobstore
and ubi_bdev away under the request. The other modules look at one part each, with the
control that `UbiVolume` abstracts from.

SPDK (blobstore, bdev layer, thread library), the kernel's file calls and ring, and
the base bdev are not in the repository. They are modelled from how the code uses
them and marked external in the map. What is relied on: blobstore calls complete
asynchronously and once; a put channel is destroyed by a later message; an
io_device goes when its channels have; a snapshot takes its blob's clusters;
copy-on-write skips the read when the parent says the cluster is zeroes; opening a
blob with an error passes a null blob; a blobstore with open blobs is not unloaded;
an entry of the ring stays there until the kernel takes it.

## Modelling decisions

* A callback is one step: SPDK runs callbacks to completion on one thread. Between
  two steps anything else may run.
* `EsnapDev`: addresses are pairs of cluster and offset, which is what the shifts
  and masks compute. A read at or past the end of the image succeeds and leaves
  the buffer alone, so it returns any value.
* `UringChannel`: one channel of a thread, made up to `MaxOpens` times. A request is
  a read inside the files, over their end or behind it, or no read; which file has
  the data is left to `EsnapDev`. `Faults` says which calls may fail. `cut` holds the
  requests whose own submission failed.
* `UbiVolume`: the snapshots below the blob are one layer (`lower`), as a read takes
  the newest cluster. `disk` and `written` are history. Copies of several snapshots
  interleave with writes.
* `DeltaFile`: sizes are in blocks; `Cap` is where the file system is full. Each copy
  has a channel, with a descriptor and a map of its own, and copies to the file may
  overlap (`shared`). The file is neither locked nor truncated when it is used again.
  Any write of a cluster may store less than all of it, and counts as complete, or
  fail; `cut` holds those clusters. The map is stored whole or not at all.
* `UbiBdev`: `Faults` says which calls may fail. A use of freed memory is recorded
  in `touched`, a poller left behind by a channel that was not made in `stray`.
* `UbiIo`: a block's contents are the number of the write that put them there.
  `writeback` chooses a base bdev with or without a volatile cache. A create call is
  the set of required parameters it has and its `format_bdev`; the saved
  configuration is such a call.
* `UbiSnapshot`: `serial` chooses a client that waits for each request to finish.
  A request whose copy cannot be started is "stuck". A request that goes on when its
  blobstore is being unloaded or its ubi_bdev is freed is "wild"; only the latter is
  recorded in `used`.
* `UbiService`: the snapshot requests are for one ubi bdev, `Dev`; the others come
  and go beside it. `Unloads` says what the blobstore does: it refuses when the clone
  of a request is open, it may refuse while a request waits for it, and it closes the
  base bdev with its last channel.
* `DdCopy`: a handler calls the next ones until something is submitted, so handlers
  are operators from job to job and each completion is a step. The build without
  io_uring is modelled, the failures of `dd_finalize_output` and of `lseek` in an input
  file included. The callbacks of a bdev do not look at success: a failed read or write
  is recorded in `lost`, a failed seek in `astray`. Of the latter a copy has one, and
  the offset the callback takes for its result is one of `Stale` or none. A bdev tells
  that it has no more holes, a file that one is at its end (`BdevHole`, `NextHole`).

Operators whose name is that of an action or helper and a suffix, such as
`ubi_destruct_KeepsHead`, are faulty variants. No specification uses them: they
show that a property fails when the code is wrong in that way.

## Runs

Runs that pass:

| run | bounds | shows |
|---|---|---|
| VolumeReads | 2 clusters of 2 blocks, image of 3 blocks, a delta file with one cluster, 1 snapshot | `ReadCurrent`, and refinement of `Disk` |
| VolumeDeltas | 2 clusters of 1 block, 2 snapshots | `DeltaChain` |
| Delta | 3 clusters of 2 blocks, room for two and a half, 2 copies to one file, one after the other or at once | `Restorable`, `CutOffIsEmpty`, `ReaderWhole` |
| Service | 2 creations, 2 names, 1 base bdev, 2 channels, 1 snapshot request of 1 cluster, every fault | `AnswerOnce`, `HeadWhole`, `ChannelsSafe`, refinement of `UbiSnapshot`, `ServiceCreateEnds`, `ServiceFailureReleases`, `ServiceDeleteReleases` |
| Io | 3 requests, 2 blocks | `AnsweredOnce`, `WriteThrough` |
| Snapshot | 2 requests, 2 clusters, every fault, a deletion | `AnsweredOnce`, `Released`, `StatusExact`, `EventuallyAnswered`, `EventuallyMapped` |
| Dd | 11 blocks, units of 4, queue of 2, `--skip 1 --seek 1`, output blocks of 2, every fault, stale offsets 3 and 8 | `BufferFits`, `Counted`, `ExitQuiet`, `ExitOnce`, `Disjoint`, `WithinCount`, `CopyExact`, `NeverStuck`, `CopyEnds` |
| Uring | 3 requests, batches of 2, a ring of 2, with a delta file, 2 openings, every fault | `TouchedOnce`, `SuccessIsData`, `NoneLost`, `Descriptors`, `RingRoom`, `ReadAnswered` |

Why the bounds are enough for the cases of interest: two blocks in a cluster make
a write partial; an image of three blocks ends inside a cluster; two snapshots make
a chain; two creations share a name or a base bdev, and one goes while the other
has a snapshot request under way; a size that is no multiple of the unit or of the
output's block, and data that begins and ends inside a block, give `spdk_dd` parts of
blocks to combine with the output; a stale offset before the start and one amid the
input lead a failed seek back and forth; three requests over batches and a ring of two
fill both. Two initial
predicates leave out what makes little difference: `MCService` fixes the name of
`Dev`, that the client of its one request does not wait, and that the other bdev loads
its blobstore; `MCDd` takes the blocks that `--skip` passes over for holes, and the
last two blocks are data or a hole together. `Dd` leaves out `--sparse` with `--count`, and
queues longer than two, for which it fails as described below.

Deadlock is checked in the Volume runs, Io and IoFlush. Elsewhere the system may
stop: all requests have been made.

Runs that show a disagreement between the code and what it, a document or a test
says of it:

| run | property | what happens |
|---|---|---|
| VolumeTail | `ImageKept` | the cluster with the end of the image is taken for zeroes, and its first write loses the rest of the image there |
| BdevOpenError | `CreateAnswered` | an error from opening the blob ends in a null pointer, not in `done_fn` |
| IoFlush | `FlushDurable` | a flush flushes nothing |
| SnapshotDelete | `NoUseAfterFree` | a deletion frees the ubi_bdev under a snapshot request |

More were found with instances that are not kept as runs. Each is a stated
property that TLC refutes in the module and with the constants given. Those of
MCDd have `Unit = OutBlock = 1`, `Skip = Seek = 0`, `Faults = {}` and `Stale = {}`
where nothing else is said; unless `FairSpec` is named the specification is `Spec`.

| property | instance | what happens |
|---|---|---|
| `NoUseAfterFree` of `UbiBdev` | UbiBdev: `Inst = {i1}`, `Faults = {"unload"}`, 2 names, base bdevs and channels | `bdev_ubi.c:268` logs the name of a ubi_bdev that line 349 has freed ("Done with this ubi_bdev.") |
| `BaseExclusive` | UbiBdev: `Inst = {i1, i2}`, `Faults = {}`, otherwise the same | `bdev_ubi.c:226` opens the base bdev without a claim; `test_conf.json:35` calls such a bdev "already_claimed" |
| `PollersOwned` | UbiBdev: `Inst = {i1}`, `Faults = {"channel"}`, otherwise the same | `bdev_ubi_io_channel.c:26` gives the channel up and leaves its poller registered |
| `ReleasedAll` | MCSnapshot: as in Snapshot.cfg | `bdev_ubi_snapshot.c:143` leaves the clone open, and line 84 the context, channel and delta device of a copy that could not be started |
| `StatusTrue` | MCSnapshot: as in Snapshot.cfg | after `bdev_ubi_snapshot.c:84` in_progress is true for good |
| `ConfigRestores` | UbiIo: as in Io.cfg | the saved call (`bdev_ubi.c:372`) has no `base_bdev`, which the decoder requires, so it is refused and the device is not there after a restart |
| `NoLateTouch` | UringChannel: as in Uring.cfg | the entry of a failed submission stays in the ring (`spdk_bs_dev_uring.c:160`), and the next submission takes it along: the answered request is read into and answered again |
| `ReaderKept` | MCDelta: as in Delta.cfg | a delta file is used again under a device that has read its old map, and the device's clusters change |
| `RestorableShared` | MCDelta: as in Delta.cfg | two copies to one file at once write over each other's clusters (`spdk_bs_dev_delta.c:84`) |
| `BufferFits` | MCDd: `Size = 3`, `OutSize = 4`, `Depth = 1`, `Unit = 3`, `OutBlock = 2`, `Modes <- MCModes` | `dd_run` asks only that `--bs` is no smaller than the output's block; a unit of a block and a half is rounded up to two, and the buffer has room for the unit |
| `SeekFailureShows` | MCDd: as in Dd.cfg | `spdk_dd.c:581` and 638 take what is in the bdev_io for the result of a seek that failed, and the copy reports success |
| `WithinCount` | MCDd: `Size = 4`, `OutSize = 8`, `Depth = 2`, `Modes <- MCCounted` | `--sparse` with `--count`: a hole across the end of the region makes `copy_size - read_offset` wrap (`spdk_dd.c:465`, 686), and data behind the count is copied |
| `CopyExact` | the same | a hole that ends with the region brings the position to its end, and the copy ends (`spdk_dd.c:467`) without the `dd_finalize_output` that gives an output file its length |
| `ExitQuiet` | MCDd: `Size = 5`, `OutSize = 8`, `Depth = 3`, `Modes <- MCCounted` | `spdk_dd.c:653` submits the next queued seek after the populate before it has reached the end and called `dd_exit` |
| `InterruptEnds` (`FairSpec`) | MCDd: `Size = OutSize = 2`, `Depth = 2`, `Modes <- MCSeeking` | `spdk_dd.c:566` and 624 return without counting the seek as ended, so an interrupted copy never exits |
| `NeverStuck`, `SeekRunning`, `CopyEnds` (`FairSpec`) | MCDd: `Size = 4`, `OutSize = 8`, `Depth = 3`, `Modes <- MCSeeking` | `spdk_dd.c:588` leaves dd_ios in the queue with no seek in progress; line 718 takes the queue for one, and the copy hangs |
| `NeverStuck` | MCDd: `Size = 5`, `OutSize = 8`, `Depth = 2`, `Modes <- MCCounted` | past the end of the region, as in `WithinCount`, the position reaches the end of the input: `spdk_dd.c:653` starts no further seek, and no dd_io finds that it is at the end of the region |

`ConfigRestores` is an invariant about what a start can do: a refused call is a step
that changes nothing, of which an action property would say nothing. It holds when
`ubi_write_config_json_Base` takes the place of `ubi_write_config_json`, but then
`WriteThrough` does not: `format_bdev` is true when a call leaves it out, and the
restored device would be formatted.

Several passing properties name the cases they leave out: those of `DeltaFile` copies
that overlapped, and `Restorable` a cluster whose write was cut short or failed (`cut`),
`TouchedOnce` a request whose own submission failed (`cut`), `Released` a clone that
could not be made read-only or closed and a copy that could not be started,
`StatusExact` the latter and a client that overlaps requests, and those of `UbiSnapshot`
requests whose blobstore or ubi_bdev has gone ("wild"). Those of `DdCopy` leave out an
error or interrupt while seeking in a bdev (`SeekStopped`), a failed seek in a bdev
(`astray`) and a failed bdev I/O (`lost`), which the callbacks ignore, and the loop in
`dd_run`, which calls `dd_exit` more than once when several dd_ios find nothing to do.
`TypeOK`, `BufferFits` and `Counted` hold after failed seeks as well; without the
exception of `astray` TLC refutes `Disjoint`, `CopyExact` and `ExitQuiet`. The
liveness properties of `UbiService` except a process that has died, a blobstore that
has refused to unload, and a channel that a request keeps for good.

## Fairness

Weak fairness of what SPDK or the kernel completes by itself: the reactor polls as
long as the process lives. In `UbiService`, `UbiBdev` and `UbiSnapshot` it is per
ubi bdev and per request, in `DdCopy` for all completions together, and in
`UringChannel` of the poller, of its handling of each completion it has taken and of
the kernel's completion of each entry it was given. Nothing is assumed of users:
they need not delete, put a channel or take a snapshot.

## Proofs

| module | theorem | statement |
|---|---|---|
| `UbiVolumeProofs` | `VolumeTypes`, `VolumeReads`, `VolumeDeltas` | `TypeOK`, `ReadCurrent`, `DeltaChain` are invariants |
| | `VolumeImplementsDisk` | the device refines `Disk` on the clusters the image covers |
| | `VolumeImageKept` | `ImageKept`, if the image is of whole clusters |
| `DeltaFileProofs` | `DeltaTypes`, `DeltaRestorable`, `DeltaCutOffIsEmpty`, `DeltaReaderWhole` | the invariants of Delta |
| | `DeltaReaderKept` | what `ReaderKept` asks of a copy that ran alone, as long as no other is started to the file |
| `UbiIoProofs` | `IoAnsweredOnce`, `IoWriteThrough` | the invariants of Io |
| `UbiSnapshotProofs` | `SnapshotTypes`, `SnapshotAnswered`, `SnapshotReleased`, `SnapshotStatus` | the invariants of Snapshot, every fault allowed |
| | `SnapshotStatusTrue` | `StatusTrue`, if copies can be started (`"copysync"` is no fault) |
| `ServiceProofs` | `BdevTypes`, `BdevAnswerOnce`, `BdevHeadWhole`, `BdevChannelsSafe` | `TypeOK`, and the invariants of `UbiBdev` that Service checks, every fault allowed |
| | `ServiceSafe` | the same three are invariants of the composition, beside the snapshot requests |
| | `ServiceImplementsSnapshot` | the composition refines `UbiSnapshot`, so what is proved of it holds for the requests of the service |
| `UringProofs` | `UringTypes`, `UringTouchedOnce`, `UringSuccessIsData`, `UringNoneLost`, `UringDescriptors`, `UringRingRoom` | the invariants of Uring, every fault allowed |
| | `UringNoLateTouch`, `UringAlwaysRoom` | `NoLateTouch`, and that the ring always has room for a read (`CrashCause`), if `io_uring_submit` neither fails nor takes only a part |
| `DdProofs` | `DdTypes`, `DdCounted` | `TypeOK` and `Counted`, until a seek in a bdev fails |
| | `DdBufferFits` | `BufferFits`, until a seek in a bdev fails, if `--bs` is a multiple of the output's block |
| | `DdDisjoint`, `DdExitOnce` | `Disjoint`; `ExitOnce`, in every mode |
| | `DdWithinCount`, `DdCopyExact` | `WithinCount`, `CopyExact`, if no mode has `--sparse` with `--count` |
| | `DdExitQuiet` | `ExitQuiet`, if no mode has `--sparse` with `--count` |
| | `DdNeverStuck` | `NeverStuck`, if no mode seeks in a bdev |
| | `DdNeverStuckTwo` | `NeverStuck`, if no mode has `--sparse` with `--count` and the queue has at most two dd_ios, the default of `--qd` |

The theorems with an "if" or "as long as" have hypotheses that are needed: TLC refutes
the properties without them, as the tables above show. Where a property is refuted
the theorem tells the cause, and that it is the only one: the end of the image inside
a cluster for `ImageKept`, a file used again for `ReaderKept`, a copy that cannot be
started for `StatusTrue`, a unit that is no multiple of the block for `BufferFits`, a
failed or partial
submission for `NoLateTouch` and, in an instance with `Faults = {"submit"}` and the
other constants of Uring.cfg, for `CrashCause`. For `NeverStuck` there are two causes,
more than two dd_ios and `--sparse` with `--count`, and both need a mode that seeks in
a bdev.

`DdCopyExact` says the most: whatever the sizes of input, output, unit, block and
queue, wherever the holes are, and in whichever order the operations complete, a copy
that reports success has copied each block of the region.

`DdLemmas` has the invariant of `DdProofs`, and what each handler keeps of it. It
does not use the library: the two facts about least elements and about finite sets
that it needs are a hypothesis of its lemmas (`Basics`), which `DdProofs` proves.

The assumptions are the named ones of the modules (`EsnapAssumption`,
`MaxSnapsAssumption`, `DeltaAssumption`, `BdevAssumption`, `SnapshotAssumption`,
`ServiceAssumption`, `UringAssumption`, `DdAssumption`, `FaultAssumption`): sizes are naturals, and
positive where a division or a cluster needs it; faults are among those the module
knows; in `UbiService` the blobstore may refuse to unload; in `DdCopy` the output's
block is no larger than the unit, and `--skip` stays within the input. (A bdev that is
shorter than `--skip` is refused by `dd_run`. For a file that is, `copy_size` wraps
round to a huge number, which is left out: no read of such a copy finds data.)

The inductive invariants:

* Reads (`ReadInv`): `ReadCurrent` and that a written block's cluster is allocated in
  the blob or a snapshot, without which a written block outside the image could still
  be read from the backing device.
* Delta chain (`DeltaInv`): the snapshots' layer holds for each cluster what the
  newest snapshot with it holds (`LowerInv`); so did the device when each snapshot
  was taken (`AtInv`); and a delta file holds its snapshot's clusters as far as they
  were copied (`CopyInv`).
* Delta file (`CopyInv`): of the last copy, if it has run alone, each copied cluster
  lies between the map and the file position (`InPlace`), so that the next write cannot
  touch it; a map read since the copy was started is empty or the file's (`ReaderMap`);
  and no other channel is open (`Numbered`), which could.
* Life of a ubi bdev (`LifeInv`): which resources exist at each point of it (`Life`),
  how often it has been answered (`Answered`), and that listed names differ.
* I/O requests (`IoInv`): with no volatile cache, media and cache are equal and no
  older than what was acknowledged or flushed (`Settled`).
* Snapshot requests (`ReleasedInv`, `StatusInv`): a clone is open at the callbacks that
  need it only, and no delta channel before the copy (`ClonesHeld`). A client that waits
  has at most one request under way (`OneAtATime`), which follows from `AnsweredOnce`
  when the next one starts; without it, a second request could start a copy beside the
  first.
* The service: `LifeInv`, which each step of the composition keeps. That steps of
  `UbiBdev` change the ubi_bdev only in the ways `UbiSnapshot` allows rests on it.
* The channel (`ChannelInv`): all its invariants, and that an entry in the ring of a
  request that is not in `cut` is of an unanswered request, and a whole read that is
  done has filled its buffer (`Entries`).
* `spdk_dd` (`DdInv`, until a seek in a bdev fails, which can lead the position back):
  `Core`, that the counters count, that the ranges of dd_ios have
  been passed by the input position and do not overlap, and that nothing is started
  after an exit; `Queue`, that no dd_io is queued twice and the one that seeks is at
  the head; `Loop`, which dd_ios `dd_run` has not started, and why `dd_exit` may have
  been called before it has. `Disjoint` alone is not inductive: a range that is about
  to be used has to lie ahead of all the others.
* What `spdk_dd` has copied (`CopyInv`, beside `DdInv`): `Plan`, that the position has
  not left the region, each operation is on blocks that exist, each dd_io takes whole
  units until the end, and success is reported at the end only; `Held`, that a buffer
  being written holds its part of the input and, in the rest of its last block, what
  the output holds there; and that each block before the position is in work, a hole
  that is skipped, or in its place in the output (`Covered`). `CopyExact` speaks of the
  end only, so nothing can be concluded from it about a step. That the rest of a block
  stays equal to the output's while others write rests on `Disjoint`.

* A copy that seeks in a bdev (`Moving`, beside the two before): until the exit an
  operation is under way, and a dd_io waits in the queue only behind a seek or when
  there is nothing left to copy. When a seek finds no more data, the others in the
  queue are left there; with two dd_ios that is the only other one (`Alone`), so
  nothing is outstanding and the one that sought exits.

Only model-checked: liveness (outside the prover's reach, like ENABLED and induction
over data).

## Not modelled

* The JSON-RPC layer, apart from what a create call decodes to and the answers that
  are sent. Malformed delete, snapshot and status calls are refused without a change
  of state.
* Options that decide nothing: `no_sync` is stored and never read; the `directio` of
  a call is never stored, so that the files are opened without it; `stripe_size_kb`
  and `copy_on_read` are decoded and dropped.
* `vhost_ubi.c`, which has no state, and the tests.
* `spdk_dd` with io_uring, output files that are raw block devices, input files without
  an end such as `/dev/zero`, a failure of `io_getevents`, more than one failed seek of a
  bdev in a copy, option parsing and the progress display.

## Plan

Done in this order: `EsnapDev`, `Disk` and `UbiVolume`; `DeltaFile`; `UbiBdev`;
`UbiIo`; `UbiSnapshot`; `DdCopy`; their proofs; `UringChannel`; `UbiService`; create
calls and the saved configuration in `UbiIo`; the reader of a delta file in
`DeltaFile`; proofs for these and for `DdCopy`. What could follow:

1. An abstract specification of a delta file (absent, empty, whole) that
   `DeltaFile` implements and `UbiVolume` uses.
2. `spdk_dd` with io_uring.

-------------------------------- MODULE UbiIo -------------------------------
(***************************************************************************)
(* Requests to a ubi bdev (ubi_submit_request, ubi_blob_io_complete) and   *)
(* what of them survives a crash or a deletion and the creation that       *)
(* follows, by a client or from the saved configuration.  The contents of  *)
(* a block are the number of the write that put them there, counted in the *)
(* order in which the writes took effect; 0 is what the image shows.       *)
(***************************************************************************)
EXTENDS Integers

CONSTANTS
  Req,        \* requests, each submitted once
  Block       \* blocks of the device

VARIABLES
  up,       \* the ubi bdev exists
  st,       \* of a request: new, queued (in the blobstore), ok, failed, lost
  op, blk,  \* what it asks for
  answers,  \* spdk_bdev_io_complete calls for it
  writeback, \* the base bdev keeps completed writes in a volatile cache
  writes,   \* writes that took effect so far
  cache,    \* what a read of the base bdev returns
  media,    \* what the base bdev has on stable storage
  acked,    \* history: the last write of a block answered with success
  flushed   \* history: what the blocks held when a flush last succeeded

request == <<op, blk, writeback>>
vars == <<up, st, request, answers, writes, cache, media, acked, flushed>>

Op == {"READ", "WRITE", "FLUSH", "UNMAP"}

Blank == [b \in Block |-> 0]

Init ==
  /\ up = TRUE
  /\ st = [r \in Req |-> "new"]
  /\ op \in [Req -> Op] /\ blk \in [Req -> Block]
  /\ answers = [r \in Req |-> 0]
  /\ writeback \in BOOLEAN
  /\ writes = 0
  /\ cache = Blank /\ media = Blank /\ acked = Blank /\ flushed = Blank

\* ubi_io_type_supported: the bdev layer refuses the other types.
ubi_io_type_supported(o) == o \in {"READ", "WRITE", "FLUSH"}

spdk_bdev_io_complete(r, ok) ==
  /\ st' = [st EXCEPT ![r] = IF ok THEN "ok" ELSE "failed"]
  /\ answers' = [answers EXCEPT ![r] = @ + 1]

\* ubi_submit_request, READ and WRITE: off to the blobstore.
submit_rw(r) ==
  /\ up /\ st[r] = "new" /\ op[r] \in {"READ", "WRITE"}
  /\ st' = [st EXCEPT ![r] = "queued"]
  /\ UNCHANGED <<up, request, answers, writes, cache, media, acked, flushed>>

\* ubi_submit_request, FLUSH: completed on the spot.  Nothing is sent to the
\* base bdev.
submit_flush(r) ==
  /\ up /\ st[r] = "new" /\ op[r] = "FLUSH"
  /\ spdk_bdev_io_complete(r, TRUE)
  /\ flushed' = cache
  /\ UNCHANGED <<up, request, writes, cache, media, acked>>

\* A type that is not supported fails.
submit_other(r) ==
  /\ up /\ st[r] = "new" /\ ~ubi_io_type_supported(op[r])
  /\ spdk_bdev_io_complete(r, FALSE)
  /\ UNCHANGED <<up, request, writes, cache, media, acked, flushed>>

\* The write reaches the base bdev (external).
Stored(b) ==
  /\ writes' = writes + 1
  /\ cache' = [cache EXCEPT ![b] = writes + 1]
  /\ media' = IF writeback THEN media ELSE [media EXCEPT ![b] = writes + 1]

\* ubi_blob_io_complete without and with an error.  A write that failed may have
\* taken effect.
ubi_blob_io_complete(r) ==
  /\ st[r] = "queued"
  /\ IF op[r] = "WRITE"
     THEN Stored(blk[r]) /\ acked' = [acked EXCEPT ![blk[r]] = writes + 1]
     ELSE UNCHANGED <<writes, cache, media, acked>>
  /\ spdk_bdev_io_complete(r, TRUE)
  /\ UNCHANGED <<up, request, flushed>>

ubi_blob_io_error_NoAnswer(r) ==
  /\ st[r] = "queued"
  /\ st' = [st EXCEPT ![r] = "failed"]
  /\ UNCHANGED <<up, request, answers, writes, cache, media, acked, flushed>>

ubi_blob_io_error(r) ==
  /\ st[r] = "queued"
  /\ (op[r] = "WRITE" /\ Stored(blk[r])) \/ UNCHANGED <<writes, cache, media>>
  /\ spdk_bdev_io_complete(r, FALSE)
  /\ UNCHANGED <<up, request, acked, flushed>>

\* The base bdev writes back a block of its cache (external).
Writeback(b) ==
  /\ media[b] # cache[b]
  /\ media' = [media EXCEPT ![b] = cache[b]]
  /\ UNCHANGED <<up, st, request, answers, writes, cache, acked, flushed>>

\* Power is lost and the requests in the blobstore with it.  (One that had reached
\* the base bdev is the effect of ubi_blob_io_error.)
Crash ==
  /\ up' = FALSE
  /\ cache' = media
  /\ st' = [r \in Req |-> IF st[r] = "queued" THEN "lost" ELSE st[r]]
  /\ UNCHANGED <<request, answers, writes, media, acked, flushed>>

\* bdev_ubi_delete, when no request is under way.
bdev_ubi_delete ==
  /\ up /\ \A r \in Req : st[r] # "queued"
  /\ up' = FALSE
  /\ UNCHANGED <<st, request, answers, writes, cache, media, acked, flushed>>

\* The parameters of a bdev_ubi_create call: the required ones that are there, and
\* the value of format_bdev.
Required == {"name", "image_path", "base_bdev"}
Params == [given : SUBSET Required, format : {"true", "false", "absent"}]

\* rpc_construct_ubi_decoders, and the default that rpc_bdev_ubi_create sets before.
decodes(p) == p.given = Required
format_bdev(p) == p.format # "false"

\* rpc_bdev_ubi_create and the choice bdev_ubi_create makes between spdk_bs_init,
\* which begins an empty blob, and spdk_bs_load.
Create(p) ==
  IF decodes(p)
  THEN /\ up' = TRUE
       /\ IF format_bdev(p) THEN cache' = Blank /\ media' = Blank ELSE UNCHANGED <<cache, media>>
  ELSE UNCHANGED <<up, cache, media>>

\* A client calls bdev_ubi_create.  One who has it format the base bdev gives up
\* what was on it.
rpc_bdev_ubi_create(p) ==
  /\ ~up /\ Create(p)
  /\ IF decodes(p) /\ format_bdev(p)
     THEN acked' = Blank /\ flushed' = Blank
     ELSE UNCHANGED <<acked, flushed>>
  /\ UNCHANGED <<st, request, answers, writes>>

ubi_write_config_json_Base == [given |-> Required, format |-> "absent"]

\* ubi_write_config_json: the call a saved configuration has for the device.
ubi_write_config_json == [given |-> {"name", "image_path"}, format |-> "absent"]

\* The application starts with the saved configuration (external), which nobody
\* means as an order to format.
LoadConfig ==
  /\ ~up /\ Create(ubi_write_config_json)
  /\ UNCHANGED <<st, request, answers, writes, acked, flushed>>

Next ==
  \/ \E r \in Req : \/ submit_rw(r) \/ submit_flush(r) \/ submit_other(r)
                    \/ ubi_blob_io_complete(r) \/ ubi_blob_io_error(r)
  \/ \E b \in Block : Writeback(b)
  \/ Crash \/ bdev_ubi_delete \/ LoadConfig
  \/ \E p \in Params : rpc_bdev_ubi_create(p)

Spec == Init /\ [][Next]_vars

-----------------------------------------------------------------------------
(* Properties *)

\* Types; every version the base bdev holds, or a flush recorded, was written.
TypeOK ==
  /\ up \in BOOLEAN
  /\ st \in [Req -> {"new", "queued", "ok", "failed", "lost"}]
  /\ op \in [Req -> Op] /\ blk \in [Req -> Block]
  /\ answers \in [Req -> Nat] /\ writeback \in BOOLEAN
  /\ writes \in Nat
  /\ cache \in [Block -> 0..writes] /\ media \in [Block -> 0..writes]
  /\ acked \in [Block -> 0..writes] /\ flushed \in [Block -> 0..writes]

\* ubi_submit_request and ubi_blob_io_complete answer a request once, when it
\* has been carried out or has failed, and never one the blobstore still has.
AnsweredOnce ==
  \A r \in Req : answers[r] = IF st[r] \in {"ok", "failed"} THEN 1 ELSE 0

\* The device says it has no write cache (write_cache = 0).  On a base bdev
\* that has none either that is true: no crash, no deletion and no restart, from the
\* saved configuration or by a client that does not ask for a format, undoes a write
\* answered with success, or what a block held at a flush.
WriteThrough ==
  ~writeback => \A b \in Block : cache[b] >= acked[b] /\ cache[b] >= flushed[b]

\* README.md on flush: "Data for the requested range is flushed to base bdev";
\* bdev_ubi.c: "We also support FLUSH to provide crash recovery."  What a block
\* held when a flush succeeded, or a later write, is what it holds from then on,
\* crashes included.
FlushDurable == \A b \in Block : cache[b] >= flushed[b]

\* ubi_write_config_json "writes out config parameters for the given bdev", a call
\* of bdev_ubi_create: a start with it brings the device up again.  (A call that is
\* refused changes nothing, so this is about what a start can do, not about steps.)
ConfigRestores == ~up => ENABLED (LoadConfig /\ up')
=============================================================================

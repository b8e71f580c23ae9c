-------------------------------- MODULE Disk --------------------------------
(***************************************************************************)
(* What README.md promises of a ubi bdev: "a block device initialized with *)
(* an image file".  The device starts with Content and a completed write   *)
(* replaces one block; nothing else (a snapshot, a copy to a delta file, a *)
(* restart of the process) may change what a read returns.                 *)
(***************************************************************************)
CONSTANTS
  Block,    \* the addresses of the device
  Value,    \* what a block may hold
  Content   \* what the device holds when it is created, [Block -> Value]

VARIABLE disk

Init == disk = Content

Write(b, v) == disk' = [disk EXCEPT ![b] = v]

Next == \E b \in Block, v \in Value : Write(b, v)

Spec == Init /\ [][Next]_disk
=============================================================================

-------------------------------- MODULE MCDd --------------------------------
(***************************************************************************)
(* DdCopy for TLC: every kind of source and target, with and without       *)
(* --count and --sparse, except the two together, which MCCounted has.     *)
(***************************************************************************)
EXTENDS DdCopy

Options(sparse, counts) == [sparse : {sparse}, inb : BOOLEAN, outb : BOOLEAN, count : counts]

MCModes == Options(FALSE, {0, 1, 3}) \cup Options(TRUE, {0})
MCCounted == Options(TRUE, {1, 3})

\* What --skip passes over is never looked at: taken for holes.  The last two blocks
\* are both data or both in a hole.
MCInit ==
  /\ Init
  /\ data \subseteq Start .. Size - 1
  /\ Size - 1 \in data <=> Size - 2 \in data
MCSpec == MCInit /\ [][Next]_vars /\ WF_vars(Progress)

MCSeeking == [sparse : {TRUE}, inb : {TRUE}, outb : BOOLEAN, count : {0}]
=============================================================================

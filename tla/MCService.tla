------------------------------ MODULE MCService -----------------------------
(* UbiService from fewer initial states. *)
EXTENDS UbiService

\* Which of the names Dev has does not matter, and neither does whether the client
\* of a single snapshot request waits before the next.  Both ways to create a
\* blobstore are taken by Dev, the other bdevs load theirs.
MCInit ==
  /\ ServiceInit
  /\ name[Dev] = (CHOOSE n \in Name : TRUE)
  /\ \A i \in Inst \ {Dev} : ~format[i]
  /\ ~serial

MCSpec == MCInit /\ [][ServiceNext]_ServiceVars /\ Fairness
=============================================================================

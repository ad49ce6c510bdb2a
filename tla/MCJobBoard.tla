---------------------------- MODULE MCJobBoard ----------------------------
(* JobBoard with one job (requests for different jobs have no row in       *)
(* common), two workers and two applications for it, and three requests    *)
(* at once; a workload is split in halves.                                 *)
EXTENDS JobBoard, TLC

CONSTANTS j1, w1, w2, a1, a2, t1, t2, t3, none

MCJobs == {j1}
MCWorkers == {w1, w2}
MCApplications == {a1, a2}
MCThreads == {t1, t2, t3}
MCPercentages == {-1, 1, 2, 3}
MCSymmetry ==
  Permutations(MCWorkers) \cup Permutations(MCApplications)
    \cup Permutations(MCThreads)
=============================================================================

---------------------------- MODULE MCMemoryQueue ----------------------------
(***************************************************************************)
(* The queue alone: two workers, so that a job can wait behind one that    *)
(* keeps failing, two jobs and a buffer of two, so that it fills up.       *)
(***************************************************************************)
EXTENDS MemoryQueue

CONSTANTS j1, j2, w1, w2

MCJob == {j1, j2}
MCWorker == {w1, w2}
=============================================================================

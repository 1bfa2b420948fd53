----------------------------- MODULE MCRuntime -----------------------------
(***************************************************************************)
(* A router with one thread in each pool and one datagram that sets going  *)
(* a job of a worker, then one of the disk thread, then one of the logic   *)
(* thread, then one of a worker, as the verification of an RC does.        *)
(***************************************************************************)
EXTENDS Runtime

MCPoolOf == [w \in Threads |-> w]

MCTasks == {<<"worker", "disk", "logic", "worker">>}
=============================================================================

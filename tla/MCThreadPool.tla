---------------------------- MODULE MCThreadPool ----------------------------
(* A pool of one or two threads and three tasks. *)
EXTENDS ThreadPool

CONSTANTS t1, t2, t3, k1, k2, k3
MCThreads == {t1, t2, t3}
MCTasks == {k1, k2, k3}
=============================================================================

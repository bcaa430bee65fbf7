----------------------------- MODULE MCThreadPool -----------------------------
(* The thread pool on a small instance. *)
EXTENDS ThreadPool

CONSTANTS w1, w2, w3, t1, t2

ThreeWorkers == {w1, w2, w3}
TwoTasks == {t1, t2}

=============================================================================

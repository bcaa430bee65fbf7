------------------------------ MODULE MCReactor ------------------------------
(* The server on small instances. *)
EXTENDS ReactorInvariant, TLC

CONSTANTS w1, w2

OneWorker == {w1}
TwoWorkers == {w1, w2}
OneFD == {1}
TwoFDs == {1, 2}

AllKinds == {"part", "keep", "close", "bad"}
WholeKinds == {"keep", "close", "bad"}
ServedOrBad == {"part", "keep", "bad"}

WorkerSymmetry == Permutations(Workers)

=============================================================================

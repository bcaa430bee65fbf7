--------------------------- MODULE MCSortTimerLst ---------------------------
(* The timer list on small instances. *)
EXTENDS SortTimerLst, TLC

CONSTANTS t1, t2, t3, t4

FourTimers == {t1, t2, t3, t4}
BackAndForth == {1, -1}

TimerSymmetry == Permutations(Timers)

=============================================================================

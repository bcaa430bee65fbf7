------------------------------ MODULE TimerSet ------------------------------
(***************************************************************************)
(* What main() expects of its timers: a set of deadlines, and a sweep that *)
(* removes every deadline that has passed when it starts, and no other.    *)
(***************************************************************************)
EXTENDS Integers

CONSTANTS
    Timers,
    NULL,
    Timeout     \* how long after it is set a timer expires

VARIABLES
    deadline,   \* the deadline of each timer, NULL when there is none
    now,        \* the clock
    sweep       \* the time a sweep started, NULL when there is none

vars == <<deadline, now, sweep>>

Init ==
    /\ deadline = [t \in Timers |-> NULL]
    /\ now = 0
    /\ sweep = NULL

Expired == {t \in Timers : deadline[t] # NULL /\ deadline[t] <= sweep}

Set(t) ==
    /\ sweep = NULL
    /\ deadline' = [deadline EXCEPT ![t] = now + Timeout]
    /\ UNCHANGED <<now, sweep>>

Remove(t) ==
    /\ sweep = NULL
    /\ deadline' = [deadline EXCEPT ![t] = NULL]
    /\ UNCHANGED <<now, sweep>>

Pass ==
    /\ now' > now
    /\ UNCHANGED <<deadline, sweep>>

Begin ==
    /\ sweep = NULL
    /\ sweep' = now
    /\ UNCHANGED <<deadline, now>>

Fire(t) ==
    /\ sweep # NULL
    /\ t \in Expired
    /\ deadline' = [deadline EXCEPT ![t] = NULL]
    /\ UNCHANGED <<now, sweep>>

End ==
    /\ sweep # NULL
    /\ Expired = {}
    /\ sweep' = NULL
    /\ UNCHANGED <<deadline, now>>

Next ==
    \/ \E t \in Timers : Set(t) \/ Remove(t) \/ Fire(t)
    \/ Pass \/ Begin \/ End

Spec == Init /\ [][Next]_vars

=============================================================================

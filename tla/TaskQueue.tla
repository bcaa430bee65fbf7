------------------------------ MODULE TaskQueue ------------------------------
(***************************************************************************)
(* What the thread pool promises to its one client, the reactor thread:    *)
(* posted tasks are dispatched once each, in the order they were posted,   *)
(* and a worker leaves only when the pool is cancelled and nothing is left *)
(* to run.  No queue split in two, no lock, no condition variable.         *)
(***************************************************************************)
EXTENDS Sequences

CONSTANTS
    Workers,    \* the threads of the pool
    Tasks,      \* the tasks that can be posted
    NoTask      \* what a worker holds when it runs nothing

VARIABLES
    pending,    \* tasks posted and not yet dispatched
    running,    \* the task each worker runs, or NoTask
    gone,       \* workers that have left
    cancelled   \* the pool is being destroyed

vars == <<pending, running, gone, cancelled>>

Init ==
    /\ pending = << >>
    /\ running = [w \in Workers |-> NoTask]
    /\ gone = {}
    /\ cancelled = FALSE

Post(t) ==
    /\ ~cancelled
    /\ pending' = Append(pending, t)
    /\ UNCHANGED <<running, gone, cancelled>>

Cancel ==
    /\ ~cancelled
    /\ cancelled' = TRUE
    /\ UNCHANGED <<pending, running, gone>>

Dispatch(w) ==
    /\ w \notin gone
    /\ running[w] = NoTask
    /\ pending # << >>
    /\ running' = [running EXCEPT ![w] = Head(pending)]
    /\ pending' = Tail(pending)
    /\ UNCHANGED <<gone, cancelled>>

Finish(w) ==
    /\ running[w] # NoTask
    /\ running' = [running EXCEPT ![w] = NoTask]
    /\ UNCHANGED <<pending, gone, cancelled>>

Leave(w) ==
    /\ cancelled
    /\ pending = << >>
    /\ running[w] = NoTask
    /\ gone' = gone \cup {w}
    /\ UNCHANGED <<pending, running, cancelled>>

Next ==
    \/ \E t \in Tasks : Post(t)
    \/ Cancel
    \/ \E w \in Workers : Dispatch(w) \/ Finish(w) \/ Leave(w)

Spec == Init /\ [][Next]_vars

=============================================================================

---------------------------- MODULE SortTimerLst ----------------------------
(***************************************************************************)
(* SortTimerLst, the doubly linked list of timers of main(), at the level  *)
(* of its pointers.  Only the reactor thread touches it, so an operation   *)
(* is one action; tick() is one action for each turn of its loop.          *)
(*                                                                         *)
(* The reads and the writes of a node that was deleted are in Reactor      *)
(* (Listed): here every call is for a timer of the list.                   *)
(***************************************************************************)
EXTENDS Integers, FiniteSets

CONSTANTS
    Timers,     \* the addresses new UtilTimer returns
    NULL,
    Timeout,    \* 3 * TIMESLOT
    Steps,      \* what the wall clock moves by: negative when it is set back
    MaxTime     \* bound on the clock

ASSUME TimersAssumption == IsFiniteSet(Timers) /\ NULL \notin Timers \cup Int
ASSUME TimeoutAssumption == Timeout \in Nat /\ MaxTime \in Nat /\ Steps \subseteq Int

VARIABLES
    live,       \* the timers that are allocated
    next, prev, expire,
    head, tail,
    now,        \* time(NULL)
    cur,        \* tick's local cur, NULL outside tick
    tmp,        \* tick's local tmp
    setback     \* history: the clock has been set back

links == <<live, next, prev, head, tail>>
tickVars == <<cur, tmp>>
clockVars == <<now, setback>>
vars == <<live, next, prev, expire, head, tail, now, cur, tmp, setback>>

Init ==
    /\ live = {}
    /\ next = [t \in Timers |-> NULL]
    /\ prev = [t \in Timers |-> NULL]
    /\ expire = [t \in Timers |-> 0]
    /\ head = NULL /\ tail = NULL
    /\ now = 0
    /\ cur = NULL /\ tmp = NULL
    /\ setback = FALSE

-----------------------------------------------------------------------------
(* addTimer(timer, head): the node after which a timer that expires at e   *)
(* belongs, from `first` on, along the links nx.                           *)
Place(first, e, nx) ==
    LET walk[p \in Timers] ==
            IF nx[p] = NULL \/ e < expire[nx[p]] THEN p ELSE walk[nx[p]]
    IN walk[first]

(* Links timer behind p; the last node of the list is the new tail. *)
LinkAfter(timer, p, nx, pv) ==
    /\ next' = [nx EXCEPT ![timer] = nx[p], ![p] = timer]
    /\ prev' = [t \in Timers |-> IF t = timer THEN p
                                 ELSE IF t = nx[p] THEN timer ELSE pv[t]]
    /\ tail' = IF nx[p] = NULL THEN timer ELSE tail

(* new UtilTimer, expire = time(NULL) + 3 * TIMESLOT, addTimer. *)
addTimer(timer) ==
    LET e == now + Timeout
        fresh == [next EXCEPT ![timer] = NULL]
        fresh_prev == [prev EXCEPT ![timer] = NULL]
    IN
    /\ cur = NULL
    /\ timer \notin live
    /\ live' = live \cup {timer}
    /\ expire' = [expire EXCEPT ![timer] = e]
    /\ \/ /\ head = NULL
          /\ head' = timer /\ tail' = timer
          /\ next' = fresh /\ prev' = fresh_prev
       \/ /\ head # NULL /\ e <= expire[head]
          /\ head' = timer
          /\ next' = [fresh EXCEPT ![timer] = head]
          /\ prev' = [fresh_prev EXCEPT ![head] = timer]
          /\ UNCHANGED tail
       \/ /\ head # NULL /\ e > expire[head]
          /\ LinkAfter(timer, Place(head, e, fresh), fresh, fresh_prev)
          /\ UNCHANGED head
    /\ UNCHANGED <<clockVars, tickVars>>

(* Mutant: adjustTimer leaves the timer where it is. *)
adjustTimerInPlace(timer) ==
    /\ cur = NULL
    /\ timer \in live
    /\ expire' = [expire EXCEPT ![timer] = now + Timeout]
    /\ UNCHANGED <<links, clockVars, tickVars>>

(* main() sets expire = time(NULL) + 3 * TIMESLOT, then adjustTimer: only  *)
(* a later expiry moves the timer, towards the tail.                       *)
adjustTimer(timer) ==
    LET e == now + Timeout
        after == next[timer]
        first == timer = head
        nx == [t \in Timers |-> IF t = timer THEN NULL
                                ELSE IF next[t] = timer THEN after ELSE next[t]]
        pv == [prev EXCEPT ![after] = IF first THEN NULL ELSE prev[timer],
                           ![timer] = IF first THEN @ ELSE NULL]
    IN
    /\ cur = NULL
    /\ timer \in live
    /\ expire' = [expire EXCEPT ![timer] = e]
    /\ \/ /\ after # NULL => e < expire[after]
          /\ UNCHANGED links
       \/ /\ after # NULL /\ e >= expire[after]
          /\ head' = IF first THEN after ELSE head
          /\ LinkAfter(timer, Place(after, e, nx), nx, pv)
          /\ UNCHANGED live
    /\ UNCHANGED <<clockVars, tickVars>>

(* Mutant: the tail is deleted and its predecessor keeps pointing at it. *)
delTimerDangling(timer) ==
    /\ cur = NULL
    /\ timer \in live
    /\ live' = live \ {timer}
    /\ head' = IF timer = head THEN next[head] ELSE head
    /\ tail' = IF timer = tail THEN prev[tail] ELSE tail
    /\ next' = [t \in Timers |-> IF timer # tail /\ next[t] = timer THEN next[timer] ELSE next[t]]
    /\ prev' = [t \in Timers |-> IF prev[t] = timer THEN prev[timer] ELSE prev[t]]
    /\ UNCHANGED <<expire, clockVars, tickVars>>

(* delTimer: the only node, the head, the tail, or one in between.  The    *)
(* fields of a deleted node mean nothing any more and are cleared.         *)
delTimer(timer) ==
    LET nx == [next EXCEPT ![timer] = NULL]
        pv == [prev EXCEPT ![timer] = NULL]
    IN
    /\ cur = NULL
    /\ timer \in live
    /\ live' = live \ {timer}
    /\ expire' = [expire EXCEPT ![timer] = 0]
    /\ \/ /\ timer = head /\ timer = tail
          /\ head' = NULL /\ tail' = NULL
          /\ next' = nx /\ prev' = pv
       \/ /\ timer = head /\ timer # tail
          /\ head' = next[head]
          /\ prev' = [pv EXCEPT ![next[head]] = NULL]
          /\ next' = nx
          /\ UNCHANGED tail
       \/ /\ timer # head /\ timer = tail
          /\ tail' = prev[tail]
          /\ next' = [nx EXCEPT ![prev[tail]] = NULL]
          /\ prev' = pv
          /\ UNCHANGED head
       \/ /\ timer # head /\ timer # tail
          /\ next' = [nx EXCEPT ![prev[timer]] = next[timer]]
          /\ prev' = [pv EXCEPT ![next[timer]] = prev[timer]]
          /\ UNCHANGED <<head, tail>>
    /\ UNCHANGED <<clockVars, tickVars>>

-----------------------------------------------------------------------------
(* tick: reads the clock once and starts at the head. *)
TickBegin ==
    /\ cur = NULL
    /\ head # NULL
    /\ cur' = now /\ tmp' = head
    /\ UNCHANGED <<links, expire, clockVars>>

(* Mutant: tick does not clear the prev of the new head. *)
TickExpireKeepsPrev ==
    /\ cur # NULL
    /\ tmp # NULL /\ expire[tmp] <= cur
    /\ head' = next[tmp]
    /\ live' = live \ {tmp}
    /\ tmp' = next[tmp]
    /\ UNCHANGED <<next, prev, expire, tail, clockVars, cur>>

(* One expired timer: the callback, then the new head, then delete. *)
TickExpire ==
    /\ cur # NULL
    /\ tmp # NULL /\ expire[tmp] <= cur
    /\ head' = next[tmp]
    /\ next' = [next EXCEPT ![tmp] = NULL]
    /\ prev' = [t \in Timers |-> IF t \in {tmp, next[tmp]} THEN NULL ELSE prev[t]]
    /\ expire' = [expire EXCEPT ![tmp] = 0]
    /\ live' = live \ {tmp}
    /\ tmp' = next[tmp]
    /\ UNCHANGED <<tail, clockVars, cur>>

(* Mutant: stops before the timer that expires at this very second.        *)
TickEndEarly ==
    /\ cur # NULL
    /\ tmp # NULL => expire[tmp] >= cur
    /\ cur' = NULL /\ tmp' = NULL
    /\ UNCHANGED <<links, expire, clockVars>>

(* The list is at its end, or at a timer that has not expired. *)
TickEnd ==
    /\ cur # NULL
    /\ tmp # NULL => expire[tmp] > cur
    /\ cur' = NULL /\ tmp' = NULL
    /\ UNCHANGED <<links, expire, clockVars>>

(* The wall clock moves, also while tick runs. *)
Clock ==
    /\ \E d \in Steps : /\ now + d \in 0..MaxTime
                       /\ now' = now + d
                       /\ setback' = (setback \/ d < 0)
    /\ UNCHANGED <<links, expire, tickVars>>

Next ==
    \/ \E timer \in Timers : addTimer(timer) \/ adjustTimer(timer) \/ delTimer(timer)
    \/ TickBegin \/ TickExpire \/ TickEnd
    \/ Clock

Spec == Init /\ [][Next]_vars

-----------------------------------------------------------------------------
(* Types, and no pointer of the list leads to a deleted timer. *)
TypeOK ==
    /\ live \subseteq Timers
    /\ next \in [Timers -> Timers \cup {NULL}] /\ prev \in [Timers -> Timers \cup {NULL}]
    /\ expire \in [Timers -> 0..MaxTime + Timeout]
    /\ head \in live \cup {NULL} /\ tmp \in live \cup {NULL}
    /\ \A t \in live : next[t] \in live \cup {NULL} /\ prev[t] \in live \cup {NULL}
    /\ now \in 0..MaxTime /\ cur \in 0..MaxTime \cup {NULL} /\ setback \in BOOLEAN

(* The nodes next leads to from the head, and where it ends. *)
Reached ==
    LET path[n \in 0..Cardinality(Timers)] ==
            IF n = 0 THEN head
            ELSE IF path[n - 1] = NULL THEN NULL ELSE next[path[n - 1]]
    IN path

(* The links are one list of all the timers, in both directions, from head *)
(* to tail, whatever the clock does: no timer is lost or visited twice.    *)
WellLinked ==
    /\ {Reached[n] : n \in DOMAIN Reached} \ {NULL} = live
    /\ Reached[Cardinality(Timers)] = NULL
    /\ \A t \in live : next[t] # NULL => prev[next[t]] = t
    /\ head # NULL => prev[head] = NULL /\ tail \in live /\ next[tail] = NULL

(* lst_timer.h:38: the list is ascending, so tick may stop at the first    *)
(* timer that has not expired; as long as the clock is not set back.       *)
Sorted == ~setback => \A t \in live : next[t] # NULL => expire[t] <= expire[next[t]]

(* s[1], ..., s[n] are the nodes, once each, in the order in which nx      *)
(* leads through them from first; pv leads back.                           *)
Threaded(n, s, nodes, first, nx, pv) ==
    /\ s \in [1..n -> nodes]
    /\ \A t \in nodes : \E i \in 1..n : s[i] = t
    /\ \A i, j \in 1..n : s[i] = s[j] => i = j
    /\ first = IF n = 0 THEN NULL ELSE s[1]
    /\ \A i \in 1..n : /\ nx[s[i]] = IF i = n THEN NULL ELSE s[i + 1]
                       /\ pv[s[i]] = IF i = 1 THEN NULL ELSE s[i - 1]

(* A deleted node leads nowhere, and the live ones are one thread from head *)
(* to tail.                                                                *)
OneThread ==
    /\ \A t \in Timers \ live : next[t] = NULL
    /\ \E n \in 0..Cardinality(Timers) : \E s \in [1..n -> live] :
          /\ Threaded(n, s, live, head, next, prev)
          /\ n # 0 => tail = s[n]

(* A deadline is at most a whole timeout away, until the clock is set back: *)
(* this is why a new deadline belongs at the tail, and the list stays       *)
(* sorted.                                                                 *)
DeadlinesNear == ~setback => \A t \in live : expire[t] <= now + Timeout

(* tick() is always at the head: what was before it is deleted. *)
TickAtHead == tmp = IF cur = NULL THEN NULL ELSE head

(* The inductive invariant of the proofs. *)
Inductive == TypeOK /\ OneThread /\ Sorted /\ DeadlinesNear /\ TickAtHead

(* The list implements the set of deadlines: a tick removes the timers     *)
(* that have expired, all of them and no other.  This too holds as long as *)
(* the clock is not set back.                                              *)
Abstract == INSTANCE TimerSet WITH
    deadline <- [t \in Timers |-> IF t \in live THEN expire[t] ELSE NULL],
    sweep    <- cur

ImplementsTimerSet == Abstract!Init /\ [][setback' \/ Abstract!Next]_(Abstract!vars)

=============================================================================

------------------------------ MODULE ThreadPool ------------------------------
(***************************************************************************)
(* ThreadPool over BlockingQueuePro, the two-lock task queue.              *)
(*                                                                         *)
(* Push and Cancel run wholly under m_producer_mtx, and so does SwapQueue  *)
(* between two sleeps: each of these critical sections is one action and   *)
(* the producer mutex needs no variable.  m_consumer_mtx is different: a   *)
(* worker keeps it while it sleeps in SwapQueue, so its owner is state.    *)
(*                                                                         *)
(* A worker's pc:                                                          *)
(*   "pop"     in Pop, before it owns m_consumer_mtx                       *)
(*   "swap"    owns it, found m_consumer_q empty, is in SwapQueue          *)
(*   "wait"    owns it, asleep on m_cond                                   *)
(*   "take"    owns it, m_consumer_q is not empty                          *)
(*   "run"     runs the task it took                                       *)
(*   "exited"  Pop returned false, Worker() has returned                   *)
(***************************************************************************)
EXTENDS Naturals, Sequences

CONSTANTS
    Workers,    \* m_threads
    Tasks,      \* the closures the reactor posts
    MaxPosts,   \* bound on the number of Post calls
    NoTask      \* an empty std::function

ASSUME WorkersAssumption == Workers # {}
ASSUME MaxPostsAssumption == MaxPosts \in Nat
ASSUME NoTaskAssumption == NoTask \notin Tasks

VARIABLES
    producer_q,   \* m_producer_q
    consumer_q,   \* m_consumer_q
    consumer_mtx, \* the owners of m_consumer_mtx: the empty set, or one worker
    nonblock,     \* m_nonblock; make_unique value-initialises it to false
    pc,           \* where each worker is
    task,         \* the local `task` of Worker()
    pool,         \* the owner's view: "open", "joining" (in ~ThreadPool), "destroyed"
    posted,       \* history: every task ever pushed, in order
    dispatched    \* history: every task ever handed to a worker, in order

queueVars == <<producer_q, consumer_q>>
vars == <<producer_q, consumer_q, consumer_mtx, nonblock, pc, task, pool,
          posted, dispatched>>

PCs == {"pop", "swap", "wait", "take", "run", "exited"}

Sleepers == {w \in Workers : pc[w] = "wait"}

Goto(w, l) == pc' = [pc EXCEPT ![w] = l]

Init ==
    /\ producer_q = << >>
    /\ consumer_q = << >>
    /\ consumer_mtx = {}
    /\ nonblock = FALSE
    /\ pc = [w \in Workers |-> "pop"]
    /\ task = [w \in Workers |-> NoTask]
    /\ pool = "open"
    /\ posted = << >>
    /\ dispatched = << >>

-----------------------------------------------------------------------------
(* m_cond.notify_one(): a sleeper, if there is one, goes back to test the  *)
(* predicate.  m_cond.notify_all(): every sleeper does.                    *)
NotifyOne ==
    IF Sleepers = {} THEN UNCHANGED pc ELSE \E w \in Sleepers : Goto(w, "swap")

NotifyAll ==
    pc' = [w \in Workers |-> IF pc[w] = "wait" THEN "swap" ELSE pc[w]]

(* Mutants of Push. *)
PushSilent(t) ==
    /\ producer_q' = Append(producer_q, t)
    /\ UNCHANGED pc

PushFront(t) ==
    /\ producer_q' = <<t>> \o producer_q
    /\ NotifyOne

(* BlockingQueuePro::Push *)
Push(t) ==
    /\ producer_q' = Append(producer_q, t)
    /\ NotifyOne

(* ThreadPool::Post: the reactor thread, which is also the pool's owner. *)
Post(t) ==
    /\ pool = "open"
    /\ Len(posted) < MaxPosts
    /\ Push(t)
    /\ posted' = Append(posted, t)
    /\ UNCHANGED <<consumer_q, consumer_mtx, nonblock, task, pool, dispatched>>

(* Mutant: Cancel without its notify_all. *)
CancelSilent ==
    /\ nonblock' = TRUE
    /\ UNCHANGED pc

(* BlockingQueuePro::Cancel *)
Cancel ==
    /\ nonblock' = TRUE
    /\ NotifyAll

(* ~ThreadPool: cancel the queue, then join every thread. *)
DestroyPool ==
    /\ pool = "open"
    /\ Cancel
    /\ pool' = "joining"
    /\ UNCHANGED <<queueVars, consumer_mtx, task, posted, dispatched>>

JoinAll ==
    /\ pool = "joining"
    /\ \A w \in Workers : pc[w] = "exited"
    /\ pool' = "destroyed"
    /\ UNCHANGED <<queueVars, consumer_mtx, nonblock, pc, task, posted, dispatched>>

-----------------------------------------------------------------------------
(* Mutant: Pop without the consumer lock. *)
LockConsumerUnguarded(w) ==
    /\ pc[w] = "pop"
    /\ consumer_mtx' = {w}
    /\ Goto(w, IF consumer_q = << >> THEN "swap" ELSE "take")
    /\ UNCHANGED <<queueVars, nonblock, task, pool, posted, dispatched>>

(* Pop: take m_consumer_mtx and look at m_consumer_q. *)
LockConsumer(w) ==
    /\ pc[w] = "pop"
    /\ consumer_mtx = {}
    /\ consumer_mtx' = {w}
    /\ Goto(w, IF consumer_q = << >> THEN "swap" ELSE "take")
    /\ UNCHANGED <<queueVars, nonblock, task, pool, posted, dispatched>>

(* SwapQueue: the predicate of m_cond.wait is false, so sleep; only the    *)
(* producer mutex is released.                                             *)
Sleep(w) ==
    /\ pc[w] = "swap"
    /\ producer_q = << >> /\ ~nonblock
    /\ Goto(w, "wait")
    /\ UNCHANGED <<queueVars, consumer_mtx, nonblock, task, pool, posted, dispatched>>

(* std::condition_variable::wait may return with no notification. *)
SpuriousWakeup(w) ==
    /\ pc[w] = "wait"
    /\ Goto(w, "swap")
    /\ UNCHANGED <<queueVars, consumer_mtx, nonblock, task, pool, posted, dispatched>>

(* Mutant: SwapQueue leaves as soon as the pool is cancelled, tasks or not. *)
SwapDropping(w) ==
    /\ pc[w] = "swap"
    /\ producer_q # << >> \/ nonblock
    /\ IF nonblock
       THEN /\ Goto(w, "exited") /\ consumer_mtx' = {}
            /\ UNCHANGED queueVars
       ELSE /\ Goto(w, "take") /\ UNCHANGED consumer_mtx
            /\ producer_q' = consumer_q /\ consumer_q' = producer_q
    /\ UNCHANGED <<nonblock, task, pool, posted, dispatched>>

(* SwapQueue: the predicate holds, exchange the two queues.  If nothing    *)
(* came out, Pop returns false and the worker leaves, releasing its lock.  *)
Swap(w) ==
    /\ pc[w] = "swap"
    /\ producer_q # << >> \/ nonblock
    /\ producer_q' = consumer_q
    /\ consumer_q' = producer_q
    /\ IF producer_q = << >>
       THEN Goto(w, "exited") /\ consumer_mtx' = {}
       ELSE Goto(w, "take") /\ UNCHANGED consumer_mtx
    /\ UNCHANGED <<nonblock, task, pool, posted, dispatched>>

(* Mutant: Pop reads the front and does not pop it. *)
TakeNoPop(w) ==
    /\ pc[w] = "take"
    /\ task' = [task EXCEPT ![w] = Head(consumer_q)]
    /\ dispatched' = Append(dispatched, Head(consumer_q))
    /\ consumer_mtx' = {}
    /\ Goto(w, "run")
    /\ UNCHANGED <<queueVars, nonblock, pool, posted>>

(* Pop: take the front of m_consumer_q and release m_consumer_mtx. *)
Take(w) ==
    /\ pc[w] = "take"
    /\ task' = [task EXCEPT ![w] = Head(consumer_q)]
    /\ consumer_q' = Tail(consumer_q)
    /\ dispatched' = Append(dispatched, Head(consumer_q))
    /\ consumer_mtx' = {}
    /\ Goto(w, "run")
    /\ UNCHANGED <<producer_q, nonblock, pool, posted>>

(* Worker: task() returns, the loop starts again. *)
Finish(w) ==
    /\ pc[w] = "run"
    /\ task' = [task EXCEPT ![w] = NoTask]
    /\ Goto(w, "pop")
    /\ UNCHANGED <<queueVars, consumer_mtx, nonblock, pool, posted, dispatched>>

WorkerStep(w) ==
    \/ LockConsumer(w) \/ Sleep(w) \/ Swap(w) \/ Take(w) \/ Finish(w)

Next ==
    \/ \E t \in Tasks : Post(t)
    \/ DestroyPool
    \/ JoinAll
    \/ \E w \in Workers : WorkerStep(w) \/ SpuriousWakeup(w)

(***************************************************************************)
(* Every thread that can run does run, and a task returns: process() has   *)
(* no loop that waits for anybody.  Nothing obliges the reactor to post,   *)
(* to stop, or the library to wake a sleeper spuriously.                   *)
(***************************************************************************)
Fairness ==
    /\ \A w \in Workers : WF_vars(WorkerStep(w))
    /\ WF_vars(JoinAll)

Spec == Init /\ [][Next]_vars
FairSpec == Spec /\ Fairness

-----------------------------------------------------------------------------
(* Types of the variables of the queue and of the pool. *)
TypeOK ==
    /\ producer_q \in Seq(Tasks)
    /\ consumer_q \in Seq(Tasks)
    /\ consumer_mtx \in SUBSET Workers
    /\ nonblock \in BOOLEAN
    /\ pc \in [Workers -> PCs]
    /\ task \in [Workers -> Tasks \cup {NoTask}]
    /\ pool \in {"open", "joining", "destroyed"}
    /\ posted \in Seq(Tasks)
    /\ dispatched \in Seq(Tasks)

(* Through all the swaps of the two queues, the tasks handed to workers    *)
(* followed by those still queued are exactly the tasks posted, in order:  *)
(* none is lost, run twice or overtaken (Push, SwapQueue, Pop).            *)
FifoNoLoss == posted = dispatched \o (consumer_q \o producer_q)

(* Who is inside Pop past its first line owns the consumer mutex, and      *)
(* nobody else does, also while it sleeps (Pop holds it across SwapQueue). *)
InsidePop(w) == pc[w] \in {"swap", "wait", "take"}

ConsumerLockHeld == consumer_mtx = {w \in Workers : InsidePop(w)}

(* No lost wakeup: a worker sleeps on m_cond only while it owns the        *)
(* consumer mutex alone and there is nothing at all to do, so the single   *)
(* notify_one of a Push always reaches the thread that must act.           *)
NoLostWakeup ==
    \A w \in Workers : pc[w] = "wait" =>
        /\ consumer_mtx = {w}
        /\ producer_q = << >> /\ consumer_q = << >>
        /\ ~nonblock

(* A worker leaves only after Cancel and with both queues empty, and then  *)
(* they stay empty: when ~ThreadPool returns every posted task was run     *)
(* (the comment on BlockingQueuePro::Cancel).                              *)
LeaveOnlyWhenDrained ==
    \A w \in Workers : pc[w] = "exited" =>
        nonblock /\ producer_q = << >> /\ consumer_q = << >>

DestroyedMeansDone ==
    pool = "destroyed" => dispatched = posted /\ \A w \in Workers : task[w] = NoTask

(***************************************************************************)
(* The inductive invariant.  To the properties above it adds what couples  *)
(* a worker's place in the code to the queues it has looked at: a worker   *)
(* in SwapQueue saw m_consumer_q empty and nobody can have refilled it, a  *)
(* worker about to take its front saw it non-empty and nobody can have     *)
(* drained it, because both own the consumer mutex.                        *)
(***************************************************************************)
LooksStillTrue ==
    /\ \A v, w \in consumer_mtx : v = w
    /\ \A w \in Workers : pc[w] \in {"swap", "wait"} => consumer_q = << >>
    /\ \A w \in Workers : pc[w] = "take" => consumer_q # << >>

OwnerView ==
    /\ nonblock <=> pool # "open"
    /\ pool = "destroyed" => \A w \in Workers : pc[w] = "exited"
    /\ \A w \in Workers : task[w] # NoTask <=> pc[w] = "run"

Inductive ==
    /\ TypeOK
    /\ ConsumerLockHeld
    /\ LooksStillTrue
    /\ NoLostWakeup
    /\ LeaveOnlyWhenDrained
    /\ OwnerView
    /\ FifoNoLoss

(* Every task that is posted gets dispatched, whatever happens to the pool *)
(* afterwards (Worker keeps popping until both queues are empty).          *)
EveryTaskDispatched ==
    \A n \in 1..MaxPosts : Len(posted) >= n ~> Len(dispatched) >= n

(* ~ThreadPool returns: Cancel reaches the sleeper, the workers behind it  *)
(* on the consumer mutex follow one by one.                                *)
DestructorReturns == pool = "joining" ~> pool = "destroyed"

(* The two-lock queue with its sleeping and swapping is a plain FIFO. *)
Abstract == INSTANCE TaskQueue WITH
    pending   <- consumer_q \o producer_q,
    running   <- task,
    gone      <- {w \in Workers : pc[w] = "exited"},
    cancelled <- nonblock

ImplementsTaskQueue == Abstract!Spec

=============================================================================

---------------------------- MODULE ThreadPoolProofs ----------------------------
(***************************************************************************)
(* The thread pool for every number of workers, tasks and posts: the       *)
(* inductive invariant, what follows from it, and the refinement of the    *)
(* plain FIFO of TaskQueue.                                                *)
(***************************************************************************)
EXTENDS ThreadPool, SequenceTheorems, TLAPS

-----------------------------------------------------------------------------
(* Sequences: moving an element across the seams of d \o (c \o p).         *)

(* A non-empty sequence is its head followed by its tail. *)
LEMMA HeadThenTail ==
    ASSUME NEW S, NEW c \in Seq(S), c # << >>
    PROVE  /\ Head(c) \in S /\ Tail(c) \in Seq(S)
           /\ <<Head(c)>> \o Tail(c) = c
<1>1. /\ Head(c) \in S /\ Tail(c) \in Seq(S)
      /\ Len(Tail(c)) = Len(c) - 1
      /\ \A i \in 1..Len(Tail(c)) : Tail(c)[i] = c[i+1]
  BY HeadTailProperties
<1>2. <<Head(c)>> \in Seq(S) /\ Len(<<Head(c)>>) = 1
  BY <1>1
<1>3. /\ <<Head(c)>> \o Tail(c) \in Seq(S)
      /\ Len(<<Head(c)>> \o Tail(c)) = 1 + Len(Tail(c))
      /\ \A i \in 1..(1 + Len(Tail(c))) : (<<Head(c)>> \o Tail(c))[i] =
            IF i <= 1 THEN <<Head(c)>>[i] ELSE Tail(c)[i - 1]
  BY <1>1, <1>2, ConcatProperties
<1>4. Len(c) \in Nat /\ Len(Tail(c)) \in Nat
  BY <1>1, LenProperties
<1>5. Head(c) = c[1]
  OBVIOUS
<1>6. ASSUME NEW i \in 1..Len(c)
      PROVE  (<<Head(c)>> \o Tail(c))[i] = c[i]
  <2>1. i \in 1..(1 + Len(Tail(c)))
    BY <1>1, <1>4
  <2>2. CASE i = 1
    BY <2>1, <2>2, <1>3, <1>5
  <2>3. CASE i # 1
    <3>1. i - 1 \in 1..Len(Tail(c)) /\ ~(i <= 1) /\ (i - 1) + 1 = i
      BY <2>1, <2>3, <1>4
    <3>2. (<<Head(c)>> \o Tail(c))[i] = Tail(c)[i - 1]
      BY <2>1, <3>1, <1>3
    <3>3. Tail(c)[i - 1] = c[(i - 1) + 1]
      BY <3>1, <1>1
    <3> QED
      BY <3>1, <3>2, <3>3
  <2> QED
    BY <2>2, <2>3
<1>7. Len(<<Head(c)>> \o Tail(c)) = Len(c)
  BY <1>1, <1>3, <1>4
<1> QED
  BY <1>1, <1>3, <1>6, <1>7, SeqEqual

(* Taking the front of the consumer queue moves one element across. *)
LEMMA HeadAcross ==
    ASSUME NEW S, NEW d \in Seq(S), NEW c \in Seq(S), NEW p \in Seq(S), c # << >>
    PROVE  Append(d, Head(c)) \o (Tail(c) \o p) = d \o (c \o p)
<1>1. /\ Head(c) \in S /\ Tail(c) \in Seq(S)
      /\ <<Head(c)>> \o Tail(c) = c
  BY HeadThenTail
<1>2. <<Head(c)>> \in Seq(S) /\ Tail(c) \o p \in Seq(S)
  BY <1>1, ConcatProperties
<1>3. Append(d, Head(c)) = d \o <<Head(c)>>
  BY <1>1, AppendIsConcat
<1>a. \A u, v, z \in Seq(S) : (u \o v) \o z = u \o (v \o z)
  BY ConcatAssociative, SMTT(30)
<1>4. (d \o <<Head(c)>>) \o (Tail(c) \o p) = d \o (<<Head(c)>> \o (Tail(c) \o p))
  BY <1>2, <1>a
<1>5. <<Head(c)>> \o (Tail(c) \o p) = (<<Head(c)>> \o Tail(c)) \o p
  BY <1>1, <1>2, <1>a
<1> QED
  BY <1>1, <1>3, <1>4, <1>5

(* The front of c \o p is the front of a non-empty c. *)
LEMMA HeadTailOfConcat ==
    ASSUME NEW S, NEW c \in Seq(S), NEW p \in Seq(S), c # << >>
    PROVE  /\ c \o p # << >>
           /\ Head(c \o p) = Head(c)
           /\ Tail(c \o p) = Tail(c) \o p
<1>1. /\ Head(c) \in S /\ Tail(c) \in Seq(S)
      /\ Len(Tail(c)) = Len(c) - 1
      /\ \A i \in 1..Len(Tail(c)) : Tail(c)[i] = c[i+1]
  BY HeadTailProperties
<1>2. /\ c \o p \in Seq(S)
      /\ Len(c \o p) = Len(c) + Len(p)
      /\ \A i \in 1..(Len(c) + Len(p)) :
            (c \o p)[i] = IF i <= Len(c) THEN c[i] ELSE p[i - Len(c)]
  BY ConcatProperties
<1>3. /\ Tail(c) \o p \in Seq(S)
      /\ Len(Tail(c) \o p) = Len(Tail(c)) + Len(p)
      /\ \A i \in 1..(Len(Tail(c)) + Len(p)) :
            (Tail(c) \o p)[i] = IF i <= Len(Tail(c)) THEN Tail(c)[i] ELSE p[i - Len(Tail(c))]
  BY <1>1, ConcatProperties
<1>4. Len(c) \in Nat /\ Len(c) # 0 /\ Len(p) \in Nat /\ Len(Tail(c)) \in Nat
  BY <1>1, LenProperties, EmptySeq
<1>5. c \o p # << >>
  BY <1>2, <1>4, ConcatEqualIffEmpty
<1>6. Head(c \o p) = Head(c)
  <2>1. 1 \in 1..(Len(c) + Len(p)) /\ 1 <= Len(c)
    BY <1>4
  <2>2. (c \o p)[1] = c[1]
    BY <2>1, <1>2
  <2> QED
    BY <2>2
<1>7. /\ Tail(c \o p) \in Seq(S)
      /\ Len(Tail(c \o p)) = Len(c \o p) - 1
      /\ \A i \in 1..Len(Tail(c \o p)) : Tail(c \o p)[i] = (c \o p)[i+1]
  BY <1>2, <1>5, HeadTailProperties
<1>8. Len(Tail(c \o p)) = Len(Tail(c) \o p)
  BY <1>1, <1>2, <1>3, <1>4, <1>7
<1>9. ASSUME NEW i \in 1..Len(Tail(c \o p))
      PROVE  Tail(c \o p)[i] = (Tail(c) \o p)[i]
  <2>1. /\ i \in Nat /\ i >= 1 /\ i <= Len(Tail(c)) + Len(p)
        /\ i + 1 \in 1..(Len(c) + Len(p)) /\ i \in 1..(Len(Tail(c)) + Len(p))
    BY <1>1, <1>3, <1>4, <1>8
  <2>2. Tail(c \o p)[i] = (c \o p)[i + 1]
    BY <1>7
  <2>3. CASE i <= Len(Tail(c))
    <3>1. i + 1 <= Len(c) /\ i \in 1..Len(Tail(c))
      BY <2>1, <2>3, <1>1, <1>4
    <3>2. (c \o p)[i + 1] = c[i + 1]
      BY <2>1, <3>1, <1>2
    <3>3. (Tail(c) \o p)[i] = Tail(c)[i]
      BY <2>1, <2>3, <1>3
    <3> QED
      BY <2>2, <3>1, <3>2, <3>3, <1>1
  <2>4. CASE ~(i <= Len(Tail(c)))
    <3>1. ~(i + 1 <= Len(c)) /\ (i + 1) - Len(c) = i - Len(Tail(c))
      BY <2>1, <2>4, <1>1, <1>4
    <3>2. (c \o p)[i + 1] = p[(i + 1) - Len(c)]
      BY <2>1, <3>1, <1>2
    <3>3. (Tail(c) \o p)[i] = p[i - Len(Tail(c))]
      BY <2>1, <2>4, <1>3
    <3> QED
      BY <2>2, <3>1, <3>2, <3>3
  <2> QED
    BY <2>3, <2>4
<1>10. Tail(c \o p) = Tail(c) \o p
  BY <1>3, <1>7, <1>8, <1>9, SeqEqual
<1> QED
  BY <1>5, <1>6, <1>10

-----------------------------------------------------------------------------
(* The inductive invariant.                                                *)

(* A pool that was just created satisfies it. *)
LEMMA InitInductive == Init => Inductive
<1> SUFFICES ASSUME Init PROVE Inductive
  OBVIOUS
<1>1. TypeOK
  <2>1. << >> \in Seq(Tasks)
    BY EmptySeq
  <2> QED
    BY <2>1 DEF Init, TypeOK, PCs
<1>2. ConsumerLockHeld /\ LooksStillTrue /\ NoLostWakeup /\ LeaveOnlyWhenDrained
  BY DEF Init, ConsumerLockHeld, InsidePop, LooksStillTrue, NoLostWakeup, LeaveOnlyWhenDrained
<1>3. OwnerView
  BY DEF Init, OwnerView
<1>4. FifoNoLoss
  BY DEF Init, FifoNoLoss
<1> QED
  BY <1>1, <1>2, <1>3, <1>4 DEF Inductive

(* Posting: the one notify_one either finds nobody asleep or wakes the only sleeper. *)
LEMMA PostPreserves ==
    ASSUME Inductive, NEW t \in Tasks, Post(t)
    PROVE  Inductive'
<1>a. NoTask \notin Tasks
  BY NoTaskAssumption
<1>b. /\ producer_q \in Seq(Tasks) /\ consumer_q \in Seq(Tasks)
      /\ posted \in Seq(Tasks) /\ dispatched \in Seq(Tasks)
      /\ pc \in [Workers -> PCs]
  BY DEF Inductive, TypeOK
<1>c. /\ producer_q' = Append(producer_q, t) /\ posted' = Append(posted, t)
      /\ consumer_q' = consumer_q /\ consumer_mtx' = consumer_mtx
      /\ nonblock' = nonblock /\ task' = task /\ pool' = pool
      /\ dispatched' = dispatched /\ pool = "open"
      /\ NotifyOne
  BY DEF Post, Push
<1>d. \A w \in Workers : pc[w] = "wait" => consumer_mtx = {w}
  BY DEF Inductive, NoLostWakeup
<1>e. pc' = [w \in Workers |-> IF pc[w] = "wait" THEN "swap" ELSE pc[w]]
  <2>1. CASE Sleepers = {}
    BY <2>1, <1>b, <1>c DEF NotifyOne, Sleepers
  <2>2. CASE Sleepers # {}
    <3>1. PICK w \in Workers : pc[w] = "wait" /\ pc' = [pc EXCEPT ![w] = "swap"]
      BY <2>2, <1>c DEF NotifyOne, Sleepers, Goto
    <3>2. \A v \in Workers : pc[v] = "wait" => v = w
      BY <3>1, <1>d
    <3> QED
      BY <3>1, <3>2, <1>b
  <2> QED
    BY <2>1, <2>2
<1>f. ~nonblock /\ \A w \in Workers : pc[w] # "exited"
  BY <1>c DEF Inductive, OwnerView, LeaveOnlyWhenDrained
<1>1. TypeOK'
  BY <1>b, <1>c, <1>e DEF Inductive, TypeOK, PCs
<1>2. ConsumerLockHeld'
  BY <1>c, <1>e DEF Inductive, ConsumerLockHeld, InsidePop
<1>3. LooksStillTrue'
  BY <1>c, <1>e DEF Inductive, LooksStillTrue
<1>4. NoLostWakeup'
  BY <1>e DEF NoLostWakeup
<1>5. LeaveOnlyWhenDrained'
  BY <1>e, <1>f DEF LeaveOnlyWhenDrained
<1>6. OwnerView'
  BY <1>c, <1>e DEF Inductive, OwnerView
<1>7. FifoNoLoss'
  <2> DEFINE u == <<t>>
             cp == consumer_q \o producer_q
  <2>0. /\ producer_q \in Seq(Tasks) /\ consumer_q \in Seq(Tasks)
        /\ dispatched \in Seq(Tasks) /\ posted \in Seq(Tasks)
    BY <1>b
  <2>1. u \in Seq(Tasks) /\ t \in Tasks /\ cp \in Seq(Tasks)
    BY <2>0, ConcatProperties
  <2>2. posted' = posted \o u /\ producer_q' = producer_q \o u
    BY <2>0, <1>c, <2>1, AppendIsConcat
  <2>3. posted = dispatched \o cp
    BY DEF Inductive, FifoNoLoss
  <2> HIDE DEF u
  <2>4. cp \o u = consumer_q \o (producer_q \o u)
    BY <2>0, <2>1, ConcatAssociative, SMTT(30)
  <2>5. (dispatched \o cp) \o u = dispatched \o (cp \o u)
    <3> HIDE DEF cp
    <3> QED
      BY <2>0, <2>1, ConcatAssociative, SMTT(30)
  <2> QED
    BY <1>c, <2>2, <2>3, <2>4, <2>5 DEF FifoNoLoss
<1> QED
  BY <1>1, <1>2, <1>3, <1>4, <1>5, <1>6, <1>7 DEF Inductive

(* ~ThreadPool: Cancel wakes whoever sleeps, so nobody sleeps on a cancelled queue. *)
LEMMA DestroyPreserves ==
    ASSUME Inductive, DestroyPool
    PROVE  Inductive'
<1>c. /\ UNCHANGED <<producer_q, consumer_q, consumer_mtx, task, posted, dispatched>>
      /\ nonblock' = TRUE /\ pool = "open" /\ pool' = "joining"
      /\ pc' = [w \in Workers |-> IF pc[w] = "wait" THEN "swap" ELSE pc[w]]
  BY DEF DestroyPool, Cancel, NotifyAll, queueVars
<1>f. \A w \in Workers : pc[w] # "exited"
  BY <1>c DEF Inductive, OwnerView, LeaveOnlyWhenDrained
<1>1. TypeOK'
  BY <1>c DEF Inductive, TypeOK, PCs
<1>2. ConsumerLockHeld' /\ LooksStillTrue'
  BY <1>c DEF Inductive, ConsumerLockHeld, InsidePop, LooksStillTrue
<1>3. NoLostWakeup' /\ LeaveOnlyWhenDrained'
  BY <1>c, <1>f DEF NoLostWakeup, LeaveOnlyWhenDrained
<1>4. OwnerView'
  BY <1>c DEF Inductive, OwnerView
<1>5. FifoNoLoss'
  BY <1>c DEF Inductive, FifoNoLoss
<1> QED
  BY <1>1, <1>2, <1>3, <1>4, <1>5 DEF Inductive

LEMMA JoinPreserves ==
    ASSUME Inductive, JoinAll
    PROVE  Inductive'
<1>c. /\ UNCHANGED <<producer_q, consumer_q, consumer_mtx, nonblock, pc, task, posted, dispatched>>
      /\ pool = "joining" /\ pool' = "destroyed"
      /\ \A w \in Workers : pc[w] = "exited"
  BY DEF JoinAll, queueVars
<1>1. TypeOK' /\ FifoNoLoss'
  BY <1>c DEF Inductive, TypeOK, FifoNoLoss
<1>2. ConsumerLockHeld' /\ LooksStillTrue' /\ NoLostWakeup' /\ LeaveOnlyWhenDrained'
  BY <1>c DEF Inductive, ConsumerLockHeld, InsidePop, LooksStillTrue, NoLostWakeup, LeaveOnlyWhenDrained
<1>3. OwnerView'
  BY <1>c DEF Inductive, OwnerView
<1> QED
  BY <1>1, <1>2, <1>3 DEF Inductive

(* A worker that enters Pop: what it sees of m_consumer_q is what it now owns. *)
LEMMA LockPreserves ==
    ASSUME Inductive, NEW w \in Workers, LockConsumer(w)
    PROVE  Inductive'
<1>c. /\ UNCHANGED <<producer_q, consumer_q, nonblock, task, pool, posted, dispatched>>
      /\ pc[w] = "pop" /\ consumer_mtx = {} /\ consumer_mtx' = {w}
      /\ pc' = [pc EXCEPT ![w] = IF consumer_q = << >> THEN "swap" ELSE "take"]
  BY DEF LockConsumer, Goto, queueVars
<1>t. pc \in [Workers -> PCs]
  BY DEF Inductive, TypeOK
<1>n. \A v \in Workers : pc[v] \notin {"swap", "wait", "take"}
  BY <1>c DEF Inductive, ConsumerLockHeld, InsidePop
<1>1. TypeOK' /\ FifoNoLoss'
  BY <1>c, <1>t DEF Inductive, TypeOK, FifoNoLoss, PCs
<1>2. ConsumerLockHeld'
  BY <1>c, <1>t, <1>n DEF ConsumerLockHeld, InsidePop
<1>3. LooksStillTrue'
  BY <1>c, <1>t, <1>n DEF LooksStillTrue
<1>4. NoLostWakeup' /\ LeaveOnlyWhenDrained'
  BY <1>c, <1>t, <1>n DEF Inductive, NoLostWakeup, LeaveOnlyWhenDrained
<1>5. OwnerView'
  BY <1>c, <1>t DEF Inductive, OwnerView
<1> QED
  BY <1>1, <1>2, <1>3, <1>4, <1>5 DEF Inductive

(* Falling asleep: the predicate was just seen false under the producer lock. *)
LEMMA SleepPreserves ==
    ASSUME Inductive, NEW w \in Workers, Sleep(w)
    PROVE  Inductive'
<1>c. /\ UNCHANGED <<producer_q, consumer_q, consumer_mtx, nonblock, task, pool, posted, dispatched>>
      /\ pc[w] = "swap" /\ producer_q = << >> /\ ~nonblock
      /\ pc' = [pc EXCEPT ![w] = "wait"]
  BY DEF Sleep, Goto, queueVars
<1>t. pc \in [Workers -> PCs]
  BY DEF Inductive, TypeOK
<1>m. consumer_mtx = {w} /\ consumer_q = << >>
  BY <1>c DEF Inductive, ConsumerLockHeld, InsidePop, LooksStillTrue
<1>1. TypeOK' /\ FifoNoLoss'
  BY <1>c, <1>t DEF Inductive, TypeOK, FifoNoLoss, PCs
<1>2. ConsumerLockHeld'
  BY <1>c, <1>t DEF Inductive, ConsumerLockHeld, InsidePop
<1>3. LooksStillTrue'
  BY <1>c, <1>t, <1>m DEF Inductive, LooksStillTrue
<1>4. NoLostWakeup' /\ LeaveOnlyWhenDrained'
  BY <1>c, <1>t, <1>m DEF Inductive, NoLostWakeup, LeaveOnlyWhenDrained
<1>5. OwnerView'
  BY <1>c, <1>t DEF Inductive, OwnerView
<1> QED
  BY <1>1, <1>2, <1>3, <1>4, <1>5 DEF Inductive

LEMMA WakeupPreserves ==
    ASSUME Inductive, NEW w \in Workers, SpuriousWakeup(w)
    PROVE  Inductive'
<1>c. /\ UNCHANGED <<producer_q, consumer_q, consumer_mtx, nonblock, task, pool, posted, dispatched>>
      /\ pc[w] = "wait"
      /\ pc' = [pc EXCEPT ![w] = "swap"]
  BY DEF SpuriousWakeup, Goto, queueVars
<1>t. pc \in [Workers -> PCs]
  BY DEF Inductive, TypeOK
<1>1. TypeOK' /\ FifoNoLoss'
  BY <1>c, <1>t DEF Inductive, TypeOK, FifoNoLoss, PCs
<1>2. ConsumerLockHeld' /\ LooksStillTrue'
  BY <1>c, <1>t DEF Inductive, ConsumerLockHeld, InsidePop, LooksStillTrue
<1>3. NoLostWakeup' /\ LeaveOnlyWhenDrained'
  BY <1>c, <1>t DEF Inductive, NoLostWakeup, LeaveOnlyWhenDrained
<1>4. OwnerView'
  BY <1>c, <1>t DEF Inductive, OwnerView
<1> QED
  BY <1>1, <1>2, <1>3, <1>4 DEF Inductive

(* The swap: m_consumer_q is empty, so exchanging the two keeps the order of the whole. *)
LEMMA SwapPreserves ==
    ASSUME Inductive, NEW w \in Workers, Swap(w)
    PROVE  Inductive'
<1>c. /\ UNCHANGED <<nonblock, task, pool, posted, dispatched>>
      /\ pc[w] = "swap" /\ (producer_q # << >> \/ nonblock)
      /\ producer_q' = consumer_q /\ consumer_q' = producer_q
  BY DEF Swap
<1>t. /\ pc \in [Workers -> PCs]
      /\ producer_q \in Seq(Tasks) /\ consumer_q \in Seq(Tasks) /\ dispatched \in Seq(Tasks)
  BY DEF Inductive, TypeOK
<1>m. consumer_mtx = {w} /\ consumer_q = << >>
  BY <1>c DEF Inductive, ConsumerLockHeld, InsidePop, LooksStillTrue
<1>n. \A v \in Workers : v # w => pc[v] \notin {"swap", "wait", "take"}
  BY <1>m DEF Inductive, ConsumerLockHeld, InsidePop
<1>7. FifoNoLoss'
  <2>1. producer_q \o << >> = producer_q /\ << >> \o producer_q = producer_q
    BY <1>t, ConcatEmptySeq
  <2> QED
    BY <2>1, <1>c, <1>m DEF Inductive, FifoNoLoss
<1>1. CASE producer_q = << >>
  <2>c. consumer_mtx' = {} /\ pc' = [pc EXCEPT ![w] = "exited"] /\ nonblock
    BY <1>1, <1>c DEF Swap, Goto
  <2>1. TypeOK'
    BY <2>c, <1>c, <1>t DEF Inductive, TypeOK, PCs
  <2>2. ConsumerLockHeld'
    BY <2>c, <1>n, <1>t DEF ConsumerLockHeld, InsidePop
  <2>3. LooksStillTrue'
    BY <2>c, <1>1, <1>c, <1>n, <1>t DEF LooksStillTrue
  <2>4. NoLostWakeup' /\ LeaveOnlyWhenDrained'
    BY <2>c, <1>1, <1>c, <1>m, <1>n, <1>t DEF NoLostWakeup, LeaveOnlyWhenDrained
  <2>5. OwnerView'
    BY <2>c, <1>c, <1>t DEF Inductive, OwnerView
  <2> QED
    BY <2>1, <2>2, <2>3, <2>4, <2>5, <1>7 DEF Inductive
<1>2. CASE producer_q # << >>
  <2>c. consumer_mtx' = consumer_mtx /\ pc' = [pc EXCEPT ![w] = "take"]
    BY <1>2, <1>c DEF Swap, Goto
  <2>e. \A v \in Workers : pc[v] # "exited"
    BY <1>2 DEF Inductive, LeaveOnlyWhenDrained
  <2>1. TypeOK'
    BY <2>c, <1>c, <1>t DEF Inductive, TypeOK, PCs
  <2>2. ConsumerLockHeld'
    BY <2>c, <1>m, <1>n, <1>t DEF ConsumerLockHeld, InsidePop
  <2>3. LooksStillTrue'
    BY <2>c, <1>2, <1>c, <1>m, <1>n, <1>t DEF LooksStillTrue
  <2>4. NoLostWakeup' /\ LeaveOnlyWhenDrained'
    BY <2>c, <2>e, <1>n, <1>t DEF NoLostWakeup, LeaveOnlyWhenDrained
  <2>5. OwnerView'
    BY <2>c, <1>c, <1>t DEF Inductive, OwnerView
  <2> QED
    BY <2>1, <2>2, <2>3, <2>4, <2>5, <1>7 DEF Inductive
<1> QED
  BY <1>1, <1>2

(* Taking the front: the front is there because the taker owns the lock. *)
LEMMA TakePreserves ==
    ASSUME Inductive, NEW w \in Workers, Take(w)
    PROVE  Inductive'
<1>c. /\ UNCHANGED <<producer_q, nonblock, pool, posted>>
      /\ pc[w] = "take" /\ pc' = [pc EXCEPT ![w] = "run"]
      /\ task' = [task EXCEPT ![w] = Head(consumer_q)]
      /\ consumer_q' = Tail(consumer_q)
      /\ dispatched' = Append(dispatched, Head(consumer_q))
      /\ consumer_mtx' = {}
  BY DEF Take, Goto
<1>t. /\ pc \in [Workers -> PCs] /\ task \in [Workers -> Tasks \cup {NoTask}]
      /\ producer_q \in Seq(Tasks) /\ consumer_q \in Seq(Tasks) /\ dispatched \in Seq(Tasks)
  BY DEF Inductive, TypeOK
<1>m. consumer_mtx = {w} /\ consumer_q # << >>
  BY <1>c DEF Inductive, ConsumerLockHeld, InsidePop, LooksStillTrue
<1>n. \A v \in Workers : v # w => pc[v] \notin {"swap", "wait", "take"}
  BY <1>m DEF Inductive, ConsumerLockHeld, InsidePop
<1>h. Head(consumer_q) \in Tasks /\ Tail(consumer_q) \in Seq(Tasks) /\ Head(consumer_q) # NoTask
  BY <1>t, <1>m, HeadThenTail, NoTaskAssumption
<1>e. \A v \in Workers : pc[v] # "exited"
  BY <1>m DEF Inductive, LeaveOnlyWhenDrained
<1>1. TypeOK'
  BY <1>c, <1>t, <1>h DEF Inductive, TypeOK, PCs
<1>2. ConsumerLockHeld'
  BY <1>c, <1>t, <1>n DEF ConsumerLockHeld, InsidePop
<1>3. LooksStillTrue'
  BY <1>c, <1>t, <1>n DEF LooksStillTrue
<1>4. NoLostWakeup' /\ LeaveOnlyWhenDrained'
  BY <1>c, <1>t, <1>n, <1>e DEF NoLostWakeup, LeaveOnlyWhenDrained
<1>5. OwnerView'
  BY <1>c, <1>t, <1>h, <1>e DEF Inductive, OwnerView
<1>6. FifoNoLoss'
  <2>1. Append(dispatched, Head(consumer_q)) \o (Tail(consumer_q) \o producer_q)
           = dispatched \o (consumer_q \o producer_q)
    BY <1>t, <1>m, HeadAcross, SMTT(30)
  <2> QED
    BY <2>1, <1>c, ZenonT(60) DEF Inductive, FifoNoLoss
<1> QED
  BY <1>1, <1>2, <1>3, <1>4, <1>5, <1>6 DEF Inductive

LEMMA FinishPreserves ==
    ASSUME Inductive, NEW w \in Workers, Finish(w)
    PROVE  Inductive'
<1>c. /\ UNCHANGED <<producer_q, consumer_q, consumer_mtx, nonblock, pool, posted, dispatched>>
      /\ pc[w] = "run" /\ pc' = [pc EXCEPT ![w] = "pop"]
      /\ task' = [task EXCEPT ![w] = NoTask]
  BY DEF Finish, Goto, queueVars
<1>t. pc \in [Workers -> PCs] /\ task \in [Workers -> Tasks \cup {NoTask}]
  BY DEF Inductive, TypeOK
<1>1. TypeOK' /\ FifoNoLoss'
  BY <1>c, <1>t DEF Inductive, TypeOK, FifoNoLoss, PCs
<1>2. ConsumerLockHeld' /\ LooksStillTrue'
  BY <1>c, <1>t DEF Inductive, ConsumerLockHeld, InsidePop, LooksStillTrue
<1>3. NoLostWakeup' /\ LeaveOnlyWhenDrained'
  BY <1>c, <1>t DEF Inductive, NoLostWakeup, LeaveOnlyWhenDrained
<1>4. OwnerView'
  BY <1>c, <1>t DEF Inductive, OwnerView
<1> QED
  BY <1>1, <1>2, <1>3, <1>4 DEF Inductive

LEMMA StutterPreserves ==
    ASSUME Inductive, UNCHANGED vars
    PROVE  Inductive'
BY DEF Inductive, vars, TypeOK, FifoNoLoss, ConsumerLockHeld, InsidePop, LooksStillTrue,
       NoLostWakeup, LeaveOnlyWhenDrained, OwnerView

(***************************************************************************)
(* The invariant of the pool, for any number of workers, tasks and posts.  *)
(***************************************************************************)
THEOREM PoolInvariant == Spec => []Inductive
<1>1. Init => Inductive
  BY InitInductive
<1>2. Inductive /\ [Next]_vars => Inductive'
  <2> SUFFICES ASSUME Inductive, [Next]_vars PROVE Inductive'
    OBVIOUS
  <2>1. ASSUME NEW t \in Tasks, Post(t) PROVE Inductive'
    BY <2>1, PostPreserves
  <2>2. CASE DestroyPool
    BY <2>2, DestroyPreserves
  <2>3. CASE JoinAll
    BY <2>3, JoinPreserves
  <2>4. ASSUME NEW w \in Workers, WorkerStep(w) PROVE Inductive'
    <3>1. CASE LockConsumer(w)
      BY <3>1, LockPreserves
    <3>2. CASE Sleep(w)
      BY <3>2, SleepPreserves
    <3>3. CASE Swap(w)
      BY <3>3, SwapPreserves
    <3>4. CASE Take(w)
      BY <3>4, TakePreserves
    <3>5. CASE Finish(w)
      BY <3>5, FinishPreserves
    <3> QED
      BY <2>4, <3>1, <3>2, <3>3, <3>4, <3>5 DEF WorkerStep
  <2>5. ASSUME NEW w \in Workers, SpuriousWakeup(w) PROVE Inductive'
    BY <2>5, WakeupPreserves
  <2>6. CASE UNCHANGED vars
    BY <2>6, StutterPreserves
  <2> QED
    BY <2>1, <2>2, <2>3, <2>4, <2>5, <2>6 DEF Next
<1> QED
  BY <1>1, <1>2, PTL DEF Spec

-----------------------------------------------------------------------------
(* What the invariant gives.                                               *)

(* The variables of the queue and of the pool keep their types. *)
THEOREM PoolTypes == Spec => []TypeOK
<1>1. Inductive => TypeOK
  BY DEF Inductive
<1> QED
  BY <1>1, PoolInvariant, PTL

(* No posted task is lost, duplicated or overtaken by Push, SwapQueue and Pop. *)
THEOREM PoolIsFifo == Spec => []FifoNoLoss
<1>1. Inductive => FifoNoLoss
  BY DEF Inductive
<1> QED
  BY <1>1, PoolInvariant, PTL

(* One notify_one per Push is enough: whoever sleeps in SwapQueue sleeps alone *)
(* and has nothing to do.                                                      *)
THEOREM PoolLosesNoWakeup == Spec => []NoLostWakeup
<1>1. Inductive => NoLostWakeup
  BY DEF Inductive
<1> QED
  BY <1>1, PoolInvariant, PTL

(* A worker only leaves a cancelled pool in which nothing is left to run. *)
THEOREM PoolDrainsBeforeLeaving == Spec => []LeaveOnlyWhenDrained
<1>1. Inductive => LeaveOnlyWhenDrained
  BY DEF Inductive
<1> QED
  BY <1>1, PoolInvariant, PTL

(* When ~ThreadPool has returned, every task ever posted was run to its end.   *)
(* It takes at least one thread: with none, the tasks would stay in the queue. *)
THEOREM PoolDestructorDrains == Spec => []DestroyedMeansDone
<1>1. Inductive => DestroyedMeansDone
  <2> SUFFICES ASSUME Inductive, pool = "destroyed"
               PROVE  dispatched = posted /\ \A w \in Workers : task[w] = NoTask
    BY DEF DestroyedMeansDone
  <2>1. \A w \in Workers : pc[w] = "exited"
    BY DEF Inductive, OwnerView
  <2>2. PICK w \in Workers : pc[w] = "exited"
    BY <2>1, WorkersAssumption
  <2>3. producer_q = << >> /\ consumer_q = << >>
    BY <2>2 DEF Inductive, LeaveOnlyWhenDrained
  <2>4. dispatched \in Seq(Tasks) /\ << >> \in Seq(Tasks)
    BY EmptySeq DEF Inductive, TypeOK
  <2>5. << >> \o << >> = << >> /\ dispatched \o << >> = dispatched
    BY <2>4, ConcatEmptySeq
  <2>6. dispatched = posted
    BY <2>3, <2>5 DEF Inductive, FifoNoLoss
  <2>7. \A v \in Workers : task[v] = NoTask
    BY <2>1 DEF Inductive, OwnerView
  <2> QED
    BY <2>6, <2>7
<1> QED
  BY <1>1, PoolInvariant, PTL

-----------------------------------------------------------------------------
(* The two-lock queue implements the plain FIFO of TaskQueue.              *)

Pending == consumer_q \o producer_q
Gone == {w \in Workers : pc[w] = "exited"}

(* The initial states map to initial states. *)
LEMMA InitRefines == Init => Abstract!Init
<1> SUFFICES ASSUME Init PROVE Abstract!Init
  OBVIOUS
<1>1. << >> \in Seq(Tasks)
  BY EmptySeq
<1>2. << >> \o << >> = << >>
  BY <1>1, ConcatEmptySeq
<1>3. Pending = << >> /\ Gone = {}
  BY <1>2 DEF Init, Pending, Gone
<1> QED
  BY <1>3 DEF Init, Abstract!Init, Pending, Gone

(* A step that changes neither the pending tasks, nor the running ones, nor  *)
(* who has left, is a stutter of the FIFO.                                   *)
LEMMA Stutters ==
    ASSUME Pending' = Pending, task' = task, Gone' = Gone, nonblock' = nonblock
    PROVE  UNCHANGED Abstract!vars
BY DEF Abstract!vars, Pending, Gone

LEMMA PostRefines ==
    ASSUME Inductive, NEW t \in Tasks, Post(t)
    PROVE  Abstract!Post(t)
<1> DEFINE u == <<t>>
<1>1. /\ producer_q \in Seq(Tasks) /\ consumer_q \in Seq(Tasks) /\ posted \in Seq(Tasks)
      /\ u \in Seq(Tasks) /\ t \in Tasks
  BY DEF Inductive, TypeOK
<1>2. /\ producer_q' = Append(producer_q, t)
      /\ consumer_q' = consumer_q /\ task' = task /\ nonblock' = nonblock
      /\ NotifyOne
      /\ ~nonblock
  BY DEF Post, Push, Inductive, OwnerView
<1>3. Pending \in Seq(Tasks)
  BY <1>1, ConcatProperties DEF Pending
<1>4. producer_q' = producer_q \o u /\ Append(Pending, t) = Pending \o u
  BY <1>1, <1>2, <1>3, AppendIsConcat
<1>5. Pending' = Append(Pending, t)
  <2> HIDE DEF u
  <2>1. Pending \o u = consumer_q \o (producer_q \o u)
    BY <1>1, ConcatAssociative, SMTT(30) DEF Pending
  <2> QED
    BY <1>2, <1>4, <2>1 DEF Pending
<1>6. Gone' = Gone
  <2>1. pc \in [Workers -> PCs]
    BY DEF Inductive, TypeOK
  <2>2. CASE Sleepers = {}
    BY <2>2, <1>2 DEF NotifyOne, Gone
  <2>3. CASE Sleepers # {}
    BY <2>1, <2>3, <1>2 DEF NotifyOne, Gone, Sleepers, Goto
  <2> QED
    BY <2>2, <2>3
<1> QED
  BY <1>2, <1>5, <1>6 DEF Abstract!Post, Pending, Gone

LEMMA DestroyRefines ==
    ASSUME Inductive, DestroyPool
    PROVE  Abstract!Cancel
<1>1. ~nonblock /\ nonblock' = TRUE
  BY DEF DestroyPool, Cancel, Inductive, OwnerView
<1>2. Gone' = Gone
  BY DEF DestroyPool, Cancel, NotifyAll, Gone
<1>3. Pending' = Pending /\ task' = task
  BY DEF DestroyPool, queueVars, Pending
<1> QED
  BY <1>1, <1>2, <1>3 DEF Abstract!Cancel, Pending, Gone

(* SwapQueue moves nothing across the concatenation of an empty m_consumer_q *)
(* and m_producer_q; if both are empty the worker leaves.                    *)
LEMMA SwapRefines ==
    ASSUME Inductive, NEW w \in Workers, Swap(w)
    PROVE  Abstract!Leave(w) \/ UNCHANGED Abstract!vars
<1>1. /\ producer_q \in Seq(Tasks) /\ pc \in [Workers -> PCs]
      /\ consumer_q = << >> /\ task[w] = NoTask
  BY DEF Inductive, TypeOK, OwnerView, LooksStillTrue, Swap
<1>2. /\ pc[w] = "swap" /\ producer_q' = consumer_q /\ consumer_q' = producer_q
      /\ task' = task /\ nonblock' = nonblock
      /\ (producer_q # << >> \/ nonblock)
  BY DEF Swap
<1>3. Pending = producer_q /\ Pending' = producer_q
  BY <1>1, <1>2, ConcatEmptySeq DEF Pending
<1>4. CASE producer_q = << >>
  <2>1. Gone' = Gone \cup {w}
    BY <1>1, <1>4 DEF Swap, Goto, Gone
  <2> QED
    BY <1>1, <1>2, <1>3, <1>4, <2>1 DEF Abstract!Leave, Pending, Gone
<1>5. CASE producer_q # << >>
  <2>1. Gone' = Gone
    BY <1>1, <1>2, <1>5 DEF Swap, Goto, Gone
  <2> QED
    BY <1>2, <1>3, <2>1, Stutters
<1> QED
  BY <1>4, <1>5

LEMMA TakeRefines ==
    ASSUME Inductive, NEW w \in Workers, Take(w)
    PROVE  Abstract!Dispatch(w)
<1>1. /\ producer_q \in Seq(Tasks) /\ consumer_q \in Seq(Tasks) /\ pc \in [Workers -> PCs]
      /\ consumer_q # << >> /\ task[w] = NoTask /\ pc[w] = "take"
  BY DEF Inductive, TypeOK, OwnerView, LooksStillTrue, Take
<1>2. Pending # << >> /\ Head(Pending) = Head(consumer_q)
      /\ Tail(Pending) = Tail(consumer_q) \o producer_q
  BY <1>1, HeadTailOfConcat DEF Pending
<1>3. /\ task' = [task EXCEPT ![w] = Head(consumer_q)]
      /\ Pending' = Tail(consumer_q) \o producer_q
      /\ nonblock' = nonblock
  BY DEF Take, Pending
<1>4. Gone' = Gone /\ w \notin Gone
  BY <1>1 DEF Take, Goto, Gone
<1> QED
  BY <1>1, <1>2, <1>3, <1>4 DEF Abstract!Dispatch, Pending, Gone

LEMMA FinishRefines ==
    ASSUME Inductive, NEW w \in Workers, Finish(w)
    PROVE  Abstract!Finish(w)
<1>1. task[w] # NoTask /\ pc[w] = "run" /\ pc \in [Workers -> PCs]
  BY DEF Inductive, TypeOK, OwnerView, Finish
<1>2. Gone' = Gone
  BY <1>1 DEF Finish, Goto, Gone
<1>3. /\ Pending' = Pending /\ task' = [task EXCEPT ![w] = NoTask]
      /\ nonblock' = nonblock
  BY DEF Finish, queueVars, Pending
<1> QED
  BY <1>1, <1>2, <1>3 DEF Abstract!Finish, Pending, Gone

(* Locking, sleeping, waking and joining are invisible to the poster. *)
LEMMA QuietStepsStutter ==
    ASSUME Inductive,
           \/ \E w \in Workers : LockConsumer(w) \/ Sleep(w) \/ SpuriousWakeup(w)
           \/ JoinAll
           \/ UNCHANGED vars
    PROVE  UNCHANGED Abstract!vars
<1>1. pc \in [Workers -> PCs]
  BY DEF Inductive, TypeOK
<1>2. /\ consumer_q' = consumer_q /\ producer_q' = producer_q /\ task' = task
      /\ nonblock' = nonblock
  BY DEF LockConsumer, Sleep, SpuriousWakeup, JoinAll, vars, queueVars
<1>3. Gone' = Gone
  BY <1>1 DEF LockConsumer, Sleep, SpuriousWakeup, JoinAll, vars, Goto, Gone
<1> QED
  BY <1>2, <1>3, Stutters DEF Pending

(***************************************************************************)
(* Every behaviour of the pool is a behaviour of the plain FIFO.           *)
(***************************************************************************)
THEOREM PoolImplementsTaskQueue == Spec => ImplementsTaskQueue
<1>1. Init => Abstract!Init
  BY InitRefines
<1>2. Inductive /\ [Next]_vars => [Abstract!Next]_(Abstract!vars)
  <2> SUFFICES ASSUME Inductive, [Next]_vars
               PROVE  Abstract!Next \/ UNCHANGED Abstract!vars
    OBVIOUS
  <2>1. ASSUME NEW t \in Tasks, Post(t) PROVE Abstract!Next
    BY <2>1, PostRefines DEF Abstract!Next
  <2>2. CASE DestroyPool
    BY <2>2, DestroyRefines DEF Abstract!Next
  <2>3. ASSUME NEW w \in Workers, Swap(w) PROVE Abstract!Next \/ UNCHANGED Abstract!vars
    BY <2>3, SwapRefines DEF Abstract!Next
  <2>4. ASSUME NEW w \in Workers, Take(w) PROVE Abstract!Next
    BY <2>4, TakeRefines DEF Abstract!Next
  <2>5. ASSUME NEW w \in Workers, Finish(w) PROVE Abstract!Next
    BY <2>5, FinishRefines DEF Abstract!Next
  <2>6. CASE \/ \E w \in Workers : LockConsumer(w) \/ Sleep(w) \/ SpuriousWakeup(w)
             \/ JoinAll
             \/ UNCHANGED vars
    BY <2>6, QuietStepsStutter
  <2> QED
    BY <2>1, <2>2, <2>3, <2>4, <2>5, <2>6 DEF Next, WorkerStep
<1> QED
  BY <1>1, <1>2, PoolInvariant, PTL DEF Spec, ImplementsTaskQueue, Abstract!Spec

=============================================================================

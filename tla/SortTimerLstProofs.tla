-------------------------- MODULE SortTimerLstProofs --------------------------
(***************************************************************************)
(* Proofs about the timer list, for every set of timers, every timeout and *)
(* every way the clock moves.  addTimer and adjustTimer walk the list with *)
(* a recursive function, which the provers see as a CHOOSE; what the walk  *)
(* finds is proved once (PlaceFound), from the thread of the list.         *)
(***************************************************************************)
EXTENDS SortTimerLst, FiniteSetTheorems, WellFoundedInduction, TLAPS

(* A walk stops at the first node of a set: a set of numbers that is not   *)
(* empty has a least one.                                                  *)
LEMMA LeastExists ==
    ASSUME NEW S \in SUBSET Nat, S # {}
    PROVE  \E i \in S : \A j \in S : i <= j
<1>1. \E R : /\ IsWellFoundedOn(R, Nat)
             /\ \A p \in Nat \X Nat : p[1] < p[2] => p \in R
    BY NatLessThanWellFounded, Zenon DEF OpToRel
<1>2. PICK R : /\ IsWellFoundedOn(R, Nat)
               /\ \A p \in Nat \X Nat : p[1] < p[2] => p \in R
    BY <1>1
<1>3. PICK i \in S : \A j \in S : <<j, i>> \notin R
    BY <1>2, WFMin
<1>4. \A j \in S : ~(j < i)
    BY <1>2, <1>3
<1> QED
    BY <1>3, <1>4

(* No more nodes than timers. *)
LEMMA ThreadIsShort ==
    ASSUME NEW n \in Nat, NEW s \in [1..n -> Timers],
           \A i, j \in 1..n : s[i] = s[j] => i = j
    PROVE  n \in 0..Cardinality(Timers)
<1>1. s \in Injection(1..n, Timers)
    BY DEF Injection, IsInjective
<1>2. Cardinality(1..n) = n /\ Cardinality(1..n) <= Cardinality(Timers)
    BY <1>1, TimersAssumption, FS_Injection, FS_Interval
<1>3. Cardinality(Timers) \in Nat
    BY TimersAssumption, FS_CardinalityType
<1> QED
    BY <1>2, <1>3

-----------------------------------------------------------------------------
(* All that a walk can meet: a thread, and nodes that lead nowhere. *)
Walkable(n, s, nodes, first, nx, pv) ==
    /\ n \in Nat
    /\ nodes \subseteq Timers
    /\ Threaded(n, s, nodes, first, nx, pv)
    /\ nx \in [Timers -> Timers \cup {NULL}]
    /\ \A t \in Timers : t \notin nodes => nx[t] = NULL

StartsAt(p, k, n, s) == k \in 1..n /\ p = s[k]

(* The walk of addTimer(timer, head) from a node of a thread ends at the   *)
(* first node, from there on, that is the last or has a later successor.   *)
LEMMA PlaceFound ==
    ASSUME NEW n, NEW s, NEW nodes, NEW first, NEW nx, NEW pv,
           Walkable(n, s, nodes, first, nx, pv),
           NEW k, NEW from, StartsAt(from, k, n, s), NEW e
    PROVE  \E j \in k..n :
             /\ Place(from, e, nx) = s[j]
             /\ j < n => e < expire[s[j + 1]]
             /\ \A i \in k + 1 .. j : ~(e < expire[s[i]])
<1>0. /\ n \in Nat /\ nodes \subseteq Timers /\ Threaded(n, s, nodes, first, nx, pv)
      /\ \A t \in Timers : t \notin nodes => nx[t] = NULL
    BY DEF Walkable
<1> USE <1>0
<1>k. k \in 1..n /\ from = s[k]
    BY DEF StartsAt
<1> DEFINE Stops(i) == i = n \/ e < expire[s[i + 1]]
           Halts(p) == nx[p] = NULL \/ e < expire[nx[p]]
           Stop(i) == CHOOSE j \in i..n : Stops(j) /\ \A m \in i..n : Stops(m) => j <= m
           Index(p) == CHOOSE i \in 1..n : s[i] = p
           Walk(f) == f = [p \in Timers |-> IF Halts(p) THEN p ELSE f[nx[p]]]
           walk == CHOOSE f : Walk(f)
           g == [p \in Timers |-> IF p \in nodes THEN s[Stop(Index(p))] ELSE p]
<1>1. ASSUME NEW i \in 1..n
      PROVE  /\ s[i] \in nodes /\ s[i] \in Timers /\ s[i] # NULL
             /\ Index(s[i]) = i
             /\ i = n => nx[s[i]] = NULL
             /\ i # n => i + 1 \in 1..n /\ nx[s[i]] = s[i + 1] /\ s[i + 1] # NULL /\ s[i + 1] \in nodes
             /\ Halts(s[i]) <=> Stops(i)
  <2>1. s[i] \in nodes /\ s[i] # NULL /\ s[i] \in Timers
    BY TimersAssumption DEF Threaded
  <2>2. Index(s[i]) = i
    BY DEF Threaded
  <2>3. i = n => nx[s[i]] = NULL
    BY DEF Threaded
  <2>4. i # n => i + 1 \in 1..n /\ nx[s[i]] = s[i + 1] /\ s[i + 1] # NULL /\ s[i + 1] \in nodes
    BY TimersAssumption DEF Threaded
  <2>5. Halts(s[i]) <=> Stops(i)
    BY <2>3, <2>4
  <2> QED
    BY <2>1, <2>2, <2>3, <2>4, <2>5
<1>2. ASSUME NEW i \in 1..n
      PROVE  /\ Stop(i) \in i..n /\ Stops(Stop(i))
             /\ \A m \in i..n : Stops(m) => Stop(i) <= m
  <2> DEFINE S == {j \in i..n : Stops(j)}
  <2>1. S \in SUBSET Nat /\ n \in S
    OBVIOUS
  <2>2. \E j \in S : \A m \in S : j <= m
    <3> HIDE DEF S
    <3> QED
      BY <2>1, LeastExists
  <2>3. \E j \in i..n : Stops(j) /\ \A m \in i..n : Stops(m) => j <= m
    BY <2>2
  <2> QED
    BY <2>3
<1> HIDE DEF Stop, Index
<1>3. ASSUME NEW i \in 1..n, Stops(i) PROVE Stop(i) = i
    BY <1>2, <1>3
<1>4. ASSUME NEW i \in 1..n, ~Stops(i) PROVE i + 1 \in 1..n /\ Stop(i) = Stop(i + 1)
  <2>1. i + 1 \in 1..n
    BY <1>4
  <2>2. Stop(i) \in i + 1 .. n
    BY <1>2, <1>4
  <2>3. Stop(i) <= Stop(i + 1) /\ Stop(i + 1) <= Stop(i)
    BY <1>2, <2>1, <2>2
  <2>4. Stop(i) \in Int /\ Stop(i + 1) \in Int
    <3>1. Stop(i + 1) \in i + 1 .. n
      BY <1>2, <2>1
    <3> QED
      BY <2>2, <3>1
  <2> QED
    BY <2>1, <2>3, <2>4
<1> HIDE DEF Stops, Halts
<1>5. Walk(g)
  <2>1. ASSUME NEW p \in Timers PROVE g[p] = IF Halts(p) THEN p ELSE g[nx[p]]
    <3>1. CASE p \in nodes
      <4>1. PICK i \in 1..n : s[i] = p
        BY <3>1 DEF Threaded
      <4>2. g[p] = s[Stop(i)]
        BY <3>1, <4>1, <1>1
      <4>3. CASE Stops(i)
        BY <4>1, <4>2, <4>3, <1>1, <1>3
      <4>4. CASE ~Stops(i)
        <5>1. i + 1 \in 1..n /\ Stop(i) = Stop(i + 1) /\ i # n
          BY <1>4, <4>4 DEF Stops
        <5>2. nx[p] = s[i + 1] /\ s[i + 1] \in nodes /\ s[i + 1] \in Timers /\ Index(s[i + 1]) = i + 1
          BY <1>1, <4>1, <5>1
        <5>3. g[nx[p]] = s[Stop(i + 1)]
          BY <5>2
        <5> QED
          BY <1>1, <4>1, <4>2, <4>4, <5>1, <5>3
      <4> QED
        BY <4>3, <4>4
    <3>2. CASE p \notin nodes
      BY <3>2 DEF Halts
    <3> QED
      BY <3>1, <3>2
  <2> QED
    BY <2>1
<1>6. Walk(walk)
  <2> HIDE DEF Walk, g
  <2> QED
    BY <1>5
<1>7. ASSUME NEW p \in Timers PROVE walk[p] = IF Halts(p) THEN p ELSE walk[nx[p]]
  <2> HIDE DEF walk
  <2> QED
    BY <1>6
<1>8. Place(from, e, nx) = walk[s[k]]
    BY <1>k DEF Place, Halts
<1> HIDE DEF walk
<1> DEFINE j == Stop(k)
           Astray == {i \in k..j : walk[s[i]] # walk[s[k]]}
<1>9. j \in k..n /\ Stops(j) /\ \A i \in k..j : i # j => ~Stops(i)
    BY <1>2, <1>k
<1> HIDE DEF j
<1>10. Astray = {}
  <2> SUFFICES ASSUME Astray # {} PROVE FALSE
    OBVIOUS
  <2>1. Astray \in SUBSET Nat
    BY <1>k, <1>9
  <2>2. PICK m \in Astray : \A i \in Astray : m <= i
    BY <2>1, LeastExists
  <2>3. m \in k + 1 .. j /\ m - 1 \in k..j /\ m - 1 # j /\ m - 1 \in 1..n /\ m - 1 # n
    BY <1>k, <1>9, <2>2
  <2>4. walk[s[m - 1]] = walk[s[k]]
    BY <2>2, <2>3
  <2>5. ~Stops(m - 1) /\ (m - 1) + 1 = m
    BY <1>k, <1>9, <2>3
  <2>6. walk[s[m - 1]] = walk[s[m]]
    BY <1>k, <1>1, <1>7, <2>3, <2>5
  <2> QED
    BY <2>2, <2>4, <2>6
<1>11. walk[s[k]] = s[j]
  <2>1. walk[s[j]] = walk[s[k]]
    BY <1>k, <1>9, <1>10
  <2>2. walk[s[j]] = s[j]
    BY <1>k, <1>1, <1>7, <1>9
  <2> QED
    BY <2>1, <2>2
<1>12. ASSUME NEW i \in k + 1 .. j PROVE ~(e < expire[s[i]])
  <2>1. i - 1 \in k..j /\ i - 1 # j /\ (i - 1) + 1 = i
    BY <1>k, <1>9
  <2> QED
    BY <1>9, <2>1 DEF Stops
<1>13. j < n => e < expire[s[j + 1]]
    BY <1>k, <1>9 DEF Stops
<1> QED
    BY <1>k, <1>8, <1>9, <1>11, <1>12, <1>13

-----------------------------------------------------------------------------
(* Unlinking and linking a node.                                           *)

Without(n, s, k) == [i \in 1..n - 1 |-> IF i < k THEN s[i] ELSE s[i + 1]]
With(n, s, j, t) == [i \in 1..n + 1 |-> IF i <= j THEN s[i] ELSE IF i = j + 1 THEN t ELSE s[i - 1]]

(* The links when the neighbours of s[k] point at each other. *)
TakenOut(k, n, s, first, nx, pv, first2, nx2, pv2) ==
    /\ k \in 1..n
    /\ first2 = IF k = 1 THEN nx[s[1]] ELSE first
    /\ \A i \in 1..n : i # k => nx2[s[i]] = IF i = k - 1 THEN nx[s[k]] ELSE nx[s[i]]
    /\ \A i \in 1..n : i # k => pv2[s[i]] = IF i = k + 1 THEN pv[s[k]] ELSE pv[s[i]]

(* The thread is one shorter. *)
LEMMA Unlinked ==
    ASSUME NEW n, NEW s, NEW nodes, NEW first, NEW nx, NEW pv,
           Walkable(n, s, nodes, first, nx, pv),
           NEW k, NEW first2, NEW nx2, NEW pv2,
           TakenOut(k, n, s, first, nx, pv, first2, nx2, pv2),
           NEW t, t = s[k]
    PROVE  Threaded(n - 1, Without(n, s, k), nodes \ {t}, first2, nx2, pv2)
<1>0. /\ n \in Nat /\ nodes \subseteq Timers /\ Threaded(n, s, nodes, first, nx, pv)
      /\ k \in 1..n
      /\ first2 = IF k = 1 THEN nx[s[1]] ELSE first
      /\ \A i \in 1..n : i # k => nx2[s[i]] = IF i = k - 1 THEN nx[s[k]] ELSE nx[s[i]]
      /\ \A i \in 1..n : i # k => pv2[s[i]] = IF i = k + 1 THEN pv[s[k]] ELSE pv[s[i]]
  BY DEF Walkable, TakenOut
<1> USE <1>0
<1> DEFINE r == Without(n, s, k)
           At(i) == IF i < k THEN i ELSE i + 1
<1>1. ASSUME NEW i \in 1..n - 1 PROVE At(i) \in 1..n /\ At(i) # k /\ r[i] = s[At(i)]
    BY DEF Without
<1>2. s \in [1..n -> nodes] /\ \A i, j \in 1..n : s[i] = s[j] => i = j
    BY DEF Threaded
<1>3. r \in [1..n - 1 -> nodes \ {s[k]}]
  <2>1. \A i \in 1..n - 1 : r[i] \in nodes \ {s[k]}
    BY <1>1, <1>2
  <2>2. r = [i \in 1..n - 1 |-> r[i]]
    BY DEF Without
  <2> QED
    BY <2>1, <2>2
<1>4. ASSUME NEW u \in nodes \ {s[k]} PROVE \E i \in 1..n - 1 : r[i] = u
  <2>1. PICK j \in 1..n : s[j] = u
    BY DEF Threaded
  <2>2. j # k
    BY <2>1
  <2>3. CASE j < k
    BY <1>1, <2>1, <2>3
  <2>4. CASE j > k
    <3>1. j - 1 \in 1..n - 1 /\ At(j - 1) = j
      BY <2>4
    <3> QED
      BY <1>1, <2>1, <3>1
  <2> QED
    BY <2>2, <2>3, <2>4
<1>5. \A i, j \in 1..n - 1 : r[i] = r[j] => i = j
    BY <1>1, <1>2
<1>6. first2 = IF n - 1 = 0 THEN NULL ELSE r[1]
  <2>1. first = s[1] /\ nx[s[1]] = IF n = 1 THEN NULL ELSE s[2]
    BY DEF Threaded
  <2> QED
    BY <1>1, <2>1
<1>7. ASSUME NEW i \in 1..n - 1
      PROVE  /\ nx2[r[i]] = IF i = n - 1 THEN NULL ELSE r[i + 1]
             /\ pv2[r[i]] = IF i = 1 THEN NULL ELSE r[i - 1]
  <2>1. nx2[r[i]] = IF At(i) = k - 1 THEN nx[s[k]] ELSE nx[s[At(i)]]
    BY <1>1
  <2>2. pv2[r[i]] = IF At(i) = k + 1 THEN pv[s[k]] ELSE pv[s[At(i)]]
    BY <1>1
  <2>3. \A m \in 1..n : nx[s[m]] = (IF m = n THEN NULL ELSE s[m + 1])
    BY DEF Threaded
  <2>4. \A m \in 1..n : pv[s[m]] = (IF m = 1 THEN NULL ELSE s[m - 1])
    BY DEF Threaded
  <2>5. i # n - 1 => r[i + 1] = s[At(i + 1)]
    BY <1>1
  <2>6. i # 1 => r[i - 1] = s[At(i - 1)]
    BY <1>1
  <2>7. nx2[r[i]] = IF i = n - 1 THEN NULL ELSE s[At(i + 1)]
    BY <1>1, <2>1, <2>3
  <2>8. pv2[r[i]] = IF i = 1 THEN NULL ELSE s[At(i - 1)]
    BY <1>1, <2>2, <2>4
  <2> QED
    BY <2>5, <2>6, <2>7, <2>8
<1> QED
    BY <1>3, <1>4, <1>5, <1>6, <1>7 DEF Threaded

(* The links when t has been put behind the first j nodes of a thread. *)
PutBehind(j, t, n, s, first, nx, pv, first2, nx2, pv2) ==
    /\ j \in 0..n
    /\ first2 = IF j = 0 THEN t ELSE first
    /\ nx2[t] = IF j = n THEN NULL ELSE s[j + 1]
    /\ pv2[t] = IF j = 0 THEN NULL ELSE s[j]
    /\ \A i \in 1..n : nx2[s[i]] = IF i = j THEN t ELSE nx[s[i]]
    /\ \A i \in 1..n : pv2[s[i]] = IF i = j + 1 THEN t ELSE pv[s[i]]

(* The thread is one longer. *)
LEMMA Linked ==
    ASSUME NEW n, NEW s, NEW nodes, NEW first, NEW nx, NEW pv,
           Walkable(n, s, nodes, first, nx, pv),
           NEW j, NEW t \in Timers, t \notin nodes, NEW first2, NEW nx2, NEW pv2,
           PutBehind(j, t, n, s, first, nx, pv, first2, nx2, pv2)
    PROVE  Threaded(n + 1, With(n, s, j, t), nodes \cup {t}, first2, nx2, pv2)
<1>0. /\ n \in Nat /\ nodes \subseteq Timers /\ Threaded(n, s, nodes, first, nx, pv)
      /\ j \in 0..n
      /\ first2 = IF j = 0 THEN t ELSE first
      /\ nx2[t] = IF j = n THEN NULL ELSE s[j + 1]
      /\ pv2[t] = IF j = 0 THEN NULL ELSE s[j]
      /\ \A i \in 1..n : nx2[s[i]] = IF i = j THEN t ELSE nx[s[i]]
      /\ \A i \in 1..n : pv2[s[i]] = IF i = j + 1 THEN t ELSE pv[s[i]]
    BY DEF Walkable, PutBehind
<1> USE <1>0
<1> DEFINE r == With(n, s, j, t)
           At(i) == IF i <= j THEN i ELSE i - 1
<1>1. ASSUME NEW i \in 1..n + 1
      PROVE  i # j + 1 => At(i) \in 1..n /\ r[i] = s[At(i)]
    BY DEF With
<1>2. j + 1 \in 1..n + 1 /\ r[j + 1] = t
    BY DEF With
<1>3. s \in [1..n -> nodes] /\ \A i, m \in 1..n : s[i] = s[m] => i = m
    BY DEF Threaded
<1>4. r \in [1..n + 1 -> nodes \cup {t}]
  <2>1. \A i \in 1..n + 1 : r[i] \in nodes \cup {t}
    BY <1>1, <1>2, <1>3
  <2>2. r = [i \in 1..n + 1 |-> r[i]]
    BY DEF With
  <2> QED
    BY <2>1, <2>2
<1>5. ASSUME NEW u \in nodes \cup {t} PROVE \E i \in 1..n + 1 : r[i] = u
  <2>1. CASE u = t
    BY <1>2, <2>1
  <2>2. CASE u \in nodes
    <3>1. PICK m \in 1..n : s[m] = u
      BY <2>2 DEF Threaded
    <3>2. CASE m <= j
      <4>1. m \in 1..n + 1 /\ m # j + 1 /\ At(m) = m
        BY <3>2
      <4> QED
        BY <1>1, <3>1, <4>1
    <3>3. CASE m > j
      <4>1. m + 1 \in 1..n + 1 /\ m + 1 # j + 1 /\ At(m + 1) = m
        BY <3>3
      <4> QED
        BY <1>1, <3>1, <4>1
    <3> QED
      BY <3>2, <3>3
  <2> QED
    BY <2>1, <2>2
<1>6. ASSUME NEW i \in 1..n + 1, NEW m \in 1..n + 1, r[i] = r[m] PROVE i = m
  <2>0. \A a \in 1..n : s[a] # t
    BY <1>3
  <2>1. i # j + 1 => r[i] # t
    BY <1>1, <2>0
  <2>2. m # j + 1 => r[m] # t
    BY <1>1, <2>0
  <2>3. CASE i # j + 1 /\ m # j + 1
    BY <1>1, <1>3, <1>6, <2>3
  <2> QED
    BY <1>2, <1>6, <2>1, <2>2, <2>3
<1>7. first2 = IF n + 1 = 0 THEN NULL ELSE r[1]
  <2>1. n # 0 => first = s[1]
    BY DEF Threaded
  <2> QED
    BY <1>1, <1>2, <2>1
<1>8. ASSUME NEW i \in 1..n + 1
      PROVE  /\ nx2[r[i]] = IF i = n + 1 THEN NULL ELSE r[i + 1]
             /\ pv2[r[i]] = IF i = 1 THEN NULL ELSE r[i - 1]
  <2>1. \A m \in 1..n : nx[s[m]] = (IF m = n THEN NULL ELSE s[m + 1])
    BY DEF Threaded
  <2>2. \A m \in 1..n : pv[s[m]] = (IF m = 1 THEN NULL ELSE s[m - 1])
    BY DEF Threaded
  <2>3. i # n + 1 => r[i + 1] = IF i = j THEN t ELSE s[At(i + 1)]
    BY <1>1, <1>2
  <2>4. i # 1 => r[i - 1] = IF i = j + 2 THEN t ELSE s[At(i - 1)]
    BY <1>1, <1>2
  <2>5. CASE i = j + 1
    <3>1. i # n + 1 => r[i + 1] = s[j + 1]
      BY <2>3, <2>5
    <3>2. i # 1 => r[i - 1] = s[j]
      BY <2>4, <2>5
    <3> QED
      BY <1>2, <2>5, <3>1, <3>2
  <2>6. CASE i # j + 1
    <3>1. At(i) \in 1..n /\ r[i] = s[At(i)]
      BY <1>1, <2>6
    <3>2. nx2[r[i]] = IF At(i) = j THEN t ELSE IF At(i) = n THEN NULL ELSE s[At(i) + 1]
      BY <2>1, <3>1
    <3>3. pv2[r[i]] = IF At(i) = j + 1 THEN t ELSE IF At(i) = 1 THEN NULL ELSE s[At(i) - 1]
      BY <2>2, <3>1
    <3>4. nx2[r[i]] = IF i = n + 1 THEN NULL ELSE r[i + 1]
      BY <2>3, <2>6, <3>2
    <3>5. pv2[r[i]] = IF i = 1 THEN NULL ELSE r[i - 1]
      BY <2>4, <2>6, <3>3
    <3> QED
      BY <3>4, <3>5
  <2> QED
    BY <2>5, <2>6
<1> QED
    BY <1>4, <1>5, <1>6, <1>7, <1>8 DEF Threaded

(* LinkAfter puts a timer behind s[j], and moves the tail if s[j] was it.  *)
LEMMA LinkAfterLinks ==
    ASSUME NEW n, NEW s, NEW nodes, NEW first, NEW nx, NEW pv,
           Walkable(n, s, nodes, first, nx, pv), n # 0 => tail = s[n],
           NEW timer \in Timers, timer \notin nodes, NEW j \in 1..n,
           NEW p, p = s[j], LinkAfter(timer, p, nx, pv)
    PROVE  /\ Threaded(n + 1, With(n, s, j, timer), nodes \cup {timer}, first, next', prev')
           /\ tail' = With(n, s, j, timer)[n + 1]
           /\ next'[timer] = nx[s[j]]
           /\ \A t \in Timers : t # timer => next'[t] = IF t = s[j] THEN timer ELSE nx[t]
<1>0. /\ n \in Nat /\ nodes \subseteq Timers /\ Threaded(n, s, nodes, first, nx, pv)
      /\ nx \in [Timers -> Timers \cup {NULL}]
  BY DEF Walkable
<1> USE <1>0
<1>1. /\ \A i \in 1..n : s[i] \in nodes /\ s[i] \in Timers /\ s[i] # timer
      /\ \A i \in 1..n : nx[s[i]] = IF i = n THEN NULL ELSE s[i + 1]
      /\ \A i, m \in 1..n : s[i] = s[m] => i = m
      /\ NULL \notin Timers
  <2>1. s \in [1..n -> nodes] /\ NULL \notin Timers
    BY TimersAssumption DEF Threaded
  <2>2. \A i \in 1..n : s[i] \in nodes /\ s[i] \in Timers /\ s[i] # timer
    BY <2>1
  <2>3. \A i \in 1..n : nx[s[i]] = IF i = n THEN NULL ELSE s[i + 1]
    BY DEF Threaded
  <2>4. \A i, m \in 1..n : s[i] = s[m] => i = m
    BY DEF Threaded
  <2> QED
    BY <2>1, <2>2, <2>3, <2>4
<1>2. \A t \in Timers : next'[t] = IF t = s[j] THEN timer ELSE IF t = timer THEN nx[s[j]] ELSE nx[t]
  BY <1>1 DEF LinkAfter
<1>3. \A t \in Timers : prev'[t] = IF t = timer THEN s[j] ELSE IF t = nx[s[j]] THEN timer ELSE pv[t]
  BY DEF LinkAfter
<1>4. \A i \in 1..n : next'[s[i]] = IF i = j THEN timer ELSE nx[s[i]]
  BY <1>1, <1>2
<1>5. \A i \in 1..n : prev'[s[i]] = IF i = j + 1 THEN timer ELSE pv[s[i]]
  <2> TAKE i \in 1..n
  <2>1. s[i] = nx[s[j]] <=> i = j + 1
    BY <1>1
  <2> QED
    BY <1>1, <1>3, <2>1
<1>6. next'[timer] = IF j = n THEN NULL ELSE s[j + 1]
  BY <1>1, <1>2
<1>7. prev'[timer] = s[j] /\ j # 0 /\ j \in 0..n
  BY <1>3
<1>8. Threaded(n + 1, With(n, s, j, timer), nodes \cup {timer}, first, next', prev')
  <2>1. PutBehind(j, timer, n, s, first, nx, pv, first, next', prev')
    BY <1>4, <1>5, <1>6, <1>7 DEF PutBehind
  <2> QED
    BY <2>1, Linked
<1>9. tail' = With(n, s, j, timer)[n + 1]
  <2>1. With(n, s, j, timer)[n + 1] = IF j = n THEN timer ELSE s[n]
    BY DEF With
  <2>2. nx[s[j]] = NULL <=> j = n
    BY <1>1
  <2>3. tail' = IF j = n THEN timer ELSE s[n]
    BY <2>2 DEF LinkAfter
  <2> QED
    BY <2>1, <2>3
<1> QED
  BY <1>1, <1>2, <1>8, <1>9

-----------------------------------------------------------------------------
(* The inductive invariant.                                                *)

(* The types that do not follow from the thread. *)
FieldTypes ==
    /\ live \subseteq Timers
    /\ next \in [Timers -> Timers \cup {NULL}] /\ prev \in [Timers -> Timers \cup {NULL}]
    /\ expire \in [Timers -> 0..MaxTime + Timeout]
    /\ now \in 0..MaxTime /\ cur \in 0..MaxTime \cup {NULL} /\ setback \in BOOLEAN

LEMMA ThreadTypes ==
    ASSUME NEW n \in Nat, NEW s, Threaded(n, s, live, head, next, prev)
    PROVE  /\ head \in live \cup {NULL}
           /\ \A t \in live : next[t] \in live \cup {NULL} /\ prev[t] \in live \cup {NULL}
<1>1. head \in live \cup {NULL}
  BY DEF Threaded
<1>2. ASSUME NEW t \in live PROVE next[t] \in live \cup {NULL} /\ prev[t] \in live \cup {NULL}
  <2>1. PICK i \in 1..n : s[i] = t
    BY DEF Threaded
  <2> QED
    BY <2>1 DEF Threaded
<1> QED
  BY <1>1, <1>2

LEMMA TypesFollow == FieldTypes /\ OneThread /\ TickAtHead => TypeOK
<1> SUFFICES ASSUME FieldTypes, OneThread, TickAtHead PROVE TypeOK
  OBVIOUS
<1>1. PICK n \in 0..Cardinality(Timers) : \E s \in [1..n -> live] : Threaded(n, s, live, head, next, prev)
  BY DEF OneThread
<1>2. PICK s \in [1..n -> live] : Threaded(n, s, live, head, next, prev)
  BY <1>1
<1>3. n \in Nat
  BY TimersAssumption, FS_CardinalityType
<1>4. /\ head \in live \cup {NULL}
      /\ \A t \in live : next[t] \in live \cup {NULL} /\ prev[t] \in live \cup {NULL}
  BY <1>2, <1>3, ThreadTypes
<1> QED
  BY <1>4 DEF FieldTypes, TickAtHead, TypeOK

(* What the invariant gives a step to start from. *)
Holding(n, s) ==
    /\ n \in Nat
    /\ Threaded(n, s, live, head, next, prev)
    /\ n # 0 => tail = s[n]
    /\ n = 0 <=> live = {}
    /\ n = 0 <=> head = NULL
    /\ n # 0 => head = s[1]
    /\ \A i \in 1..n : s[i] \in live /\ s[i] \in Timers /\ s[i] # NULL

LEMMA InvariantGives == Inductive => \E n, s : Holding(n, s)
<1> SUFFICES ASSUME Inductive PROVE \E n, s : Holding(n, s)
  OBVIOUS
<1>1. PICK n \in 0..Cardinality(Timers) : \E s \in [1..n -> live] :
          Threaded(n, s, live, head, next, prev) /\ (n # 0 => tail = s[n])
  BY DEF Inductive, OneThread
<1>2. PICK s \in [1..n -> live] :
          Threaded(n, s, live, head, next, prev) /\ (n # 0 => tail = s[n])
  BY <1>1
<1>3. n \in Nat
  BY TimersAssumption, FS_CardinalityType
<1>4. \A i \in 1..n : s[i] \in live /\ s[i] \in Timers /\ s[i] # NULL
  BY TimersAssumption DEF Inductive, TypeOK
<1>5. n = 0 <=> live = {}
  <2>1. n # 0 => 1 \in 1..n
    BY <1>3
  <2>2. n = 0 => 1..n = {}
    OBVIOUS
  <2> QED
    BY <1>2, <1>4, <2>1, <2>2 DEF Threaded
<1>6. (n = 0 <=> head = NULL) /\ (n # 0 => head = s[1])
  BY <1>2, <1>3, <1>4 DEF Threaded
<1>7. Holding(n, s)
  BY <1>2, <1>3, <1>4, <1>5, <1>6 DEF Holding
<1> QED
  BY <1>7

(* What a step has to show of its thread. *)
LEMMA ThreadAfter ==
    ASSUME live' \subseteq Timers,
           \A t \in Timers : t \notin live' => next'[t] = NULL,
           NEW n \in Nat, NEW s, Threaded(n, s, live', head', next', prev'),
           n # 0 => tail' = s[n]
    PROVE  OneThread'
<1>1. s \in [1..n -> live'] /\ s \in [1..n -> Timers] /\ \A i, j \in 1..n : s[i] = s[j] => i = j
  BY DEF Threaded
<1>2. n \in 0..Cardinality(Timers)
  BY <1>1, ThreadIsShort
<1>3. \E m \in 0..Cardinality(Timers) : \E r \in [1..m -> live'] :
          /\ Threaded(m, r, live', head', next', prev')
          /\ m # 0 => tail' = r[m]
  BY <1>1, <1>2
<1> QED
  BY <1>3 DEF OneThread, Threaded

LEMMA InitEstablishes == Init => Inductive
<1> SUFFICES ASSUME Init PROVE Inductive
  OBVIOUS
<1>1. Threaded(0, << >>, live, head, next, prev)
  BY DEF Init, Threaded
<1>2. << >> \in [1..0 -> live] /\ 0 \in 0..Cardinality(Timers)
  BY TimersAssumption, FS_CardinalityType
<1>3. OneThread
  BY <1>1, <1>2 DEF Init, OneThread
<1>4. FieldTypes
  <2>1. 0 \in 0..MaxTime /\ 0 \in 0..MaxTime + Timeout
    BY TimeoutAssumption
  <2> QED
    BY <2>1 DEF Init, FieldTypes
<1>5. Sorted /\ DeadlinesNear /\ TickAtHead
  BY DEF Init, Sorted, DeadlinesNear, TickAtHead
<1> QED
  BY <1>3, <1>4, <1>5, TypesFollow DEF Inductive

LEMMA AddPreserves ==
    ASSUME Inductive, NEW timer \in Timers, addTimer(timer)
    PROVE  Inductive'
<1> DEFINE e == now + Timeout
           fresh == [next EXCEPT ![timer] = NULL]
           fresh_prev == [prev EXCEPT ![timer] = NULL]
<1>1. PICK n, s : Holding(n, s)
  BY InvariantGives
<1>n. n \in Nat
  BY <1>1 DEF Holding
<1> USE <1>n
<1>2. /\ Threaded(n, s, live, head, next, prev)
      /\ n # 0 => tail = s[n]
      /\ n = 0 <=> live = {}
      /\ n = 0 <=> head = NULL
      /\ n # 0 => head = s[1]
      /\ \A i \in 1..n : s[i] \in live /\ s[i] \in Timers /\ s[i] # NULL
  BY <1>1 DEF Holding
<1>3. /\ live \subseteq Timers /\ timer \in Timers /\ timer \notin live /\ cur = NULL
      /\ live' = live \cup {timer}
      /\ expire' = [expire EXCEPT ![timer] = e]
      /\ UNCHANGED <<now, setback, cur, tmp>>
  BY DEF addTimer, clockVars, tickVars, Inductive, TypeOK
<1>4. /\ e \in 0..MaxTime + Timeout /\ e \in Int
      /\ \A t \in Timers : expire[t] \in Int /\ (t # timer => expire'[t] = expire[t])
      /\ expire'[timer] = e
      /\ expire' \in [Timers -> 0..MaxTime + Timeout]
  BY <1>3, TimeoutAssumption DEF Inductive, TypeOK
<1>5. /\ \A t \in Timers : fresh[t] = IF t = timer THEN NULL ELSE next[t]
      /\ \A t \in Timers : fresh_prev[t] = IF t = timer THEN NULL ELSE prev[t]
      /\ \A t \in Timers : t \notin live => fresh[t] = NULL
      /\ fresh \in [Timers -> Timers \cup {NULL}] /\ fresh_prev \in [Timers -> Timers \cup {NULL}]
  BY DEF Inductive, TypeOK, OneThread
<1>6. /\ Threaded(n, s, live, head, fresh, fresh_prev)
      /\ Walkable(n, s, live, head, fresh, fresh_prev)
  <2>1. Threaded(n, s, live, head, fresh, fresh_prev)
    BY <1>2, <1>3, <1>5 DEF Threaded
  <2> HIDE DEF fresh, fresh_prev
  <2> QED
    BY <1>3, <1>5, <2>1 DEF Walkable
<1> HIDE DEF fresh, fresh_prev, e
<1>7. ~setback => \A t \in live : expire[t] <= e
  BY DEF Inductive, DeadlinesNear, e
<1>8. ASSUME next' \in [Timers -> Timers \cup {NULL}], prev' \in [Timers -> Timers \cup {NULL}],
             OneThread', Sorted'
      PROVE  Inductive'
  <2>1. FieldTypes'
    BY <1>3, <1>4, <1>8 DEF FieldTypes, Inductive, TypeOK
  <2>2. DeadlinesNear'
    BY <1>3, <1>4, <1>7, SMT DEF DeadlinesNear, e, Inductive, TypeOK
  <2>3. TickAtHead'
    BY <1>3 DEF TickAtHead, Inductive
  <2> QED
    BY <1>8, <2>1, <2>2, <2>3, TypesFollow, PTL DEF Inductive
<1>9. CASE head = NULL
  <2>1. head' = timer /\ tail' = timer /\ next' = fresh /\ prev' = fresh_prev /\ n = 0 /\ live = {}
    BY <1>2, <1>9 DEF addTimer, fresh, fresh_prev
  <2>2. Threaded(n + 1, With(n, s, 0, timer), live', head', next', prev')
    <3>1. PutBehind(0, timer, n, s, head, fresh, fresh_prev, head', next', prev')
      BY <1>3, <1>5, <2>1 DEF PutBehind
    <3>2. Threaded(n + 1, With(n, s, 0, timer), live \cup {timer}, head', next', prev')
      BY <1>3, <1>6, <3>1, Linked
    <3> QED
      BY <1>3, <3>2
  <2>3. With(n, s, 0, timer)[n + 1] = timer
    BY <2>1 DEF With
  <2>4. OneThread'
    BY <1>3, <1>5, <2>1, <2>2, <2>3, ThreadAfter
  <2>5. Sorted'
    BY <1>3, <1>5, <2>1 DEF Sorted
  <2> QED
    BY <1>5, <1>8, <2>1, <2>4, <2>5
<1>10. CASE head # NULL /\ e <= expire[head]
  <2>1. /\ head' = timer /\ tail' = tail /\ n # 0 /\ head = s[1]
        /\ next' = [fresh EXCEPT ![timer] = head]
        /\ prev' = [fresh_prev EXCEPT ![head] = timer]
    BY <1>2, <1>4, <1>10 DEF addTimer, fresh, fresh_prev, e
  <2>2. /\ 1 \in 1..n /\ head \in live /\ head \in Timers /\ head # timer
        /\ next' \in [Timers -> Timers \cup {NULL}] /\ prev' \in [Timers -> Timers \cup {NULL}]
        /\ next'[timer] = s[1]
        /\ \A t \in Timers : t # timer => next'[t] = next[t]
    BY <1>2, <1>3, <1>5, <2>1
  <2>3. Threaded(n + 1, With(n, s, 0, timer), live', head', next', prev')
    <3>1. prev'[timer] = NULL
      BY <1>5, <2>1, <2>2
    <3>2. \A i \in 1..n : next'[s[i]] = IF i = 0 THEN timer ELSE fresh[s[i]]
      BY <1>2, <1>3, <1>5, <2>2
    <3>3. \A i \in 1..n : prev'[s[i]] = IF i = 0 + 1 THEN timer ELSE fresh_prev[s[i]]
      <4>1. \A i \in 1..n : s[i] = head <=> i = 1
        BY <2>1, <2>2, <1>6 DEF Threaded
      <4> QED
        BY <1>2, <1>5, <2>1, <4>1
    <3>4. PutBehind(0, timer, n, s, head, fresh, fresh_prev, head', next', prev')
      BY <2>1, <2>2, <3>1, <3>2, <3>3 DEF PutBehind
    <3>5. Threaded(n + 1, With(n, s, 0, timer), live \cup {timer}, head', next', prev')
      BY <1>3, <1>6, <3>4, Linked
    <3> QED
      BY <1>3, <3>5
  <2>4. With(n, s, 0, timer)[n + 1] = s[n]
    BY <2>1 DEF With
  <2>5. OneThread'
    <3>1. live' \subseteq Timers /\ \A t \in Timers : t \notin live' => next'[t] = NULL
      BY <1>3, <2>2 DEF Inductive, OneThread
    <3>2. n + 1 \in Nat /\ tail' = With(n, s, 0, timer)[n + 1]
      BY <1>2, <2>1, <2>4
    <3> QED
      BY <2>3, <3>1, <3>2, ThreadAfter
  <2>6. Sorted'
    <3> SUFFICES ASSUME ~setback, NEW t \in live', next'[t] # NULL
                 PROVE  expire'[t] <= expire'[next'[t]]
      BY <1>3 DEF Sorted
    <3>1. CASE t = timer
      BY <1>4, <1>10, <2>1, <2>2, <3>1
    <3>2. CASE t # timer
      <4>1. t \in live /\ next[t] # NULL /\ next'[t] = next[t] /\ next[t] \in live
        BY <1>3, <2>2, <3>2 DEF Inductive, TypeOK
      <4> QED
        BY <1>3, <1>4, <4>1 DEF Inductive, Sorted
    <3> QED
      BY <3>1, <3>2
  <2> QED
    BY <1>8, <2>2, <2>5, <2>6
<1>11. CASE head # NULL /\ e > expire[head]
  <2>1. /\ LinkAfter(timer, Place(head, e, fresh), fresh, fresh_prev) /\ head' = head
        /\ n # 0 /\ head = s[1] /\ 1 \in 1..n
    <3>1. head # NULL /\ ~(e <= expire[head]) /\ n # 0 /\ head = s[1] /\ 1 \in 1..n
      BY <1>2, <1>4, <1>11
    <3>2. LinkAfter(timer, Place(head, e, fresh), fresh, fresh_prev) /\ head' = head
      BY <3>1 DEF addTimer, fresh, fresh_prev, e
    <3> QED
      BY <3>1, <3>2
  <2>2. PICK j \in 1..n : /\ Place(head, e, fresh) = s[j]
                          /\ j < n => e < expire[s[j + 1]]
    <3>1. \E j \in 1..n : /\ Place(head, e, fresh) = s[j]
                          /\ j < n => e < expire[s[j + 1]]
      <4>1. StartsAt(head, 1, n, s)
        BY <2>1 DEF StartsAt
      <4>2. \E j \in 1..n : /\ Place(head, e, fresh) = s[j]
                            /\ j < n => e < expire[s[j + 1]]
                            /\ \A i \in 1 + 1 .. j : ~(e < expire[s[i]])
        BY <1>6, <4>1, PlaceFound
      <4> QED
        BY <4>2
    <3> QED
      BY <2>1, <3>1
  <2>3. /\ Threaded(n + 1, With(n, s, j, timer), live', head', next', prev')
        /\ tail' = With(n, s, j, timer)[n + 1]
        /\ next'[timer] = fresh[s[j]]
        /\ \A t \in Timers : t # timer => next'[t] = IF t = s[j] THEN timer ELSE fresh[t]
    <3>1. LinkAfter(timer, Place(head, e, fresh), fresh, fresh_prev) /\ Place(head, e, fresh) = s[j]
      BY <2>1, <2>2
    <3>2. live \in SUBSET Timers /\ (n # 0 => tail = s[n])
      BY <1>2, <1>3
    <3>3. /\ Threaded(n + 1, With(n, s, j, timer), live \cup {timer}, head, next', prev')
          /\ tail' = With(n, s, j, timer)[n + 1]
          /\ next'[timer] = fresh[s[j]]
          /\ \A t \in Timers : t # timer => next'[t] = IF t = s[j] THEN timer ELSE fresh[t]
      <4>1. timer \in Timers /\ timer \notin live /\ fresh \in [Timers -> Timers \cup {NULL}]
        BY <1>3, <1>5
      <4> QED
        BY <1>6, <3>1, <3>2, <4>1, LinkAfterLinks
    <3> QED
      BY <1>3, <2>1, <3>3
  <2>4. next' \in [Timers -> Timers \cup {NULL}] /\ prev' \in [Timers -> Timers \cup {NULL}]
    BY <1>2, <1>3, <1>5, <2>1, <2>2 DEF LinkAfter
  <2>5. OneThread'
    <3>1. live' \subseteq Timers /\ \A t \in Timers : t \notin live' => next'[t] = NULL
      BY <1>2, <1>3, <1>5, <2>3
    <3> QED
      BY <2>3, <3>1, ThreadAfter
  <2>6. Sorted'
    <3> SUFFICES ASSUME ~setback, NEW t \in live', next'[t] # NULL
                 PROVE  expire'[t] <= expire'[next'[t]]
      BY <1>3 DEF Sorted
    <3>1. j = n
      <4>1. j < n => s[j + 1] \in live
        BY <1>2
      <4> QED
        BY <1>3, <1>4, <1>7, <2>2, <4>1
    <3>2. next'[timer] = NULL /\ t # timer /\ t \in live
      BY <1>2, <1>3, <1>6, <2>3, <3>1 DEF Threaded
    <3>3. CASE t = s[j]
      BY <1>3, <1>4, <1>7, <2>3, <3>2, <3>3
    <3>4. CASE t # s[j]
      <4>1. next[t] # NULL /\ next'[t] = next[t] /\ next[t] \in live
        BY <1>3, <1>5, <2>3, <3>2, <3>4 DEF Inductive, TypeOK
      <4> QED
        BY <1>3, <1>4, <3>2, <4>1 DEF Inductive, Sorted
    <3> QED
      BY <3>3, <3>4
  <2> QED
    BY <1>8, <2>4, <2>5, <2>6
<1> QED
  <2>1. head = NULL \/ head \in Timers
    BY <1>3 DEF Inductive, TypeOK
  <2>2. head \in Timers => (e <= expire[head] \/ e > expire[head])
    BY <1>4
  <2> QED
    BY <1>9, <1>10, <1>11, <2>1, <2>2

(* A node is taken out and freed. *)
LEMMA RemovalPreserves ==
    ASSUME Inductive, NEW n, NEW s, NEW k, NEW timer \in live,
           Walkable(n, s, live, head, next, prev),
           timer = s[k],
           TakenOut(k, n, s, head, next, prev, head', next', prev'),
           n # 1 => tail' = IF k = n THEN s[n - 1] ELSE s[n],
           next' \in [Timers -> Timers \cup {NULL}], prev' \in [Timers -> Timers \cup {NULL}],
           next'[timer] = NULL,
           \A t \in Timers : t \notin live => next'[t] = NULL,
           live' = live \ {timer},
           expire' = [expire EXCEPT ![timer] = 0],
           UNCHANGED <<now, setback, cur>>,
           TickAtHead'
    PROVE  Inductive'
<1>1. /\ n \in Nat /\ k \in 1..n /\ live \subseteq Timers
      /\ Threaded(n, s, live, head, next, prev)
      /\ \A i \in 1..n : i # k => next'[s[i]] = IF i = k - 1 THEN next[s[k]] ELSE next[s[i]]
  BY DEF Walkable, TakenOut
<1>2. Threaded(n - 1, Without(n, s, k), live', head', next', prev')
  BY Unlinked
<1>3. OneThread'
  <2>1. n - 1 # 0 => tail' = Without(n, s, k)[n - 1]
    BY <1>1 DEF Without
  <2>2. live' \subseteq Timers /\ \A t \in Timers : t \notin live' => next'[t] = NULL
    BY <1>1
  <2>3. n - 1 \in Nat
    BY <1>1
  <2> QED
    BY <1>2, <2>1, <2>2, <2>3, ThreadAfter
<1>4. FieldTypes'
  <2>1. expire' \in [Timers -> 0..MaxTime + Timeout]
    BY TimeoutAssumption DEF Inductive, TypeOK
  <2> QED
    BY <1>1, <2>1 DEF FieldTypes, Inductive, TypeOK
<1>5. \A t \in live' : /\ t \in live /\ t # timer /\ expire'[t] = expire[t] /\ expire[t] \in Int
                       /\ next'[t] = IF next[t] = timer THEN next[timer] ELSE next[t]
  <2> TAKE t \in live'
  <2>1. PICK i \in 1..n : s[i] = t
    BY <1>1 DEF Threaded
  <2>2. t \in live /\ t # timer /\ i # k /\ expire'[t] = expire[t] /\ expire[t] \in Int
    BY <1>1, <2>1 DEF Inductive, TypeOK
  <2>3. next[s[i]] = s[k] <=> i = k - 1
    <3>1. next[s[i]] = IF i = n THEN NULL ELSE s[i + 1]
      BY <1>1 DEF Threaded
    <3>2. s[k] # NULL
      BY <1>1, TimersAssumption
    <3>3. i # n => (s[i + 1] = s[k] <=> i + 1 = k)
      BY <1>1 DEF Threaded
    <3> QED
      BY <1>1, <3>1, <3>2, <3>3
  <2> QED
    BY <1>1, <2>1, <2>2, <2>3
<1>6. Sorted'
  <2> SUFFICES ASSUME ~setback, NEW t \in live', next'[t] # NULL
               PROVE  expire'[t] <= expire'[next'[t]]
    BY DEF Sorted
  <2>0. TypeOK'
    BY <1>3, <1>4, TypesFollow, PTL
  <2>1. next'[t] \in live'
    BY <2>0 DEF TypeOK
  <2>2. expire[timer] \in Int
    BY <1>1 DEF Inductive, TypeOK
  <2>3. CASE next[t] = timer
    <3>1. expire[t] <= expire[timer]
      BY <1>1, <1>5, <2>3, TimersAssumption DEF Inductive, Sorted
    <3>2. expire[timer] <= expire[next'[t]]
      BY <1>5, <2>3 DEF Inductive, Sorted
    <3> QED
      BY <1>5, <2>1, <2>2, <3>1, <3>2
  <2>4. CASE next[t] # timer
    BY <1>5, <2>1, <2>4 DEF Inductive, Sorted
  <2> QED
    BY <2>3, <2>4
<1>7. DeadlinesNear'
  BY <1>5 DEF Inductive, DeadlinesNear
<1> QED
  BY <1>3, <1>4, <1>6, <1>7, TypesFollow, PTL DEF Inductive

(* The thread a step starts from, and the place of a timer in it. *)
Standing(timer, k, n, s) ==
    /\ n \in Nat /\ k \in 1..n
    /\ Walkable(n, s, live, head, next, prev)
    /\ timer = s[k]
    /\ head = s[1] /\ tail = s[n]
    /\ timer = head <=> k = 1
    /\ timer = tail <=> k = n
    /\ \A i \in 1..n : s[i] \in live /\ s[i] \in Timers /\ s[i] # NULL
    /\ \A i \in 1..n : next[s[i]] = IF i = n THEN NULL ELSE s[i + 1]
    /\ \A i \in 1..n : prev[s[i]] = IF i = 1 THEN NULL ELSE s[i - 1]
    /\ \A i, j \in 1..n : s[i] = s[j] <=> i = j

LEMMA TimerHasPlace ==
    ASSUME Inductive, NEW timer \in live
    PROVE  \E n, s, k : Standing(timer, k, n, s)
<1>1. PICK n, s : Holding(n, s)
  BY InvariantGives
<1>n. n \in Nat
  BY <1>1 DEF Holding
<1> USE <1>n
<1>2. /\ Threaded(n, s, live, head, next, prev)
      /\ n # 0 => tail = s[n]
      /\ n = 0 <=> live = {}
      /\ n = 0 <=> head = NULL
      /\ n # 0 => head = s[1]
      /\ \A i \in 1..n : s[i] \in live /\ s[i] \in Timers /\ s[i] # NULL
  BY <1>1 DEF Holding
<1>3. Walkable(n, s, live, head, next, prev)
  BY <1>2 DEF Walkable, Inductive, TypeOK, OneThread
<1>4. PICK k \in 1..n : s[k] = timer
  BY <1>2 DEF Threaded
<1>5. /\ \A i \in 1..n : next[s[i]] = IF i = n THEN NULL ELSE s[i + 1]
      /\ \A i \in 1..n : prev[s[i]] = IF i = 1 THEN NULL ELSE s[i - 1]
      /\ \A i, j \in 1..n : s[i] = s[j] <=> i = j
  BY <1>2 DEF Threaded
<1>6. n # 0 /\ 1 \in 1..n /\ n \in 1..n
  BY <1>4
<1>7. head = s[1] /\ tail = s[n] /\ (timer = head <=> k = 1) /\ (timer = tail <=> k = n)
  BY <1>2, <1>4, <1>5, <1>6
<1>8. Standing(timer, k, n, s)
  BY <1>2, <1>3, <1>4, <1>5, <1>7 DEF Standing
<1> QED
  BY <1>8

LEMMA DelPreserves ==
    ASSUME Inductive, NEW timer \in Timers, delTimer(timer)
    PROVE  Inductive'
<1> DEFINE nx == [next EXCEPT ![timer] = NULL]
           pv == [prev EXCEPT ![timer] = NULL]
<1>0. /\ timer \in live /\ live \subseteq Timers /\ cur = NULL
      /\ live' = live \ {timer}
      /\ expire' = [expire EXCEPT ![timer] = 0]
      /\ UNCHANGED <<now, setback, cur, tmp>>
  BY DEF delTimer, clockVars, tickVars, Inductive, TypeOK
<1>1. PICK n, s, k : Standing(timer, k, n, s)
  BY <1>0, TimerHasPlace
<1>n. n \in Nat /\ k \in 1..n
  BY <1>1 DEF Standing
<1> USE <1>n
<1>3. /\ Walkable(n, s, live, head, next, prev)
      /\ timer = s[k]
      /\ head = s[1] /\ tail = s[n]
      /\ timer = head <=> k = 1
      /\ timer = tail <=> k = n
      /\ \A i \in 1..n : s[i] \in live /\ s[i] \in Timers /\ s[i] # NULL
      /\ \A i \in 1..n : next[s[i]] = IF i = n THEN NULL ELSE s[i + 1]
      /\ \A i \in 1..n : prev[s[i]] = IF i = 1 THEN NULL ELSE s[i - 1]
      /\ \A i, j \in 1..n : s[i] = s[j] <=> i = j
  BY <1>1 DEF Standing
<1>4. /\ next \in [Timers -> Timers \cup {NULL}] /\ prev \in [Timers -> Timers \cup {NULL}]
      /\ nx \in [Timers -> Timers \cup {NULL}] /\ pv \in [Timers -> Timers \cup {NULL}]
      /\ \A t \in Timers : nx[t] = IF t = timer THEN NULL ELSE next[t]
      /\ \A t \in Timers : pv[t] = IF t = timer THEN NULL ELSE prev[t]
      /\ \A t \in Timers : t \notin live => next[t] = NULL
  BY DEF Inductive, TypeOK, OneThread
<1> HIDE DEF nx, pv
(* What each branch does to the links, in terms of places. *)
<1>5. /\ next' \in [Timers -> Timers \cup {NULL}] /\ prev' \in [Timers -> Timers \cup {NULL}]
      /\ next'[timer] = NULL
      /\ \A t \in Timers : t \notin live => next'[t] = NULL
      /\ TakenOut(k, n, s, head, next, prev, head', next', prev')
      /\ n # 1 => tail' = IF k = n THEN s[n - 1] ELSE s[n]
  <2>1. CASE timer = head /\ timer = tail
    <3>1. head' = NULL /\ tail' = NULL /\ next' = nx /\ prev' = pv /\ k = 1 /\ n = 1
      BY <1>3, <2>1 DEF delTimer, nx, pv
    <3>2. TakenOut(k, n, s, head, next, prev, head', next', prev')
      BY <1>3, <3>1 DEF TakenOut
    <3> QED
      BY <1>0, <1>4, <3>1, <3>2
  <2>2. CASE timer = head /\ timer # tail
    <3>1. /\ k = 1 /\ n # 1 /\ 2 \in 1..n /\ next[head] = s[2]
          /\ head' = s[2] /\ tail' = tail /\ next' = nx
          /\ prev' = [pv EXCEPT ![s[2]] = NULL]
      <4>1. k = 1 /\ n # 1 /\ 2 \in 1..n /\ next[head] = s[2]
        BY <1>3, <2>2
      <4> QED
        BY <2>2, <4>1 DEF delTimer, nx, pv
    <3>2. \A i \in 1..n : i # k => next'[s[i]] = IF i = k - 1 THEN next[s[k]] ELSE next[s[i]]
      BY <1>3, <1>4, <3>1
    <3>3. \A i \in 1..n : i # k => prev'[s[i]] = IF i = k + 1 THEN prev[s[k]] ELSE prev[s[i]]
      BY <1>3, <1>4, <3>1
    <3>4. TakenOut(k, n, s, head, next, prev, head', next', prev')
      BY <1>3, <3>1, <3>2, <3>3 DEF TakenOut
    <3> QED
      BY <1>0, <1>3, <1>4, <3>1, <3>4
  <2>3. CASE timer # head /\ timer = tail
    <3>1. /\ k = n /\ n # 1 /\ n - 1 \in 1..n /\ prev[tail] = s[n - 1]
          /\ head' = head /\ tail' = s[n - 1] /\ prev' = pv
          /\ next' = [nx EXCEPT ![s[n - 1]] = NULL]
      <4>1. k = n /\ n # 1 /\ n - 1 \in 1..n /\ prev[tail] = s[n - 1]
        BY <1>3, <2>3
      <4> QED
        BY <2>3, <4>1 DEF delTimer, nx, pv
    <3>2. \A i \in 1..n : i # k => next'[s[i]] = IF i = k - 1 THEN next[s[k]] ELSE next[s[i]]
      BY <1>3, <1>4, <3>1
    <3>3. \A i \in 1..n : i # k => prev'[s[i]] = IF i = k + 1 THEN prev[s[k]] ELSE prev[s[i]]
      BY <1>3, <1>4, <3>1
    <3>4. TakenOut(k, n, s, head, next, prev, head', next', prev')
      BY <1>3, <3>1, <3>2, <3>3 DEF TakenOut
    <3> QED
      BY <1>0, <1>3, <1>4, <3>1, <3>4
  <2>4. CASE timer # head /\ timer # tail
    <3>1. /\ k # 1 /\ k # n /\ k - 1 \in 1..n /\ k + 1 \in 1..n
          /\ prev[timer] = s[k - 1] /\ next[timer] = s[k + 1]
          /\ head' = head /\ tail' = tail
          /\ next' = [nx EXCEPT ![s[k - 1]] = s[k + 1]]
          /\ prev' = [pv EXCEPT ![s[k + 1]] = s[k - 1]]
      <4>1. /\ k # 1 /\ k # n /\ k - 1 \in 1..n /\ k + 1 \in 1..n
            /\ prev[timer] = s[k - 1] /\ next[timer] = s[k + 1]
        BY <1>3, <2>4
      <4> QED
        BY <2>4, <4>1 DEF delTimer, nx, pv
    <3>2. \A i \in 1..n : i # k => next'[s[i]] = IF i = k - 1 THEN next[s[k]] ELSE next[s[i]]
      BY <1>3, <1>4, <3>1
    <3>3. \A i \in 1..n : i # k => prev'[s[i]] = IF i = k + 1 THEN prev[s[k]] ELSE prev[s[i]]
      BY <1>3, <1>4, <3>1
    <3>4. TakenOut(k, n, s, head, next, prev, head', next', prev')
      BY <1>3, <3>1, <3>2, <3>3 DEF TakenOut
    <3> QED
      BY <1>0, <1>3, <1>4, <3>1, <3>4
  <2> QED
    BY <2>1, <2>2, <2>3, <2>4
<1>6. TickAtHead'
  BY <1>0 DEF TickAtHead, Inductive
<1> QED
  BY <1>0, <1>3, <1>5, <1>6, RemovalPreserves

(* adjustTimer takes the timer out and puts it back further down. *)
LEMMA AdjustPreserves ==
    ASSUME Inductive, NEW timer \in Timers, adjustTimer(timer)
    PROVE  Inductive'
<1> DEFINE e == now + Timeout
           after == next[timer]
           first == timer = head
           hd == IF first THEN after ELSE head
           nx == [t \in Timers |-> IF t = timer THEN NULL
                                   ELSE IF next[t] = timer THEN after ELSE next[t]]
           pv == [prev EXCEPT ![after] = IF first THEN NULL ELSE prev[timer],
                              ![timer] = IF first THEN @ ELSE NULL]
<1>0. /\ timer \in live /\ live \subseteq Timers /\ cur = NULL
      /\ live' = live
      /\ expire' = [expire EXCEPT ![timer] = e]
      /\ UNCHANGED <<now, setback, cur, tmp>>
      /\ next \in [Timers -> Timers \cup {NULL}] /\ prev \in [Timers -> Timers \cup {NULL}]
      /\ \A t \in Timers : t \notin live => next[t] = NULL
  BY DEF adjustTimer, links, clockVars, tickVars, Inductive, TypeOK, OneThread
<1>1. PICK n, s, k : Standing(timer, k, n, s)
  BY <1>0, TimerHasPlace
<1>n. n \in Nat /\ k \in 1..n
  BY <1>1 DEF Standing
<1> USE <1>n
<1>3. /\ Walkable(n, s, live, head, next, prev)
      /\ timer = s[k]
      /\ head = s[1] /\ tail = s[n]
      /\ timer = head <=> k = 1
      /\ \A i \in 1..n : s[i] \in live /\ s[i] \in Timers /\ s[i] # NULL
      /\ \A i \in 1..n : next[s[i]] = IF i = n THEN NULL ELSE s[i + 1]
      /\ \A i \in 1..n : prev[s[i]] = IF i = 1 THEN NULL ELSE s[i - 1]
      /\ \A i, j \in 1..n : s[i] = s[j] <=> i = j
  BY <1>1 DEF Standing
<1>4. /\ e \in 0..MaxTime + Timeout /\ e \in Int
      /\ \A t \in Timers : expire[t] \in Int /\ (t # timer => expire'[t] = expire[t])
      /\ expire'[timer] = e
      /\ expire' \in [Timers -> 0..MaxTime + Timeout]
  BY <1>0, TimeoutAssumption DEF Inductive, TypeOK
<1>5. ~setback => \A t \in live : expire[t] <= e
  BY DEF Inductive, DeadlinesNear, e
<1>6. ASSUME next' \in [Timers -> Timers \cup {NULL}], prev' \in [Timers -> Timers \cup {NULL}],
             OneThread', Sorted'
      PROVE  Inductive'
  <2>1. FieldTypes'
    BY <1>0, <1>4, <1>6 DEF FieldTypes, Inductive, TypeOK
  <2>2. DeadlinesNear'
    BY <1>0, <1>4, <1>5, SMT DEF DeadlinesNear, e, Inductive, TypeOK
  <2>3. TickAtHead'
    <3>1. head' = head \/ cur' = NULL
      BY <1>0
    <3> QED
      BY <1>0, <3>1 DEF TickAtHead, Inductive
  <2> QED
    BY <1>6, <2>1, <2>2, <2>3, TypesFollow, PTL DEF Inductive
<1>7. CASE (after # NULL => e < expire[after]) /\ UNCHANGED links
  <2>1. OneThread'
    BY <1>7 DEF OneThread, links, Inductive
  <2>2. Sorted'
    <3> SUFFICES ASSUME ~setback, NEW t \in live, next[t] # NULL
                 PROVE  expire'[t] <= expire'[next[t]]
      BY <1>0, <1>7 DEF Sorted, links
    <3>1. t \in Timers /\ next[t] \in live /\ next[t] \in Timers /\ expire[t] <= expire[next[t]]
      BY <1>0 DEF Inductive, Sorted, TypeOK
    <3>2. CASE t = timer
      BY <1>4, <1>7, <3>1, <3>2
    <3>3. CASE t # timer
      BY <1>4, <1>5, <3>1, <3>3
    <3> QED
      BY <3>2, <3>3
  <2> QED
    BY <1>0, <1>6, <1>7, <2>1, <2>2 DEF links
<1>8. CASE /\ after # NULL
           /\ head' = hd
           /\ LinkAfter(timer, Place(after, e, nx), nx, pv)
  <2> DEFINE r == Without(n, s, k)
             rest == live \ {timer}
  <2>1. k # n /\ k + 1 \in 1..n /\ after = s[k + 1] /\ after \in Timers /\ after # timer
    BY <1>3, <1>8
  <2>2. /\ nx \in [Timers -> Timers \cup {NULL}]
        /\ nx[timer] = NULL
        /\ \A t \in Timers : t # timer => nx[t] = IF next[t] = timer THEN after ELSE next[t]
        /\ \A t \in Timers : t # timer /\ t # after => pv[t] = prev[t]
        /\ pv[after] = IF k = 1 THEN NULL ELSE s[k - 1]
        /\ hd = IF k = 1 THEN next[s[1]] ELSE head
        /\ pv \in [Timers -> Timers \cup {NULL}]
    <3>1. prev[timer] = IF k = 1 THEN NULL ELSE s[k - 1]
      BY <1>3
    <3>2. pv[after] = IF k = 1 THEN NULL ELSE s[k - 1]
      BY <1>0, <1>3, <2>1, <3>1
    <3>3. pv \in [Timers -> Timers \cup {NULL}]
      <4>1. prev[timer] \in Timers \cup {NULL}
        BY <1>0
      <4> QED
        BY <1>0, <4>1
    <3>4. hd = IF k = 1 THEN next[s[1]] ELSE head
      BY <1>3
    <3> QED
      BY <1>0, <2>1, <3>2, <3>3, <3>4
  <2> HIDE DEF nx, pv, hd
  <2>3. TakenOut(k, n, s, head, next, prev, hd, nx, pv)
    <3>1. ASSUME NEW i \in 1..n, i # k PROVE nx[s[i]] = IF i = k - 1 THEN next[s[k]] ELSE next[s[i]]
      <4>1. s[i] \in Timers /\ s[i] # timer
        BY <1>3, <3>1
      <4>2. next[s[i]] = timer <=> i = k - 1
        BY <1>3, <3>1
      <4> QED
        BY <1>3, <2>2, <4>1, <4>2
    <3>2. ASSUME NEW i \in 1..n, i # k PROVE pv[s[i]] = IF i = k + 1 THEN prev[s[k]] ELSE prev[s[i]]
      <4>1. s[i] \in Timers /\ s[i] # timer
        BY <1>3, <3>2
      <4>2. s[i] = after <=> i = k + 1
        BY <1>3, <2>1
      <4> QED
        BY <1>3, <2>2, <4>1, <4>2
    <3> QED
      BY <1>3, <2>2, <3>1, <3>2 DEF TakenOut
  <2>4. Threaded(n - 1, r, rest, hd, nx, pv)
    BY <1>3, <2>3, Unlinked
  <2>5. Walkable(n - 1, r, rest, hd, nx, pv)
    <3>1. \A t \in Timers : t \notin rest => nx[t] = NULL
      BY <1>0, <2>2, TimersAssumption
    <3> QED
      BY <1>0, <2>2, <2>4, <3>1 DEF Walkable
  <2>6. k \in 1..n - 1 /\ after = r[k] /\ (n - 1 # 0 => tail = r[n - 1])
    BY <1>3, <2>1 DEF Without
  <2> HIDE DEF r, rest
  <2>7. PICK j \in k..n - 1 : /\ Place(after, e, nx) = r[j]
                              /\ j < n - 1 => e < expire[r[j + 1]]
    <3>1. \E j \in k..n - 1 : /\ Place(after, e, nx) = r[j]
                              /\ j < n - 1 => e < expire[r[j + 1]]
                              /\ \A i \in k + 1 .. j : ~(e < expire[r[i]])
      <4> DEFINE m == n - 1
      <4>1. /\ m \in Nat /\ k \in 1..m /\ Walkable(m, r, rest, hd, nx, pv)
            /\ StartsAt(after, k, m, r)
        BY <2>5, <2>6 DEF StartsAt
      <4> HIDE DEF e, after, m
      <4>2. \E j \in k..m : /\ Place(after, e, nx) = r[j]
                            /\ j < m => e < expire[r[j + 1]]
                            /\ \A i \in k + 1 .. j : ~(e < expire[r[i]])
        BY <4>1, PlaceFound
      <4> QED
        BY <4>2 DEF m
    <3> QED
      BY <3>1
  <2>8. j \in 1..n - 1 /\ timer \in Timers /\ timer \notin rest /\ rest \cup {timer} = live
    BY <1>0 DEF rest
  <2>9. /\ Threaded(n - 1 + 1, With(n - 1, r, j, timer), rest \cup {timer}, hd, next', prev')
        /\ tail' = With(n - 1, r, j, timer)[n - 1 + 1]
        /\ next'[timer] = nx[r[j]]
        /\ \A t \in Timers : t # timer => next'[t] = IF t = r[j] THEN timer ELSE nx[t]
    <3> HIDE DEF e, after
    <3>1. LinkAfter(timer, Place(after, e, nx), nx, pv) /\ Place(after, e, nx) = r[j]
      BY <1>8, <2>7
    <3> DEFINE m == n - 1
    <3>2. /\ m \in Nat /\ Walkable(m, r, rest, hd, nx, pv) /\ j \in 1..m
          /\ m # 0 => tail = r[m]
      BY <2>5, <2>6, <2>8
    <3> HIDE DEF m
    <3>3. /\ Threaded(m + 1, With(m, r, j, timer), rest \cup {timer}, hd, next', prev')
          /\ tail' = With(m, r, j, timer)[m + 1]
          /\ next'[timer] = nx[r[j]]
          /\ \A t \in Timers : t # timer => next'[t] = IF t = r[j] THEN timer ELSE nx[t]
      BY <2>8, <3>1, <3>2, LinkAfterLinks
    <3> QED
      BY <3>3 DEF m
  <2>10. n - 1 + 1 = n
    OBVIOUS
  <2>11. \A i \in 1..n - 1 : r[i] \in rest /\ r[i] \in live /\ r[i] \in Timers /\ r[i] # timer
    BY <1>0, <2>4 DEF Threaded, rest
  <2>12. next' \in [Timers -> Timers \cup {NULL}] /\ prev' \in [Timers -> Timers \cup {NULL}]
    BY <1>8, <2>2, <2>7, <2>8, <2>11 DEF LinkAfter
  <2>13. OneThread'
    <3>1. live' \subseteq Timers /\ \A t \in Timers : t \notin live' => next'[t] = NULL
      BY <1>0, <2>2, <2>8, <2>9, <2>11, TimersAssumption
    <3>2. Threaded(n, With(n - 1, r, j, timer), live', head', next', prev')
      BY <1>0, <1>8, <2>8, <2>9, <2>10
    <3>3. n # 0 => tail' = With(n - 1, r, j, timer)[n]
      BY <2>9, <2>10
    <3> QED
      BY <3>1, <3>2, <3>3, ThreadAfter
  <2>14. Sorted'
    <3> SUFFICES ASSUME ~setback, NEW t \in live, next'[t] # NULL
                 PROVE  expire'[t] <= expire'[next'[t]]
      BY <1>0 DEF Sorted
    <3>1. j = n - 1
      <4>1. j < n - 1 => j + 1 \in 1..n - 1
        BY <2>8
      <4>2. j < n - 1 => r[j + 1] \in live /\ expire[r[j + 1]] <= e /\ expire[r[j + 1]] \in Int
        BY <1>0, <1>4, <1>5, <2>11, <4>1
      <4> QED
        BY <1>4, <2>7, <2>8, <4>2
    <3>2. next'[timer] = NULL /\ t # timer /\ t \in Timers
      <4>1. nx[r[j]] = NULL
        BY <2>4, <2>8, <3>1 DEF Threaded
      <4> QED
        BY <1>0, <2>9, <4>1
    <3>3. CASE t = r[j]
      BY <1>0, <1>4, <1>5, <2>9, <3>2, <3>3
    <3>4. CASE t # r[j]
      <4>1. next'[t] = IF next[t] = timer THEN after ELSE next[t]
        BY <2>2, <2>9, <3>2, <3>4
      <4>2. CASE next[t] = timer
        <5>1. expire[t] <= expire[timer] /\ expire[timer] <= expire[after]
          BY <1>0, <1>3, <1>8, <4>2 DEF Inductive, Sorted
        <5>2. expire[t] \in Int /\ expire[timer] \in Int /\ expire[after] \in Int
          BY <1>0, <1>4, <2>1, <3>2
        <5>3. expire'[t] = expire[t] /\ expire'[after] = expire[after]
          BY <1>4, <2>1, <3>2
        <5> QED
          BY <4>1, <4>2, <5>1, <5>2, <5>3
      <4>3. CASE next[t] # timer
        <5>1. next'[t] = next[t] /\ next[t] # NULL /\ next[t] \in Timers
          BY <1>0, <4>1, <4>3, <3>2
        <5>2. expire[t] <= expire[next[t]]
          BY <5>1 DEF Inductive, Sorted
        <5> QED
          BY <1>4, <3>2, <4>3, <5>1, <5>2
      <4> QED
        BY <4>2, <4>3
    <3> QED
      BY <3>3, <3>4
  <2> QED
    BY <1>6, <2>12, <2>13, <2>14
<1> QED
  BY <1>7, <1>8 DEF adjustTimer

LEMMA ExpirePreserves ==
    ASSUME Inductive, TickExpire
    PROVE  Inductive'
<1>0. /\ tmp = head /\ tmp # NULL /\ tmp \in live /\ live \subseteq Timers /\ cur # NULL
      /\ head' = next[tmp] /\ tmp' = next[tmp] /\ tail' = tail
      /\ live' = live \ {tmp}
      /\ expire' = [expire EXCEPT ![tmp] = 0]
      /\ next' = [next EXCEPT ![tmp] = NULL]
      /\ prev' = [t \in Timers |-> IF t \in {tmp, next[tmp]} THEN NULL ELSE prev[t]]
      /\ UNCHANGED <<now, setback, cur>>
      /\ next \in [Timers -> Timers \cup {NULL}] /\ prev \in [Timers -> Timers \cup {NULL}]
      /\ \A t \in Timers : t \notin live => next[t] = NULL
  BY DEF TickExpire, clockVars, Inductive, TypeOK, TickAtHead, OneThread
<1>1. PICK n, s, k : Standing(tmp, k, n, s)
  BY <1>0, TimerHasPlace
<1>n. n \in Nat /\ k \in 1..n
  BY <1>1 DEF Standing
<1> USE <1>n
<1>3. /\ Walkable(n, s, live, head, next, prev)
      /\ tmp = s[k]
      /\ head = s[1] /\ tail = s[n]
      /\ tmp = head <=> k = 1
      /\ \A i \in 1..n : s[i] \in live /\ s[i] \in Timers /\ s[i] # NULL
      /\ \A i \in 1..n : next[s[i]] = IF i = n THEN NULL ELSE s[i + 1]
      /\ \A i \in 1..n : prev[s[i]] = IF i = 1 THEN NULL ELSE s[i - 1]
      /\ \A i, j \in 1..n : s[i] = s[j] <=> i = j
  BY <1>1 DEF Standing
<1>4. k = 1
  BY <1>0, <1>3
<1>5. /\ next' \in [Timers -> Timers \cup {NULL}] /\ prev' \in [Timers -> Timers \cup {NULL}]
      /\ next'[tmp] = NULL
      /\ \A t \in Timers : t \notin live => next'[t] = NULL
  BY <1>0
<1>6. TakenOut(k, n, s, head, next, prev, head', next', prev')
  <2>1. \A i \in 1..n : i # k => next'[s[i]] = IF i = k - 1 THEN next[s[k]] ELSE next[s[i]]
    BY <1>0, <1>3, <1>4
  <2>2. \A i \in 1..n : i # k => prev'[s[i]] = IF i = k + 1 THEN prev[s[k]] ELSE prev[s[i]]
    <3> TAKE i \in 1..n
    <3>1. s[i] = next[tmp] <=> i = k + 1
      BY <1>3, <1>4
    <3>2. prev[s[k]] = NULL
      BY <1>3, <1>4
    <3> QED
      BY <1>0, <1>3, <3>1, <3>2
  <2> QED
    BY <1>0, <1>3, <1>4, <2>1, <2>2 DEF TakenOut
<1>7. n # 1 => tail' = IF k = n THEN s[n - 1] ELSE s[n]
  BY <1>0, <1>3, <1>4
<1>8. TickAtHead'
  BY <1>0 DEF TickAtHead
<1> QED
  BY <1>0, <1>3, <1>5, <1>6, <1>7, <1>8, RemovalPreserves

(* A tick that starts or ends, and the clock, leave the list alone. *)
LEMMA OthersPreserve ==
    ASSUME Inductive, TickBegin \/ TickEnd \/ Clock \/ UNCHANGED vars
    PROVE  Inductive'
<1>1. UNCHANGED links /\ expire' = expire
  BY DEF TickBegin, TickEnd, Clock, vars, links
<1>2. OneThread'
  BY <1>1 DEF OneThread, links, Inductive
<1>3. now \in Int /\ Timeout \in Int /\ \A t \in live : expire[t] \in Int
  BY TimeoutAssumption DEF Inductive, TypeOK
<1>4. now' \in 0..MaxTime /\ setback' \in BOOLEAN /\ (~setback' => ~setback /\ now <= now')
  <2>1. CASE Clock
    <3>1. PICK d \in Steps : now + d \in 0..MaxTime /\ now' = now + d /\ setback' = (setback \/ d < 0)
      BY <2>1 DEF Clock
    <3>2. d \in Int /\ setback' \in BOOLEAN /\ now' \in 0..MaxTime
      BY <3>1, TimeoutAssumption
    <3>3. ~setback' => ~setback /\ ~(d < 0)
      BY <3>1, Zenon
    <3>4. ~(d < 0) => now <= now'
      BY <1>3, <3>1, <3>2
    <3> QED
      BY <3>2, <3>3, <3>4
  <2>2. CASE ~Clock
    BY <1>3, <2>2 DEF TickBegin, TickEnd, vars, clockVars, Inductive, TypeOK
  <2> QED
    BY <2>1, <2>2
<1>5. Sorted' /\ DeadlinesNear'
  <2>1. Sorted'
    BY <1>1, <1>4 DEF Sorted, links, Inductive
  <2>2. DeadlinesNear'
    BY <1>1, <1>3, <1>4 DEF DeadlinesNear, links, Inductive
  <2> QED
    BY <2>1, <2>2
<1>6. TickAtHead' /\ cur' \in 0..MaxTime \cup {NULL}
  <2>1. CASE TickBegin
    <3>1. now \in 0..MaxTime /\ now # NULL
      BY TimersAssumption, TimeoutAssumption DEF Inductive, TypeOK
    <3> QED
      BY <1>1, <2>1, <3>1 DEF TickBegin, TickAtHead, links
  <2>2. CASE TickEnd
    BY <2>2 DEF TickEnd, TickAtHead
  <2>3. CASE Clock \/ UNCHANGED vars
    BY <1>1, <2>3 DEF Clock, vars, tickVars, TickAtHead, links, Inductive, TypeOK
  <2> QED
    BY <2>1, <2>2, <2>3
<1>7. FieldTypes'
  BY <1>1, <1>4, <1>6 DEF FieldTypes, links, Inductive, TypeOK
<1> QED
  BY <1>2, <1>5, <1>6, <1>7, TypesFollow, PTL DEF Inductive

(* Whatever the order of the calls, and however the clock moves, the nodes *)
(* that are allocated are one doubly linked list from head to tail, tick   *)
(* is at its head, and until the clock is set back the list is sorted and  *)
(* no deadline is further away than a timeout.                             *)
THEOREM TimersConsistent == Spec => []Inductive
<1>1. Inductive /\ [Next]_vars => Inductive'
  <2> SUFFICES ASSUME Inductive, [Next]_vars PROVE Inductive'
    OBVIOUS
  <2>1. ASSUME NEW timer \in Timers, addTimer(timer) PROVE Inductive'
    BY <2>1, AddPreserves
  <2>2. ASSUME NEW timer \in Timers, adjustTimer(timer) PROVE Inductive'
    BY <2>2, AdjustPreserves
  <2>3. ASSUME NEW timer \in Timers, delTimer(timer) PROVE Inductive'
    BY <2>3, DelPreserves
  <2>4. CASE TickExpire
    BY <2>4, ExpirePreserves
  <2>5. CASE TickBegin \/ TickEnd \/ Clock \/ UNCHANGED vars
    BY <2>5, OthersPreserve
  <2> QED
    BY <2>1, <2>2, <2>3, <2>4, <2>5 DEF Next
<1> QED
  BY <1>1, InitEstablishes, PTL DEF Spec

(* lst_timer.h:38: the list stays ascending as long as the clock is not    *)
(* set back.                                                               *)
THEOREM TimersSorted == Spec => []Sorted
<1>1. Inductive => Sorted
  BY DEF Inductive
<1> QED
  BY <1>1, TimersConsistent, PTL

-----------------------------------------------------------------------------
(* What follows from the thread.                                           *)

(* next leads from the head through the thread and then to NULL. *)
LEMMA ReachedThread ==
    ASSUME NEW n, NEW s, Holding(n, s)
    PROVE  /\ n \in 0..Cardinality(Timers) /\ Cardinality(Timers) \in Nat
           /\ DOMAIN Reached = 0..Cardinality(Timers)
           /\ \A m \in 0..Cardinality(Timers) : Reached[m] = IF m < n THEN s[m + 1] ELSE NULL
<1> DEFINE C == Cardinality(Timers)
           Step(f, m) == IF m = 0 THEN head ELSE IF f[m - 1] = NULL THEN NULL ELSE next[f[m - 1]]
           Path(f) == f = [m \in 0..C |-> Step(f, m)]
           path == CHOOSE f : Path(f)
           g == [m \in 0..C |-> IF m < n THEN s[m + 1] ELSE NULL]
<1>1. /\ n \in Nat
      /\ n = 0 <=> head = NULL
      /\ n # 0 => head = s[1]
      /\ \A i \in 1..n : s[i] \in Timers /\ s[i] # NULL
      /\ \A i \in 1..n : next[s[i]] = IF i = n THEN NULL ELSE s[i + 1]
      /\ Threaded(n, s, live, head, next, prev)
  BY DEF Holding, Threaded
<1>2. C \in Nat /\ n \in 0..C
  <2>1. C \in Nat
    BY TimersAssumption, FS_CardinalityType
  <2>2. s \in [1..n -> Timers] /\ \A i, j \in 1..n : s[i] = s[j] => i = j
    BY <1>1 DEF Threaded
  <2> QED
    BY <1>1, <2>1, <2>2, ThreadIsShort
<1> HIDE DEF C
<1>3. Path(g)
  <2>1. ASSUME NEW m \in 0..C PROVE g[m] = Step(g, m)
    <3>1. CASE m = 0
      BY <1>1, <1>2, <3>1
    <3>2. CASE m # 0
      <4>1. m - 1 \in 0..C /\ g[m - 1] = IF m - 1 < n THEN s[m] ELSE NULL
        BY <1>2, <3>2
      <4>2. CASE m <= n
        <5>1. g[m - 1] = s[m] /\ s[m] # NULL /\ next[s[m]] = IF m = n THEN NULL ELSE s[m + 1]
          BY <1>1, <1>2, <3>2, <4>1, <4>2
        <5> QED
          BY <1>1, <1>2, <3>2, <4>2, <5>1
      <4>3. CASE ~(m <= n)
        BY <1>1, <3>2, <4>1, <4>3
      <4> QED
        BY <4>2, <4>3
    <3> QED
      BY <3>1, <3>2
  <2> HIDE DEF Step
  <2> QED
    BY <2>1
<1>4. Path(path)
  <2> HIDE DEF Path, g
  <2> QED
    BY <1>3
<1>5. Reached = path
  BY DEF Reached, C
<1> HIDE DEF path
<1>6. DOMAIN path = 0..C /\ \A m \in 0..C : path[m] = Step(path, m)
  <2> HIDE DEF Step
  <2> QED
    BY <1>4
<1>7. \A m \in 0..C : path[m] = g[m]
  <2> DEFINE Astray == {m \in 0..C : path[m] # g[m]}
  <2> SUFFICES ASSUME Astray # {} PROVE FALSE
    OBVIOUS
  <2>1. Astray \in SUBSET Nat
    BY <1>2
  <2>2. PICK m \in Astray : \A i \in Astray : m <= i
    BY <2>1, LeastExists
  <2>3. g[m] = Step(g, m)
    <3> HIDE DEF Step
    <3> QED
      BY <1>3, <2>2
  <2>4. m # 0 /\ m - 1 \in 0..C
    BY <1>2, <1>6, <2>2, <2>3
  <2>5. path[m - 1] = g[m - 1]
    BY <2>2, <2>4
  <2> HIDE DEF g
  <2> QED
    BY <1>6, <2>2, <2>3, <2>5
<1> QED
  BY <1>2, <1>5, <1>6, <1>7 DEF C

(* The links are one list of all the timers, in both directions, from head *)
(* to tail: no timer is lost, or visited twice, by tick.                   *)
THEOREM TimersWellLinked == Spec => []WellLinked
<1>1. Inductive => WellLinked
  <2> SUFFICES ASSUME Inductive PROVE WellLinked
    OBVIOUS
  <2> DEFINE C == Cardinality(Timers)
  <2>1. PICK n, s : Holding(n, s)
    BY InvariantGives
  <2>2. /\ n \in 0..C /\ C \in Nat /\ DOMAIN Reached = 0..C
        /\ \A m \in 0..C : Reached[m] = IF m < n THEN s[m + 1] ELSE NULL
    BY <2>1, ReachedThread
  <2>3. /\ n \in Nat /\ (n # 0 => tail = s[n] /\ head = s[1]) /\ (n = 0 <=> head = NULL)
        /\ \A i \in 1..n : s[i] \in live /\ s[i] # NULL
        /\ \A t \in live : \E i \in 1..n : s[i] = t
        /\ \A i \in 1..n : next[s[i]] = IF i = n THEN NULL ELSE s[i + 1]
        /\ \A i \in 1..n : prev[s[i]] = IF i = 1 THEN NULL ELSE s[i - 1]
    BY <2>1 DEF Holding, Threaded
  <2> HIDE DEF C
  <2>4. {Reached[m] : m \in DOMAIN Reached} \ {NULL} = live
    <3>1. ASSUME NEW m \in 0..C, Reached[m] # NULL PROVE Reached[m] \in live
      <4>1. m < n /\ m + 1 \in 1..n /\ Reached[m] = s[m + 1]
        BY <2>2, <2>3, <3>1
      <4> QED
        BY <2>3, <4>1
    <3>2. ASSUME NEW t \in live PROVE t # NULL /\ \E m \in 0..C : Reached[m] = t
      <4>1. PICK i \in 1..n : s[i] = t
        BY <2>3
      <4>2. i - 1 \in 0..C /\ i - 1 < n /\ (i - 1) + 1 = i
        BY <2>2
      <4>3. Reached[i - 1] = s[i]
        BY <2>2, <4>2
      <4> QED
        BY <2>3, <4>1, <4>2, <4>3
    <3> QED
      BY <2>2, <3>1, <3>2
  <2>5. Reached[C] = NULL
    BY <2>2
  <2>6. ASSUME NEW t \in live, next[t] # NULL PROVE prev[next[t]] = t
    <3>1. PICK i \in 1..n : s[i] = t
      BY <2>3
    <3>2. i # n /\ i + 1 \in 1..n /\ next[t] = s[i + 1]
      BY <2>3, <2>6, <3>1
    <3> QED
      BY <2>3, <3>1, <3>2
  <2>7. head # NULL => prev[head] = NULL /\ tail \in live /\ next[tail] = NULL
    <3>1. n # 0 => 1 \in 1..n /\ n \in 1..n
      BY <2>3
    <3> QED
      BY <2>3, <3>1
  <2> QED
    BY <2>4, <2>5, <2>6, <2>7 DEF WellLinked, C
<1> QED
  BY <1>1, TimersConsistent, PTL

-----------------------------------------------------------------------------
(* The list is a set of deadlines.                                         *)

Deadline == [t \in Timers |-> IF t \in live THEN expire[t] ELSE NULL]

(* A sorted list whose head has not expired has no timer that has. *)
LEMMA NoneExpired ==
    ASSUME Inductive, ~setback, head # NULL => expire[head] > cur, cur \in Int,
           NEW t \in live
    PROVE  ~(expire[t] <= cur)
<1>1. PICK n, s : Holding(n, s)
  BY InvariantGives
<1>2. /\ n \in Nat /\ (n # 0 => head = s[1]) /\ (n = 0 <=> head = NULL)
      /\ \A i \in 1..n : s[i] \in live /\ s[i] # NULL
      /\ \A u \in live : \E i \in 1..n : s[i] = u
      /\ \A i \in 1..n : next[s[i]] = IF i = n THEN NULL ELSE s[i + 1]
  BY <1>1 DEF Holding, Threaded
<1>3. \A u \in live : expire[u] \in Int
  BY TimeoutAssumption DEF Inductive, TypeOK
<1> DEFINE Passed == {i \in 1..n : expire[s[i]] <= cur}
<1> SUFFICES ASSUME expire[t] <= cur PROVE FALSE
  OBVIOUS
<1>4. Passed # {} /\ Passed \in SUBSET Nat
  BY <1>2
<1>5. PICK i \in Passed : \A j \in Passed : i <= j
  BY <1>4, LeastExists
<1>6. i # 1
  <2>1. i = 1 => expire[head] <= cur /\ head \in live /\ head # NULL
    BY <1>2, <1>5
  <2> QED
    BY <1>3, <2>1
<1>7. i - 1 \in 1..n /\ i \in 1..n /\ i - 1 # n
  BY <1>2, <1>5, <1>6
<1>8. next[s[i - 1]] = s[i] /\ s[i] # NULL /\ s[i - 1] \in live /\ s[i] \in live
  BY <1>2, <1>7
<1>9. expire[s[i - 1]] <= expire[s[i]] /\ expire[s[i]] <= cur
  <2>1. expire[s[i - 1]] <= expire[s[i]]
    BY <1>8 DEF Inductive, Sorted
  <2> QED
    BY <1>5, <2>1
<1>10. i - 1 \in Passed
  BY <1>3, <1>7, <1>8, <1>9
<1> QED
  BY <1>5, <1>7, <1>10

LEMMA StepImplements ==
    ASSUME Inductive, Next
    PROVE  setback' \/ Abstract!Next \/ UNCHANGED <<Deadline, now, cur>>
<1> USE DEF Deadline
<1>0. /\ \A t \in live : t \in Timers /\ expire[t] \in Int /\ expire[t] # NULL
      /\ live \subseteq Timers /\ expire \in [Timers -> 0..MaxTime + Timeout] /\ now \in Int
      /\ now + Timeout \in 0..MaxTime + Timeout
      /\ NULL \notin Int /\ NULL \notin Timers /\ cur \in Int \cup {NULL}
  BY TimersAssumption, TimeoutAssumption DEF Inductive, TypeOK
<1>1. ASSUME NEW timer \in Timers, addTimer(timer) PROVE Abstract!Next
  <2>1. Deadline' = [Deadline EXCEPT ![timer] = now + Timeout]
    BY <1>0, <1>1 DEF addTimer
  <2>2. Abstract!Set(timer)
    BY <1>1, <2>1 DEF addTimer, clockVars, tickVars, Abstract!Set
  <2> QED
    BY <2>2 DEF Abstract!Next
<1>2. ASSUME NEW timer \in Timers, adjustTimer(timer) PROVE Abstract!Next
  <2>1. Deadline' = [Deadline EXCEPT ![timer] = now + Timeout]
    <3>1. live' = live /\ timer \in live /\ expire' = [expire EXCEPT ![timer] = now + Timeout]
      BY <1>2 DEF adjustTimer, links
    <3> QED
      BY <1>0, <3>1
  <2>2. Abstract!Set(timer)
    BY <1>2, <2>1 DEF adjustTimer, clockVars, tickVars, Abstract!Set
  <2> QED
    BY <2>2 DEF Abstract!Next
<1>3. ASSUME NEW timer \in Timers, delTimer(timer) PROVE Abstract!Next
  <2>1. Deadline' = [Deadline EXCEPT ![timer] = NULL]
    BY <1>0, <1>3 DEF delTimer
  <2>2. Abstract!Remove(timer)
    BY <1>3, <2>1 DEF delTimer, clockVars, tickVars, Abstract!Remove
  <2> QED
    BY <2>2 DEF Abstract!Next
<1>4. CASE TickBegin
  <2>1. Abstract!Begin
    BY <1>4 DEF TickBegin, links, clockVars, Abstract!Begin
  <2> QED
    BY <2>1 DEF Abstract!Next
<1>5. CASE TickExpire
  <2>1. PICK t \in Timers : t = tmp
    BY <1>0, <1>5 DEF TickExpire, Inductive, TypeOK
  <2>2. t \in live /\ expire[t] <= cur /\ cur # NULL
    BY <1>0, <1>5, <2>1 DEF TickExpire, Inductive, TypeOK
  <2>3. Deadline' = [Deadline EXCEPT ![t] = NULL]
    BY <1>0, <1>5, <2>1, <2>2 DEF TickExpire
  <2>4. t \in Abstract!Expired
    BY <1>0, <2>2 DEF Abstract!Expired
  <2>5. Abstract!Fire(t)
    BY <1>5, <2>2, <2>3, <2>4 DEF TickExpire, clockVars, Abstract!Fire
  <2> QED
    BY <2>5 DEF Abstract!Next
<1>6. CASE TickEnd
  <2>1. CASE setback
    BY <1>6, <2>1 DEF TickEnd, clockVars
  <2>2. CASE ~setback
    <3>1. cur # NULL /\ cur \in Int /\ tmp = head /\ (head # NULL => expire[head] > cur)
      BY <1>0, <1>6 DEF TickEnd, Inductive, TickAtHead
    <3>2. \A t \in live : ~(expire[t] <= cur)
      BY <2>2, <3>1, NoneExpired
    <3>3. Abstract!Expired = {}
      BY <1>0, <3>2 DEF Abstract!Expired
    <3>4. Abstract!End
      BY <1>6, <3>1, <3>3 DEF TickEnd, links, clockVars, Abstract!End
    <3> QED
      BY <3>4 DEF Abstract!Next
  <2> QED
    BY <2>1, <2>2
<1>7. CASE Clock
  <2>1. PICK d \in Steps : now + d \in 0..MaxTime /\ now' = now + d /\ setback' = (setback \/ d < 0)
    BY <1>7 DEF Clock
  <2>2. d \in Int
    BY TimeoutAssumption
  <2>3. UNCHANGED <<Deadline, cur>>
    BY <1>7 DEF Clock, links, tickVars
  <2>4. CASE d < 0
    BY <2>1, <2>4, Zenon
  <2>5. CASE d = 0
    BY <1>0, <2>1, <2>3, <2>5
  <2>6. CASE d > 0
    <3>1. now' > now
      BY <1>0, <2>1, <2>2, <2>6
    <3>2. Abstract!Pass
      BY <2>3, <3>1 DEF Abstract!Pass
    <3> QED
      BY <3>2 DEF Abstract!Next
  <2> QED
    BY <2>2, <2>4, <2>5, <2>6
<1> QED
  BY <1>1, <1>2, <1>3, <1>4, <1>5, <1>6, <1>7 DEF Next

(* The list implements the set of deadlines of main(): a tick removes the  *)
(* timers that have expired when it starts, all of them and no other, as   *)
(* long as the clock is not set back.                                      *)
THEOREM TimersAreDeadlines == Spec => ImplementsTimerSet
<1>1. Init => Abstract!Init
  BY DEF Init, Abstract!Init
<1>2. Inductive /\ [Next]_vars => [setback' \/ Abstract!Next]_(Abstract!vars)
  <2> SUFFICES ASSUME Inductive, [Next]_vars
               PROVE  [setback' \/ Abstract!Next]_(Abstract!vars)
    OBVIOUS
  <2>1. CASE Next
    BY <2>1, StepImplements DEF Abstract!vars, Deadline
  <2>2. CASE UNCHANGED vars
    BY <2>2 DEF vars, Abstract!vars
  <2> QED
    BY <2>1, <2>2
<1> QED
  BY <1>1, <1>2, TimersConsistent, PTL DEF Spec, ImplementsTimerSet

=============================================================================

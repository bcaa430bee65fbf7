--------------------------- MODULE KvsRbtreeProofs ---------------------------
(***************************************************************************)
(* The red-black tree for every finite set of keys and every set of        *)
(* values: through rotations and fixups it stays a search tree that obeys  *)
(* the red-black rules, with an exact count, and implements a map.         *)
(***************************************************************************)
EXTENDS KvsRbtree, FiniteSetTheorems, WellFoundedInduction, TLAPS

-----------------------------------------------------------------------------
(* A tree without recursion: b says what hangs below each node.             *)

Before(s, m, n) == IF s = "left" THEN m < n ELSE m > n

(* T is a search tree of the keys in L, and parent is the inverse of child. *)
Tied(T, L, b) ==
    /\ T \in Trees /\ L \in SUBSET TreeKeys /\ b \in [TreeNodes -> SUBSET TreeKeys]
    /\ T.root \in L \cup {NIL}
    /\ \A n \in L : \A s \in Sides : T.child[s][n] \in L \cup {NIL}
    /\ b[NIL] = {} /\ b[T.root] = L
    /\ \A n \in L : b[n] = {n} \cup b[T.child["left"][n]] \cup b[T.child["right"][n]]
    /\ \A n \in L : \A s \in Sides : \A m \in b[T.child[s][n]] : Before(s, m, n)
    /\ \A n \in L : \A s \in Sides : T.child[s][n] # NIL => T.parent[T.child[s][n]] = n
    /\ T.root # NIL => T.parent[T.root] = NIL

LEMMA LeastExists ==
    ASSUME NEW S \in SUBSET Nat, S # {}
    PROVE  \E i \in S : \A j \in S : i <= j
<1>1. \E R : /\ IsWellFoundedOn(R, Nat)
             /\ \A p \in Nat \X Nat : p[1] < p[2] => p \in R
    BY NatLessThanWellFounded, Zenon DEF OpToRel
<1>2. PICK R : /\ IsWellFoundedOn(R, Nat)
               /\ \A p \in Nat \X Nat : p[1] < p[2] => p \in R
    BY <1>1
<1>3. PICK i \in S : \A j \in S : <<j, i>> \notin R
    BY <1>2, WFMin
<1>4. \A j \in S : ~(j < i)
    BY <1>2, <1>3
<1> QED
    BY <1>3, <1>4

LEMMA Own ==
    ASSUME NEW T, NEW L, NEW b, Tied(T, L, b), NEW n \in L
    PROVE  /\ n \in TreeKeys /\ n \in Int /\ n # NIL /\ n \in b[n]
           /\ b[n] \in SUBSET TreeKeys /\ b[NIL] = {}
           /\ b[n] = {n} \cup b[T.child["left"][n]] \cup b[T.child["right"][n]]
           /\ \A s \in Sides : /\ T.child[s][n] \in L \cup {NIL}
                               /\ b[T.child[s][n]] \subseteq b[n] /\ n \notin b[T.child[s][n]]
                               /\ \A m \in b[T.child[s][n]] : Before(s, m, n)
<1>1. /\ n \in TreeKeys /\ n \in Int /\ n # NIL /\ b[NIL] = {}
      /\ b[n] = {n} \cup b[T.child["left"][n]] \cup b[T.child["right"][n]]
  BY TreeAssumption DEF Tied
<1>2. b[n] \in SUBSET TreeKeys
  BY <1>1 DEF Tied, TreeNodes
<1>3. ASSUME NEW s \in Sides
      PROVE  /\ T.child[s][n] \in L \cup {NIL}
             /\ b[T.child[s][n]] \subseteq b[n] /\ n \notin b[T.child[s][n]]
             /\ \A m \in b[T.child[s][n]] : Before(s, m, n)
  <2>1. T.child[s][n] \in L \cup {NIL} /\ \A m \in b[T.child[s][n]] : Before(s, m, n)
    BY DEF Tied
  <2>2. b[T.child[s][n]] \subseteq b[n]
    BY <1>1 DEF Sides
  <2>3. n \notin b[T.child[s][n]]
    BY <1>1, <2>1 DEF Before
  <2> QED
    BY <2>1, <2>2, <2>3
<1> QED
  BY <1>1, <1>2, <1>3

(* A node is among what hangs below it.                                    *)
LEMMA BelowItself ==
    ASSUME NEW T, NEW L, NEW b, Tied(T, L, b), NEW n \in L
    PROVE  n \in b[n] /\ b[NIL] = {}
  BY Own

(* What hangs below a child hangs below the node, which is not among it.   *)
LEMMA BelowChild ==
    ASSUME NEW T, NEW L, NEW b, Tied(T, L, b), NEW n \in L, NEW t \in Sides
    PROVE  b[T.child[t][n]] \subseteq b[n] /\ n \notin b[T.child[t][n]]
  BY Own

(* What hangs below a node is a finite set.                                *)
LEMMA BelowSize ==
    ASSUME NEW T, NEW L, NEW b, Tied(T, L, b), NEW n \in L
    PROVE  Cardinality(b[n]) \in Nat
<1>1. b[n] \in SUBSET TreeKeys
  BY Own
<1> QED
  BY <1>1, TreeAssumption, FS_Subset, FS_CardinalityType

(* Of some nodes there is one with none of them below it. *)
LEMMA Lowest ==
    ASSUME NEW T, NEW L, NEW b, Tied(T, L, b), NEW Bad \in SUBSET L, Bad # {}
    PROVE  \E n \in Bad : \A s \in Sides : T.child[s][n] \notin Bad
<1>1. \A n \in L : /\ b[n] \in SUBSET TreeKeys /\ n \in b[n]
                   /\ \A s \in Sides : b[T.child[s][n]] \subseteq b[n] /\ n \notin b[T.child[s][n]]
  BY Own
<1>2. \A n \in L : /\ IsFiniteSet(b[n]) /\ Cardinality(b[n]) \in Nat
  BY <1>1, TreeAssumption, FS_Subset, FS_CardinalityType
<1> DEFINE Sizes == {Cardinality(b[n]) : n \in Bad}
<1>3. Sizes \in SUBSET Nat /\ Sizes # {}
  BY <1>2
<1>4. PICK i \in Sizes : \A j \in Sizes : i <= j
  <2> HIDE DEF Sizes
  <2> QED
    BY <1>3, LeastExists
<1>5. PICK n \in Bad : i = Cardinality(b[n])
  BY <1>4
<1>6. ASSUME NEW s \in Sides, T.child[s][n] \in Bad PROVE FALSE
  <2> DEFINE c == T.child[s][n]
  <2>1. b[c] \subseteq b[n] /\ b[c] # b[n] /\ IsFiniteSet(b[n]) /\ c \in L /\ n \in L
    BY <1>1, <1>2, <1>6
  <2>2. Cardinality(b[c]) <= Cardinality(b[n]) /\ Cardinality(b[c]) # Cardinality(b[n])
    <3> HIDE DEF c
    <3>1. b[c] \in SUBSET b[n]
      BY <2>1
    <3> QED
      BY <2>1, <3>1, FS_Subset
  <2>3. Cardinality(b[n]) <= Cardinality(b[c])
    BY <1>4, <1>5, <1>6
  <2>4. Cardinality(b[c]) \in Nat /\ Cardinality(b[n]) \in Nat
    BY <1>2, <2>1
  <2> QED
    BY <2>2, <2>3, <2>4
<1> QED
  BY <1>6

(* Every node but the root is a child, *)
LEMMA HasParent ==
    ASSUME NEW T, NEW L, NEW b, Tied(T, L, b), NEW m \in L, m # T.root
    PROVE  T.parent[m] \in L /\ \E s \in Sides : T.child[s][T.parent[m]] = m
<1> DEFINE Bad == {n \in L : m \in b[n] /\ m # n}
<1>1. T.root \in Bad
  BY DEF Tied
<1>2. PICK n \in Bad : \A s \in Sides : T.child[s][n] \notin Bad
  <2>1. Bad \in SUBSET L /\ Bad # {}
    BY <1>1
  <2> HIDE DEF Bad
  <2> QED
    BY <2>1, Lowest
<1>3. PICK s \in Sides : m \in b[T.child[s][n]]
  <2>1. b[n] = {n} \cup b[T.child["left"][n]] \cup b[T.child["right"][n]]
    BY DEF Tied
  <2> QED
    BY <2>1 DEF Sides
<1>4. T.child[s][n] \in L
  BY <1>3 DEF Tied
<1>5. T.child[s][n] = m
  BY <1>2, <1>3, <1>4
<1>6. T.parent[m] = n
  BY <1>5, TreeAssumption DEF Tied
<1> QED
  BY <1>5, <1>6

(* and what hangs below it hangs below all that it hangs from. *)
LEMMA Down ==
    ASSUME NEW T, NEW L, NEW b, Tied(T, L, b), NEW n \in L, NEW m \in b[n]
    PROVE  m \in L /\ b[m] \subseteq b[n] /\ b[n] \subseteq L
<1> DEFINE Out == {k \in L : ~(b[k] \subseteq L)}
           Bad == {k \in L : m \in b[k] /\ ~(b[m] \subseteq b[k])}
<1>1. \A k \in L : b[k] = {k} \cup b[T.child["left"][k]] \cup b[T.child["right"][k]]
  BY DEF Tied
<1>2. \A k \in L : \A s \in Sides : T.child[s][k] \in L \cup {NIL}
  BY DEF Tied
<1>3. b[NIL] = {}
  BY DEF Tied
<1>4. ASSUME Out # {} PROVE FALSE
  <2>1. PICK k \in Out : \A s \in Sides : T.child[s][k] \notin Out
    <3>1. Out \in SUBSET L
      OBVIOUS
    <3> HIDE DEF Out
    <3> QED
      BY <1>4, <3>1, Lowest
  <2> QED
    BY <1>1, <1>2, <1>3, <2>1 DEF Sides
<1>5. ASSUME Bad # {} PROVE FALSE
  <2>1. PICK k \in Bad : \A s \in Sides : T.child[s][k] \notin Bad
    <3>1. Bad \in SUBSET L
      OBVIOUS
    <3> HIDE DEF Bad
    <3> QED
      BY <1>5, <3>1, Lowest
  <2>2. m # k
    OBVIOUS
  <2> QED
    BY <1>1, <1>2, <1>3, <2>1, <2>2 DEF Sides
<1> QED
  BY <1>4, <1>5

(* A node is the child of one node, on one side. *)
LEMMA OneParent ==
    ASSUME NEW T, NEW L, NEW b, Tied(T, L, b), NEW n \in L, NEW m \in L,
           NEW s \in Sides, NEW t \in Sides,
           T.child[s][n] # NIL, T.child[s][n] = T.child[t][m]
    PROVE  n = m /\ s = t
<1> DEFINE c == T.child[s][n]
<1>1. n = m /\ c \in L
  BY DEF Tied
<1>2. c \in b[c]
  BY <1>1 DEF Tied
<1>3. Before(s, c, n) /\ Before(t, c, n)
  BY <1>1, <1>2 DEF Tied
<1>4. c \in Int /\ n \in Int
  BY <1>1, TreeAssumption DEF Tied
<1> QED
  BY <1>1, <1>3, <1>4 DEF Before, Sides

(* rbtree code: x == x->parent->left. *)
LEMMA SideIs ==
    ASSUME NEW T, NEW L, NEW b, Tied(T, L, b), NEW m \in L, m # T.root
    PROVE  /\ SideOf(T, m) \in Sides /\ T.parent[m] \in L
           /\ T.child[SideOf(T, m)][T.parent[m]] = m
           /\ T.child[Other(SideOf(T, m))][T.parent[m]] # m
           /\ T.parent[m] # m
<1>1. T.parent[m] \in L
  BY HasParent
<1>2. PICK s \in Sides : T.child[s][T.parent[m]] = m
  BY HasParent
<1>3. \A t \in Sides : t # s => T.child[t][T.parent[m]] # m
  <2> SUFFICES ASSUME NEW t \in Sides, t # s, T.child[t][T.parent[m]] = m PROVE FALSE
    OBVIOUS
  <2>1. m # NIL
    BY TreeAssumption DEF Tied
  <2> QED
    BY <1>1, <1>2, <2>1, OneParent
<1>4. SideOf(T, m) = s
  BY <1>2, <1>3 DEF SideOf, Sides
<1>5. Other(s) \in Sides /\ Other(s) # s
  BY DEF Other, Sides
<1>6. T.parent[m] # m
  <2>1. m \in b[m] /\ m \in Int
    BY TreeAssumption DEF Tied
  <2>2. T.parent[m] = m => Before(s, m, m)
    BY <1>1, <1>2, <2>1 DEF Tied
  <2> QED
    BY <2>1, <2>2 DEF Before
<1> QED
  BY <1>1, <1>2, <1>3, <1>4, <1>5, <1>6

-----------------------------------------------------------------------------
(* The tree after Replace and after Rotate, field by field. *)

SameButLinks(T, R) == R \in Trees /\ R.color = T.color /\ R.value = T.value

PointsTo(T, R, L, n, m) ==
    /\ R.root = IF T.root = n THEN m ELSE T.root
    /\ \A q \in L : \A t \in Sides :
         R.child[t][q] = IF T.child[t][q] = n THEN m ELSE T.child[t][q]
    /\ \A q \in TreeNodes \ L : \A t \in Sides : R.child[t][q] = T.child[t][q]

LEMMA ReplaceFields ==
    ASSUME NEW T, NEW L, NEW b, Tied(T, L, b), NEW n \in L, NEW m \in TreeNodes
    PROVE  /\ SameButLinks(T, Replace(T, n, m)) /\ Replace(T, n, m).parent = T.parent
           /\ PointsTo(T, Replace(T, n, m), L, n, m)
<1>1. T \in Trees /\ L \subseteq TreeNodes /\ n \in TreeNodes /\ n # NIL /\ NIL \notin L
  BY TreeAssumption DEF Tied, TreeNodes
<1>2. CASE T.root = n
  <2>1. T.parent[n] = NIL
    BY <1>1, <1>2 DEF Tied
  <2>2. Replace(T, n, m) = [T EXCEPT !.root = m]
    BY <2>1 DEF Replace
  <2>3. \A q \in L : \A t \in Sides : T.child[t][q] # n
    <3> SUFFICES ASSUME NEW q \in L, NEW t \in Sides, T.child[t][q] = n PROVE FALSE
      OBVIOUS
    <3>1. T.parent[n] = q
      BY <1>1 DEF Tied
    <3> QED
      BY <1>1, <2>1, <3>1
  <2> QED
    BY <1>1, <1>2, <2>2, <2>3 DEF SameButLinks, PointsTo, Trees
<1>3. CASE T.root # n
  <2> DEFINE p == T.parent[n]
             s == SideOf(T, n)
  <2>1. s \in Sides /\ p \in L /\ T.child[s][p] = n /\ p # NIL
    BY <1>1, <1>3, SideIs
  <2>2. Replace(T, n, m) = [T EXCEPT !.child[s][p] = m]
    BY <2>1 DEF Replace
  <2>3. \A q \in L : \A t \in Sides : T.child[t][q] = n => q = p /\ t = s
    <3> HIDE DEF p, s
    <3> SUFFICES ASSUME NEW q \in L, NEW t \in Sides, T.child[t][q] = n PROVE q = p /\ t = s
      OBVIOUS
    <3> QED
      BY <1>1, <2>1, OneParent
  <2> HIDE DEF p, s
  <2>4. /\ [T EXCEPT !.child[s][p] = m] \in Trees
        /\ [T EXCEPT !.child[s][p] = m].root = T.root
        /\ [T EXCEPT !.child[s][p] = m].parent = T.parent
        /\ [T EXCEPT !.child[s][p] = m].color = T.color
        /\ [T EXCEPT !.child[s][p] = m].value = T.value
        /\ [T EXCEPT !.child[s][p] = m].child = [T.child EXCEPT ![s][p] = m]
    BY <1>1, <2>1 DEF Trees
  <2>5. \A q \in TreeNodes : \A t \in Sides :
          [T.child EXCEPT ![s][p] = m][t][q] = IF q = p /\ t = s THEN m ELSE T.child[t][q]
    BY <1>1, <2>1 DEF Trees
  <2> QED
    BY <1>1, <1>3, <2>1, <2>2, <2>3, <2>4, <2>5 DEF SameButLinks, PointsTo
<1> QED
  BY <1>2, <1>3

(* What the rotation of x to side s makes of T. *)
Turned(T, R, L, x, s) ==
    LET y == T.child[Other(s)][x]
        inner == T.child[s][y]
    IN /\ SameButLinks(T, R)
       /\ R.root = IF T.root = x THEN y ELSE T.root
       /\ R.child[Other(s)][x] = inner /\ R.child[s][x] = T.child[s][x]
       /\ R.child[Other(s)][y] = T.child[Other(s)][y] /\ R.child[s][y] = x
       /\ \A q \in L \ {x, y} : \A t \in Sides :
            R.child[t][q] = IF T.child[t][q] = x THEN y ELSE T.child[t][q]
       /\ \A q \in TreeNodes \ L : \A t \in Sides : R.child[t][q] = T.child[t][q]
       /\ R.parent[x] = y /\ R.parent[y] = T.parent[x]
       /\ inner # NIL => R.parent[inner] = x
       /\ \A q \in TreeNodes \ {x, y, inner} : R.parent[q] = T.parent[q]
       /\ R.parent[NIL] = T.parent[NIL]

(* The three nodes that a rotation ties anew. *)
LEMMA Kin ==
    ASSUME NEW T, NEW L, NEW b, Tied(T, L, b), NEW x \in L, NEW s \in Sides,
           NEW y, y = T.child[Other(s)][x], y # NIL,
           NEW inner, inner = T.child[s][y]
    PROVE  /\ x # NIL /\ y \in L /\ y # x /\ inner \in L \cup {NIL} /\ inner # x /\ inner # y
           /\ Other(s) \in Sides /\ Other(s) # s /\ T.parent[y] = x /\ T.root # y
           /\ \A t \in Sides : t = s \/ t = Other(s)
<1>1. /\ Other(s) \in Sides /\ Other(s) # s /\ \A t \in Sides : t = s \/ t = Other(s)
  BY DEF Sides, Other
<1>2. x # NIL /\ y \in L /\ T.parent[y] = x
  BY <1>1, TreeAssumption DEF Tied
<1>3. T.root # y
  <2>1. T.root = y => T.parent[y] = NIL
    BY <1>2, TreeAssumption DEF Tied
  <2> QED
    BY <1>2, <2>1
<1>4. y # x
  BY <1>2, <1>3, SideIs
<1>5. inner \in L \cup {NIL}
  BY <1>2 DEF Tied
<1>6. inner # x
  <2>1. b[inner] \subseteq b[y]
    BY <1>2, Own
  <2>2. x \in b[x] /\ x \notin b[y]
    BY <1>1, Own
  <2> QED
    BY <2>1, <2>2
<1>7. inner # y
  <2>1. y \in b[y] /\ y \notin b[inner]
    BY <1>2, Own
  <2> QED
    BY <2>1
<1> QED
  BY <1>1, <1>2, <1>3, <1>4, <1>5, <1>6, <1>7

LEMMA RotateFields ==
    ASSUME NEW T, NEW L, NEW b, Tied(T, L, b), NEW x \in L, NEW s \in Sides,
           T.child[Other(s)][x] # NIL
    PROVE  Turned(T, Rotate(T, x, s), L, x, s)
<1> DEFINE y == T.child[Other(s)][x]
           inner == T.child[s][y]
           P == Replace(T, x, y)
           o == Other(s)
           up == [n \in TreeNodes |-> IF n = x THEN y
                                      ELSE IF n = y THEN T.parent[x]
                                      ELSE IF n = inner /\ n # NIL THEN x
                                      ELSE T.parent[n]]
           R == Rotate(T, x, s)
<1>1. /\ x # NIL /\ y \in L /\ y # x /\ inner \in L \cup {NIL} /\ inner # x /\ inner # y
      /\ o \in Sides /\ o # s
  <2> HIDE DEF y, inner
  <2>1. y = T.child[Other(s)][x] /\ y # NIL /\ inner = T.child[s][y]
    BY DEF y, inner
  <2> QED
    BY <2>1, Kin
<1>2. T \in Trees /\ L \subseteq TreeNodes /\ x \in TreeNodes /\ y \in TreeNodes /\ inner \in TreeNodes
      /\ NIL \in TreeNodes /\ NIL \notin L
  BY <1>1, TreeAssumption DEF Tied, TreeNodes
<1>3. SameButLinks(T, P) /\ P.parent = T.parent /\ PointsTo(T, P, L, x, y)
  <2> HIDE DEF y
  <2> QED
    BY <1>2, ReplaceFields
<1>4. R = [P EXCEPT !.child[o][x] = inner, !.child[s][y] = x, !.parent = up]
  BY DEF Rotate
<1>5. up \in [TreeNodes -> TreeNodes]
  BY <1>2 DEF Trees
<1>6. P \in Trees
  BY <1>3 DEF SameButLinks
<1> DEFINE ch == [[P.child EXCEPT ![o][x] = inner] EXCEPT ![s][y] = x]
<1>7. ch \in [Sides -> [TreeNodes -> TreeNodes \cup {NULL}]]
  <2> HIDE DEF y, inner, o, P, R, up
  <2> QED
    BY <1>1, <1>2, <1>6 DEF Trees
<1>8. /\ ch[o][x] = inner /\ ch[s][y] = x
      /\ \A q \in TreeNodes : \A t \in Sides :
           ~(q = x /\ t = o) /\ ~(q = y /\ t = s) => ch[t][q] = P.child[t][q]
  <2> HIDE DEF y, inner, o, P, R, up
  <2> QED
    BY <1>1, <1>2, <1>6 DEF Trees
<1>9. R = [P EXCEPT !.child = ch, !.parent = up]
  <2> HIDE DEF y, inner, o, P, R, up
  <2> QED
    BY <1>1, <1>2, <1>4, <1>6 DEF Trees
<1>10. R \in Trees /\ R.root = P.root /\ R.child = ch /\ R.parent = up
       /\ R.color = P.color /\ R.value = P.value
  <2> HIDE DEF y, inner, o, P, R, up, ch
  <2> QED
    BY <1>5, <1>6, <1>7, <1>9 DEF Trees
<1>11. /\ up[x] = y /\ up[y] = T.parent[x] /\ (inner # NIL => up[inner] = x)
       /\ \A q \in TreeNodes \ {x, y, inner} : up[q] = T.parent[q]
       /\ up[NIL] = T.parent[NIL]
  <2> HIDE DEF y, inner
  <2> QED
    BY <1>1, <1>2
<1>12. \A t \in Sides : T.child[t][x] # x /\ T.child[t][y] # x /\ T.child[t][y] # y
  <2>1. \A n \in L : \A t \in Sides : T.child[t][n] # n
    BY Own
  <2>2. \A t \in Sides : T.child[t][y] # x
    <3>1. x \in b[x] /\ x \notin b[y] /\ \A t \in Sides : b[T.child[t][y]] \subseteq b[y]
      BY <1>1, Own
    <3> QED
      BY <3>1
  <2> QED
    BY <1>1, <2>1, <2>2
<1>13. \A q \in {x, y} : \A t \in Sides : P.child[t][q] = T.child[t][q]
  <2> HIDE DEF y, inner, P
  <2> QED
    BY <1>1, <1>3, <1>12 DEF PointsTo
<1>14. \A t \in Sides : t = s \/ t = o
  BY DEF Sides, Other
<1> DEFINE C == /\ ch[o][x] = inner /\ ch[s][x] = T.child[s][x]
                /\ ch[o][y] = T.child[o][y] /\ ch[s][y] = x
                /\ \A q \in L \ {x, y} : \A t \in Sides :
                     ch[t][q] = IF T.child[t][q] = x THEN y ELSE T.child[t][q]
                /\ \A q \in TreeNodes \ L : \A t \in Sides : ch[t][q] = T.child[t][q]
<1>15. C
  <2>1. ch[s][x] = T.child[s][x] /\ ch[o][y] = T.child[o][y]
    <3> HIDE DEF y, inner, o, P, ch
    <3> QED
      BY <1>1, <1>2, <1>8, <1>13
  <2>2. \A q \in TreeNodes \ {x, y} : \A t \in Sides : ch[t][q] = P.child[t][q]
    <3> HIDE DEF y, inner, o, P, ch
    <3> QED
      BY <1>1, <1>2, <1>8
  <2> HIDE DEF y, inner, o, P, ch
  <2> QED
    BY <1>1, <1>2, <1>3, <1>8, <2>1, <2>2 DEF PointsTo
<1>16. SameButLinks(T, R) /\ R.root = IF T.root = x THEN y ELSE T.root
  <2> HIDE DEF y, inner, P, R, ch, up
  <2> QED
    BY <1>3, <1>10 DEF SameButLinks, PointsTo
<1> HIDE DEF ch, up, R, P
<1> QED
  BY <1>10, <1>11, <1>15, <1>16 DEF Turned, R, P

(* What hangs below each node after the rotation. *)
Lifted(T, b, x, s) ==
    LET y == T.child[Other(s)][x]
    IN [n \in TreeNodes |-> IF n = y THEN b[x]
                            ELSE IF n = x THEN {x} \cup b[T.child[s][x]] \cup b[T.child[s][y]]
                            ELSE b[n]]

(* A rotation loses no subtree and keeps the order. *)
LEMMA RotateTied ==
    ASSUME NEW T, NEW L, NEW b, Tied(T, L, b), NEW x \in L, NEW s \in Sides,
           T.child[Other(s)][x] # NIL,
           NEW R, Turned(T, R, L, x, s)
    PROVE  Tied(R, L, Lifted(T, b, x, s))
<1> DEFINE o == Other(s)
           y == T.child[Other(s)][x]
           inner == T.child[s][y]
           outer == T.child[o][y]
           near == T.child[s][x]
           b2 == Lifted(T, b, x, s)
<1>1. /\ x # NIL /\ y \in L /\ y # x /\ inner \in L \cup {NIL} /\ inner # x /\ inner # y
      /\ o \in Sides /\ o # s /\ T.parent[y] = x /\ T.root # y /\ y # NIL
      /\ \A t \in Sides : t = s \/ t = o
  <2> HIDE DEF y, inner
  <2>1. y = T.child[Other(s)][x] /\ y # NIL /\ inner = T.child[s][y]
    BY DEF y, inner
  <2> QED
    BY <2>1, Kin
<1>2. R \in Trees /\ L \in SUBSET TreeKeys /\ NIL \notin L /\ L \subseteq TreeNodes /\ NIL \in TreeNodes
  BY TreeAssumption DEF Tied, Turned, SameButLinks, TreeNodes
<1>3. /\ b2[y] = b[x] /\ b2[x] = {x} \cup b[near] \cup b[inner]
      /\ \A n \in TreeNodes \ {x, y} : b2[n] = b[n]
  <2> HIDE DEF y, b2
  <2>1. b2 = [n \in TreeNodes |-> IF n = y THEN b[x]
                 ELSE IF n = x THEN {x} \cup b[T.child[s][x]] \cup b[T.child[s][y]] ELSE b[n]]
    BY DEF b2, Lifted, y
  <2> QED
    BY <1>1, <1>2, <2>1
<1>4. /\ R.root = IF T.root = x THEN y ELSE T.root
      /\ R.child[o][x] = inner /\ R.child[s][x] = near
      /\ R.child[o][y] = outer /\ R.child[s][y] = x
      /\ \A q \in L \ {x, y} : \A t \in Sides :
           R.child[t][q] = IF T.child[t][q] = x THEN y ELSE T.child[t][q]
  BY DEF Turned
<1>5. /\ R.parent[x] = y /\ R.parent[y] = T.parent[x]
      /\ inner # NIL => R.parent[inner] = x
      /\ \A q \in TreeNodes \ {x, y, inner} : R.parent[q] = T.parent[q]
  BY DEF Turned
<1>6. /\ b[x] = {x} \cup b[near] \cup b[y] /\ b[y] = {y} \cup b[inner] \cup b[outer]
      /\ near \in L \cup {NIL} /\ outer \in L \cup {NIL}
  <2>1. b[x] = {x} \cup b[T.child["left"][x]] \cup b[T.child["right"][x]]
    BY Own
  <2>2. b[y] = {y} \cup b[T.child["left"][y]] \cup b[T.child["right"][y]]
    <3> HIDE DEF y
    <3> QED
      BY <1>1, Own
  <2>3. (s = "left" /\ o = "right") \/ (s = "right" /\ o = "left")
    BY DEF Sides, Other
  <2> HIDE DEF o
  <2>4. y = T.child[o][x]
    BY DEF o
  <2>5. near \in L \cup {NIL}
    BY Own
  <2>6. outer \in L \cup {NIL}
    <3> HIDE DEF y
    <3> QED
      BY <1>1, Own
  <2> HIDE DEF y, inner
  <2> QED
    BY <2>1, <2>2, <2>3, <2>4, <2>5, <2>6 DEF inner
<1>7. near # x /\ near # y /\ outer # x /\ outer # y /\ (near # NIL => near # inner)
      /\ (outer # NIL => outer # inner)
  <2>1. x \in b[x] /\ x \notin b[near] /\ x \notin b[y] /\ y \in b[y] /\ y \notin b[outer]
    <3>1. x \in b[x] /\ x \notin b[near] /\ x \notin b[y]
      BY <1>1, Own
    <3>2. y \in b[y] /\ y \notin b[outer]
      <4> HIDE DEF y
      <4> QED
        BY <1>1, Own
    <3> QED
      BY <3>1, <3>2
  <2>3. near # NIL => T.parent[near] = x
    BY DEF Tied
  <2>4. outer # NIL => T.parent[outer] = y
    BY <1>1 DEF Tied
  <2>5. inner # NIL => T.parent[inner] = y
    BY <1>1 DEF Tied
  <2>6. near # y
    <3> SUFFICES ASSUME near = y PROVE FALSE
      OBVIOUS
    <3> QED
      BY <1>1, OneParent
  <2>7. outer # NIL => outer # inner
    <3> SUFFICES ASSUME outer # NIL, outer = inner PROVE FALSE
      OBVIOUS
    <3> HIDE DEF y
    <3> QED
      BY <1>1, OneParent
  <2> HIDE DEF y, near, inner, outer
  <2> QED
    BY <1>1, <1>6, <2>1, <2>3, <2>4, <2>5, <2>6, <2>7
<1> USE DEF Before
<1>8. b2 \in [TreeNodes -> SUBSET TreeKeys]
  <2>1. \A n \in TreeNodes : b[n] \in SUBSET TreeKeys
    BY DEF Tied
  <2>2. \A n \in TreeNodes : b2[n] \in SUBSET TreeKeys
    <3> HIDE DEF y, near, inner, outer, b2
    <3> QED
      BY <1>1, <1>2, <1>3, <1>6, <2>1
  <2>3. b2 = [n \in TreeNodes |-> b2[n]]
    BY DEF Lifted
  <2> HIDE DEF b2
  <2> QED
    BY <2>2, <2>3
<1>9. R.root \in L \cup {NIL} /\ b2[NIL] = {} /\ b2[R.root] = L /\ (R.root # NIL => R.parent[R.root] = NIL)
  <2>1. /\ T.root \in L \cup {NIL} /\ b[NIL] = {} /\ b[T.root] = L
        /\ T.root # NIL => T.parent[T.root] = NIL
    BY DEF Tied
  <2>2. inner # NIL => T.parent[inner] = y
    BY <1>1 DEF Tied
  <2> HIDE DEF y, near, inner, outer, b2, o
  <2> QED
    BY <1>1, <1>2, <1>3, <1>4, <1>5, <2>1, <2>2
<1> DEFINE Here(n) ==
      /\ b2[n] = {n} \cup b2[R.child["left"][n]] \cup b2[R.child["right"][n]]
      /\ \A t \in Sides : /\ R.child[t][n] \in L \cup {NIL}
                          /\ \A m \in b2[R.child[t][n]] : Before(t, m, n)
                          /\ R.child[t][n] # NIL => R.parent[R.child[t][n]] = n
<1>10. \A n \in L, t \in Sides : T.child[t][n] # NIL => T.parent[T.child[t][n]] = n
  BY DEF Tied
<1>11. b[NIL] = {}
  BY DEF Tied
<1>12. ASSUME NEW n \in L \ {x, y} PROVE Here(n)
  <2>1. /\ b[n] = {n} \cup b[T.child["left"][n]] \cup b[T.child["right"][n]]
        /\ \A t \in Sides : /\ T.child[t][n] \in L \cup {NIL}
                            /\ \A m \in b[T.child[t][n]] : Before(t, m, n)
    BY Own
  <2>2. ASSUME NEW t \in Sides
        PROVE  /\ b2[R.child[t][n]] = b[T.child[t][n]]
               /\ R.child[t][n] \in L \cup {NIL}
               /\ R.child[t][n] # NIL => R.parent[R.child[t][n]] = n
    <3> DEFINE c == T.child[t][n]
    <3>1. c \in L \cup {NIL} /\ (c # NIL => T.parent[c] = n)
      BY <1>10, <2>1
    <3>2. R.child[t][n] = IF c = x THEN y ELSE c
      BY <1>4
    <3>3. c # y /\ (c # NIL => c # inner)
      <4>1. inner # NIL => T.parent[inner] = y
        BY <1>1 DEF Tied
      <4> HIDE DEF c, y, inner
      <4> QED
        BY <1>1, <3>1, <4>1
    <3>4. /\ b2[R.child[t][n]] = b[c]
          /\ R.child[t][n] \in L \cup {NIL}
          /\ R.child[t][n] # NIL => R.parent[R.child[t][n]] = n
      <4> HIDE DEF c, y, inner, near, outer, b2
      <4>1. CASE c = x
        BY <1>1, <1>3, <1>5, <3>1, <3>2, <4>1
      <4>2. CASE c # x
        <5>1. c \in TreeNodes \ {x, y}
          BY <1>2, <3>1, <3>3, <4>2
        <5>2. b2[c] = b[c] /\ R.child[t][n] = c
          BY <1>3, <3>2, <4>2, <5>1
        <5>3. c # NIL => R.parent[c] = n
          BY <1>2, <1>5, <3>1, <3>3, <5>1
        <5> QED
          BY <3>1, <5>2, <5>3
      <4> QED
        BY <4>1, <4>2
    <3> QED
      BY <3>4
  <2>3. b2[n] = b[n]
    BY <1>2, <1>3
  <2> HIDE DEF b2, y, Before
  <2> QED
    BY <2>1, <2>2, <2>3 DEF Sides
<1>13. Here(x)
  <2>1. b2[inner] = b[inner] /\ b2[near] = b[near]
    <3> HIDE DEF y, inner, near, b2
    <3> QED
      BY <1>1, <1>2, <1>3, <1>6, <1>7
  <2>2. inner # NIL => R.parent[inner] = x
    BY <1>5
  <2>3. near # NIL => R.parent[near] = x
    <3>1. near # NIL => T.parent[near] = x
      BY <1>10
    <3> HIDE DEF y, inner, near
    <3> QED
      BY <1>2, <1>5, <1>6, <1>7, <3>1
  <2>4. \A m \in b[near] : Before(s, m, x)
    BY Own
  <2>5. \A m \in b[inner] : Before(o, m, x)
    <3>1. \A m \in b[y] : Before(o, m, x)
      BY <1>1, Own
    <3> HIDE DEF y, inner, outer, o, Before
    <3> QED
      BY <1>6, <3>1
  <2>6. b2[x] = {x} \cup b2[R.child[s][x]] \cup b2[R.child[o][x]]
    <3> HIDE DEF y, inner, near, o, b2
    <3> QED
      BY <1>3, <1>4, <2>1
  <2>7. b2[x] = {x} \cup b2[R.child["left"][x]] \cup b2[R.child["right"][x]]
    <3>1. (s = "left" /\ o = "right") \/ (s = "right" /\ o = "left")
      BY DEF Sides, Other
    <3> HIDE DEF o, b2
    <3> QED
      BY <2>6, <3>1
  <2>8. \A t \in Sides : /\ R.child[t][x] \in L \cup {NIL}
                         /\ \A m \in b2[R.child[t][x]] : Before(t, m, x)
                         /\ R.child[t][x] # NIL => R.parent[R.child[t][x]] = x
    <3> HIDE DEF y, inner, near, o, b2, Before
    <3> QED
      BY <1>1, <1>4, <1>6, <2>1, <2>2, <2>3, <2>4, <2>5
  <2> QED
    BY <2>7, <2>8
<1>14. Here(y)
  <2>1. b2[outer] = b[outer]
    <3> HIDE DEF y, inner, outer, near, b2
    <3> QED
      BY <1>1, <1>2, <1>3, <1>6, <1>7
  <2>2. outer # NIL => R.parent[outer] = y
    <3>1. outer # NIL => T.parent[outer] = y
      BY <1>1, <1>10
    <3> HIDE DEF y, inner, outer, near
    <3> QED
      BY <1>2, <1>5, <1>6, <1>7, <3>1
  <2>3. (\A m \in b[outer] : Before(o, m, y)) /\ (\A m \in b[inner] : Before(s, m, y))
    <3> HIDE DEF y, Before
    <3> QED
      BY <1>1, Own
  <2>4. \A m \in b2[x] : Before(s, m, y)
    <3>1. Before(o, y, x)
      <4>1. y \in b[y]
        <5> HIDE DEF y
        <5> QED
          BY <1>1, Own
      <4> QED
        BY <1>1, <4>1, Own
    <3>2. \A m \in b[near] : Before(s, m, x) /\ m \in Int
      BY <1>2, Own, Down, TreeAssumption
    <3>3. x \in Int /\ y \in Int
      BY <1>1, <1>2, TreeAssumption
    <3>4. Before(s, x, y) /\ \A m \in b[near] : Before(s, m, y)
      <4> HIDE DEF y, near
      <4> QED
        BY <3>1, <3>2, <3>3 DEF o, Other, Sides
    <3> HIDE DEF y, inner, near, b2, Before
    <3> QED
      BY <1>3, <2>3, <3>4
  <2>5. b2[y] = {y} \cup b2[R.child[s][y]] \cup b2[R.child[o][y]]
    <3> HIDE DEF y, inner, near, outer, o, b2
    <3> QED
      BY <1>3, <1>4, <1>6, <2>1
  <2>6. b2[y] = {y} \cup b2[R.child["left"][y]] \cup b2[R.child["right"][y]]
    <3>1. (s = "left" /\ o = "right") \/ (s = "right" /\ o = "left")
      BY DEF Sides, Other
    <3> HIDE DEF o, b2, y
    <3> QED
      BY <2>5, <3>1
  <2>7. \A t \in Sides : /\ R.child[t][y] \in L \cup {NIL}
                         /\ \A m \in b2[R.child[t][y]] : Before(t, m, y)
                         /\ R.child[t][y] # NIL => R.parent[R.child[t][y]] = y
    <3> HIDE DEF y, inner, near, outer, o, b2, Before
    <3> QED
      BY <1>1, <1>4, <1>5, <1>6, <2>1, <2>2, <2>3, <2>4
  <2> QED
    BY <2>6, <2>7
<1>15. \A n \in L : Here(n)
  <2> HIDE DEF Here, y
  <2> QED
    BY <1>12, <1>13, <1>14
<1> HIDE DEF y, inner, near, outer, o, b2, Before
<1> QED
  BY <1>2, <1>8, <1>9, <1>15 DEF Tied, b2

-----------------------------------------------------------------------------
(* Colours and black heights: h counts the black nodes on the way down, and *)
(* is one short on the side q of p when a black node was taken from there.  *)

Weight(T, n) == IF T.color[n] = "BLACK" THEN 1 ELSE 0
Owed(n, t, p, q) == IF n = p /\ t = q THEN 1 ELSE 0

Even(T, L, h, p, q) ==
    /\ h \in [TreeNodes -> Nat] /\ h[NIL] = 0
    /\ \A n \in L : \A t \in Sides :
         h[n] = h[T.child[t][n]] + Weight(T, n) + Owed(n, t, p, q)

(* What is not part of the tree: nil, and the nodes that are not in use. *)
Rest(T, L, M, v) ==
    /\ L \subseteq M /\ T.value = v /\ T.color[NIL] = "BLACK"
    /\ \A s \in Sides : T.child[s][NIL] = NULL
    /\ \A n \in TreeKeys \ M : \A s \in Sides : T.child[s][n] = NIL

Painted(T, C) ==
    /\ C \in Trees /\ C.root = T.root /\ C.child = T.child /\ C.parent = T.parent
    /\ C.value = T.value

Dye(T, n, c) == [T EXCEPT !.color[n] = c]

LEMMA Paint ==
    ASSUME NEW T \in Trees, NEW n \in TreeNodes, NEW c \in {"RED", "BLACK"}
    PROVE  /\ Painted(T, Dye(T, n, c)) /\ Dye(T, n, c).color[n] = c
           /\ \A m \in TreeNodes \ {n} : Dye(T, n, c).color[m] = T.color[m]
  BY DEF Painted, Trees, Dye

LEMMA PaintTwo ==
    ASSUME NEW T \in Trees, NEW n \in TreeNodes, NEW c \in {"RED", "BLACK"},
           NEW m \in TreeNodes, m # n, NEW d \in {"RED", "BLACK"}
    PROVE  LET C == Dye(Dye(T, n, c), m, d)
           IN  /\ Painted(T, C) /\ C.color[n] = c /\ C.color[m] = d
               /\ \A q \in TreeNodes \ {n, m} : C.color[q] = T.color[q]
<1>1. PICK B \in Trees : B = Dye(T, n, c)
  BY Paint DEF Painted
<1>2. PICK C \in Trees : C = Dye(B, m, d)
  BY Paint DEF Painted
<1>3. /\ Painted(T, B) /\ B.color[n] = c
      /\ \A q \in TreeNodes \ {n} : B.color[q] = T.color[q]
  BY <1>1, Paint
<1>4. /\ Painted(B, C) /\ C.color[m] = d
      /\ \A q \in TreeNodes \ {m} : C.color[q] = B.color[q]
  BY <1>2, Paint
<1>5. /\ Painted(T, C) /\ C.color[n] = c /\ C.color[m] = d
      /\ \A q \in TreeNodes \ {n, m} : C.color[q] = T.color[q]
  BY <1>3, <1>4 DEF Painted
<1> QED
  BY <1>1, <1>2, <1>5

LEMMA PaintThree ==
    ASSUME NEW T \in Trees, NEW n \in TreeNodes, NEW c \in {"RED", "BLACK"},
           NEW m \in TreeNodes, m # n, NEW d \in {"RED", "BLACK"},
           NEW k \in TreeNodes, k # n, k # m, NEW e \in {"RED", "BLACK"}
    PROVE  LET C == Dye(Dye(Dye(T, n, c), m, d), k, e)
           IN  /\ Painted(T, C) /\ C.color[n] = c /\ C.color[m] = d /\ C.color[k] = e
               /\ \A q \in TreeNodes \ {n, m, k} : C.color[q] = T.color[q]
<1>1. PICK B : B = Dye(Dye(T, n, c), m, d)
  OBVIOUS
<1>2. /\ Painted(T, B) /\ B.color[n] = c /\ B.color[m] = d
      /\ \A q \in TreeNodes \ {n, m} : B.color[q] = T.color[q]
  BY <1>1, PaintTwo
<1>3. B \in Trees
  BY <1>2 DEF Painted
<1>4. PICK C : C = Dye(B, k, e)
  OBVIOUS
<1>5. /\ Painted(B, C) /\ C.color[k] = e
      /\ \A q \in TreeNodes \ {k} : C.color[q] = B.color[q]
  BY <1>3, <1>4, Paint
<1>6. /\ Painted(T, C) /\ C.color[n] = c /\ C.color[m] = d /\ C.color[k] = e
      /\ \A q \in TreeNodes \ {n, m, k} : C.color[q] = T.color[q]
  BY <1>2, <1>5 DEF Painted
<1> QED
  BY <1>1, <1>4, <1>6

LEMMA PaintTied ==
    ASSUME NEW T, NEW L, NEW b, Tied(T, L, b), NEW C, Painted(T, C)
    PROVE  Tied(C, L, b)
  BY DEF Tied, Painted

LEMMA RestTurned ==
    ASSUME NEW T, NEW L, NEW M, NEW v, Rest(T, L, M, v), NEW C, Painted(T, C),
           C.color[NIL] = "BLACK", NEW x, NEW s, NEW R, Turned(C, R, L, x, s),
           L \subseteq TreeKeys
    PROVE  Rest(R, L, M, v)
<1>1. \A n \in TreeNodes \ L : \A t \in Sides : R.child[t][n] = T.child[t][n]
  BY DEF Turned, Painted
<1>2. NIL \in TreeNodes \ L
  BY TreeAssumption DEF TreeNodes
<1>3. TreeKeys \ M \subseteq TreeNodes \ L
  BY DEF Rest, TreeNodes
<1>4. R.value = v /\ R.color[NIL] = "BLACK"
  BY DEF Turned, SameButLinks, Painted, Rest
<1> QED
  BY <1>1, <1>2, <1>3, <1>4 DEF Rest

-----------------------------------------------------------------------------
(* rbtree_insert_fixup: all is well but for the red z, whose parent may be  *)
(* red, or which may be the root.                                           *)

Rising(T, L, M, v, b, h, z) ==
    /\ Tied(T, L, b) /\ Even(T, L, h, NIL, "left") /\ Rest(T, L, M, v)
    /\ z \in L /\ T.color[z] = "RED"
    /\ \A n \in L : T.color[n] = "RED" =>
         \A t \in Sides : T.child[t][n] # z => T.color[T.child[t][n]] = "BLACK"
    /\ T.root # z => T.color[T.root] = "BLACK"

(* No black node is owed. *)
LEMMA Level ==
    ASSUME NEW T, NEW L, NEW b, Tied(T, L, b), NEW h, Even(T, L, h, NIL, "left"),
           NEW n \in L, NEW t \in Sides
    PROVE  /\ h[n] = h[T.child[t][n]] + Weight(T, n)
           /\ h[n] \in Nat /\ h[T.child[t][n]] \in Nat
<1>1. n # NIL /\ n \in TreeNodes /\ T.child[t][n] \in TreeNodes
  BY Own DEF Tied, TreeNodes
<1>2. Owed(n, t, NIL, "left") = 0
  BY <1>1 DEF Owed
<1>3. h[n] = h[T.child[t][n]] + Weight(T, n) + Owed(n, t, NIL, "left") /\ h \in [TreeNodes -> Nat]
  BY DEF Even
<1>4. h[n] \in Nat /\ h[T.child[t][n]] \in Nat
  BY <1>1, <1>3
<1>5. Weight(T, n) \in Nat
  BY DEF Weight
<1> QED
  BY <1>2, <1>3, <1>4, <1>5

LEMMA LevelEven ==
    ASSUME NEW T, NEW L \in SUBSET TreeKeys, NEW h \in [TreeNodes -> Nat], h[NIL] = 0,
           \A n \in L : \A t \in Sides :
               h[n] = h[T.child[t][n]] + Weight(T, n) /\ T.child[t][n] \in TreeNodes
    PROVE  Even(T, L, h, NIL, "left")
<1> SUFFICES ASSUME NEW n \in L, NEW t \in Sides
             PROVE  h[n] = h[T.child[t][n]] + Weight(T, n) + Owed(n, t, NIL, "left")
  BY DEF Even
<1>1. Owed(n, t, NIL, "left") = 0
  BY TreeAssumption DEF Owed
<1>2. h[T.child[t][n]] \in Nat /\ Weight(T, n) \in Nat
  BY DEF Weight
<1> QED
  BY <1>1, <1>2

LEMMA SmallerBelow ==
    ASSUME NEW T, NEW L, NEW b, Tied(T, L, b), NEW n \in L, NEW m,
           b[m] \subseteq b[n] /\ n \notin b[m]
    PROVE  /\ Cardinality(b[m]) < Cardinality(b[n])
           /\ Cardinality(b[m]) \in Nat /\ Cardinality(b[n]) \in Nat
<1>1. n \in b[n] /\ b[n] \in SUBSET TreeKeys
  BY Own
<1>2. IsFiniteSet(b[n])
  BY <1>1, TreeAssumption, FS_Subset
<1>3. b[m] \in SUBSET b[n] /\ b[m] # b[n]
  BY <1>1
<1>4. IsFiniteSet(b[m]) /\ Cardinality(b[m]) <= Cardinality(b[n]) /\ Cardinality(b[m]) # Cardinality(b[n])
  BY <1>2, <1>3, FS_Subset
<1>5. Cardinality(b[m]) \in Nat /\ Cardinality(b[n]) \in Nat
  BY <1>2, <1>4, FS_CardinalityType
<1> QED
  BY <1>4, <1>5

(* z, its red parent and its black grandparent. *)
Elders(T, z, p, g, s) ==
    p = T.parent[z] /\ T.color[p] = "RED" /\ g = T.parent[p] /\ s = SideOf(T, p)

LEMMA Family ==
    ASSUME NEW T, NEW L, NEW M, NEW v, NEW b, NEW h, NEW z, Rising(T, L, M, v, b, h, z),
           NEW p, NEW g, NEW s, Elders(T, z, p, g, s)
    PROVE  /\ p \in L /\ g \in L /\ s \in Sides /\ Other(s) \in Sides /\ Other(s) # s
           /\ z # p /\ p # g /\ z # g
           /\ T.child[s][g] = p /\ T.child[Other(s)][g] # p /\ T.child[Other(s)][g] # z
           /\ T.child[s][p] = z \/ T.child[Other(s)][p] = z
           /\ T.color[g] = "BLACK" /\ T.root # z /\ T.root # p
           /\ b[z] \subseteq b[g] /\ g \notin b[z] /\ z \in TreeNodes /\ p \in TreeNodes /\ g \in TreeNodes
<1>1. Tied(T, L, b) /\ Rest(T, L, M, v) /\ z \in L /\ L \subseteq TreeNodes
  BY DEF Rising, Tied, TreeNodes
<1> p = T.parent[z] /\ T.color[p] = "RED" /\ g = T.parent[p] /\ s = SideOf(T, p)
  BY DEF Elders
<1>2. T.root # z
  <2>1. T.root = z => p = NIL
    BY <1>1, Own DEF Tied
  <2> QED
    BY <2>1 DEF Rising, Rest
<1>3. p \in L /\ SideOf(T, z) \in Sides /\ T.child[SideOf(T, z)][p] = z /\ p # z
  BY <1>1, <1>2, SideIs
<1>4. T.root # p
  BY <1>2 DEF Rising
<1>5. /\ s \in Sides /\ g \in L /\ T.child[s][g] = p /\ T.child[Other(s)][g] # p /\ g # p
  BY <1>1, <1>3, <1>4, SideIs
<1>6. Other(s) \in Sides /\ Other(s) # s /\ \A t \in Sides : t = s \/ t = Other(s)
  BY <1>5 DEF Sides, Other
<1>7. T.child[s][p] = z \/ T.child[Other(s)][p] = z
  BY <1>3, <1>6
<1>8. \A t \in Sides : T.child[t][g] # z
  <2> SUFFICES ASSUME NEW t \in Sides, T.child[t][g] = z PROVE FALSE
    OBVIOUS
  <2>1. z # NIL
    BY <1>1, Own
  <2> QED
    BY <1>1, <1>3, <1>5, <2>1, OneParent
<1>9. z # g /\ b[z] \subseteq b[g] /\ g \notin b[z]
  <2>1. b[z] \subseteq b[p] /\ p \notin b[z]
    BY <1>1, <1>3, BelowChild
  <2>2. b[p] \subseteq b[g] /\ g \notin b[p]
    BY <1>1, <1>5, BelowChild
  <2>3. z \in b[z] /\ g \in b[g]
    BY <1>1, <1>5, BelowItself, Zenon
  <2> QED
    BY <2>1, <2>2, <2>3
<1>10. T.color[g] = "BLACK"
  <2>1. T.color[g] = "RED" => T.color[T.child[s][g]] = "BLACK"
    BY <1>3, <1>5 DEF Rising
  <2>2. T.color[g] \in {"RED", "BLACK"}
    BY <1>1, <1>5 DEF Tied, Trees
  <2> QED
    BY <1>5, <2>1, <2>2
<1> QED
  BY <1>1, <1>2, <1>3, <1>4, <1>5, <1>6, <1>7, <1>8, <1>9, <1>10, Zenon

Uncle(T, g, s, u) == u = T.child[Other(s)][g]
Recoloured(T, C, p, u, g) == C = Dye(Dye(Dye(T, p, "BLACK"), u, "BLACK"), g, "RED")

(* A red uncle: both red nodes become black and the trouble moves up. *)
LEMMA InsertRecolours ==
    ASSUME NEW T, NEW L, NEW M, NEW v, NEW b, NEW h, NEW z, Rising(T, L, M, v, b, h, z),
           NEW p, NEW g, NEW s, Elders(T, z, p, g, s),
           NEW u, Uncle(T, g, s, u), T.color[u] = "RED",
           NEW C, Recoloured(T, C, p, u, g)
    PROVE  \E k : Rising(C, L, M, v, b, k, g) /\ Cardinality(b[z]) < Cardinality(b[g])
<1>1. /\ p \in L /\ g \in L /\ s \in Sides /\ Other(s) \in Sides /\ Other(s) # s
      /\ z # p /\ p # g /\ z # g
      /\ T.child[s][g] = p /\ T.child[Other(s)][g] = u /\ u # p /\ u # z
      /\ T.child[s][p] = z \/ T.child[Other(s)][p] = z
      /\ T.color[g] = "BLACK" /\ T.root # z /\ T.root # p
      /\ b[z] \subseteq b[g] /\ g \notin b[z]
  BY Family DEF Uncle
<1>2. Tied(T, L, b) /\ Even(T, L, h, NIL, "left") /\ Rest(T, L, M, v) /\ z \in L
  BY DEF Rising
<1>3. T \in Trees /\ L \in SUBSET TreeKeys /\ L \subseteq TreeNodes /\ NIL \in TreeNodes /\ NIL \notin L
  BY <1>2, TreeAssumption DEF Tied, TreeNodes
<1>4. u \in L /\ u # g
  <2>1. u \in L \cup {NIL} /\ T.color[NIL] = "BLACK"
    BY <1>1, <1>2, Own DEF Rest
  <2> QED
    BY <1>1, <2>1
<1>5. /\ Painted(T, C) /\ C.color[p] = "BLACK" /\ C.color[u] = "BLACK" /\ C.color[g] = "RED"
      /\ \A q \in TreeNodes \ {p, u, g} : C.color[q] = T.color[q]
  BY <1>1, <1>3, <1>4, PaintThree DEF Recoloured
<1>6. C.child = T.child /\ C.root = T.root
  BY <1>5 DEF Painted
<1>7. Tied(C, L, b)
  BY <1>2, <1>5, PaintTied
<1>8. Rest(C, L, M, v)
  <2>1. NIL \in TreeNodes \ {p, u, g}
    BY <1>1, <1>3, <1>4
  <2>2. C.color[NIL] = T.color[NIL] /\ C.value = T.value
    BY <1>5, <2>1 DEF Painted
  <2> QED
    BY <1>2, <1>6, <2>2 DEF Rest
<1>9. \A n \in L, t \in Sides : T.child[t][n] \in L \cup {NIL} /\ T.child[t][n] # n
  BY <1>2, <1>3, Own
<1>10. \A n \in L, t \in Sides : T.child[t][n] \in {p, u} => n = g
  <2> SUFFICES ASSUME NEW n \in L, NEW t \in Sides, T.child[t][n] \in {p, u} PROVE n = g
    OBVIOUS
  <2>1. T.child[t][n] = T.child[s][g] \/ T.child[t][n] = T.child[Other(s)][g]
    BY <1>1
  <2>2. T.child[t][n] # NIL
    BY <1>1, <1>3, <1>4
  <2> QED
    BY <1>1, <1>2, <2>1, <2>2, OneParent
<1> DEFINE k == [n \in TreeNodes |-> IF n \in {p, u} THEN h[n] + 1 ELSE h[n]]
<1>11. h \in [TreeNodes -> Nat] /\ h[NIL] = 0
  BY <1>2 DEF Even
<1>12. k \in [TreeNodes -> Nat] /\ k[NIL] = 0
  BY <1>1, <1>3, <1>4, <1>11
<1>13. ASSUME NEW n \in L, NEW t \in Sides
       PROVE  k[n] = k[C.child[t][n]] + Weight(C, n) /\ C.child[t][n] \in TreeNodes
  <2> DEFINE c == T.child[t][n]
  <2>1. h[n] = h[c] + Weight(T, n) /\ h[n] \in Nat /\ h[c] \in Nat
    BY <1>2, Level
  <2>2. c \in TreeNodes /\ C.child[t][n] = c
    BY <1>3, <1>6, <1>9
  <2> HIDE DEF c
  <2>3. CASE n = g
    <3>1. c = p \/ c = u
      BY <1>1, <2>3 DEF c, Sides, Other
    <3>2. k[c] = h[c] + 1 /\ k[n] = h[n]
      BY <1>1, <1>3, <1>4, <2>2, <2>3, <3>1
    <3>3. Weight(T, n) = 1 /\ Weight(C, n) = 0
      BY <1>1, <1>5, <2>3 DEF Weight
    <3> QED
      BY <2>1, <2>2, <3>2, <3>3
  <2>4. CASE n \in {p, u}
    <3>1. c \notin {p, u}
      BY <1>1, <1>4, <1>10, <2>4 DEF c
    <3>2. k[c] = h[c] /\ k[n] = h[n] + 1
      BY <1>3, <2>2, <2>4, <3>1
    <3>3. Weight(T, n) = 0 /\ Weight(C, n) = 1
      BY <1>5, <2>4 DEF Weight, Elders
    <3> QED
      BY <2>1, <2>2, <3>2, <3>3
  <2>5. CASE n \notin {g, p, u}
    <3>1. c \notin {p, u}
      BY <1>10, <2>5 DEF c
    <3>2. k[c] = h[c] /\ k[n] = h[n]
      BY <1>3, <2>2, <2>5, <3>1
    <3>3. Weight(T, n) = Weight(C, n)
      BY <1>3, <1>5, <2>5 DEF Weight
    <3> QED
      BY <2>1, <2>2, <3>2, <3>3
  <2> QED
    BY <2>3, <2>4, <2>5
<1>14. Even(C, L, k, NIL, "left")
  <2> HIDE DEF k
  <2> QED
    BY <1>3, <1>12, <1>13, LevelEven
<1>15. ASSUME NEW n \in L, C.color[n] = "RED", NEW t \in Sides, C.child[t][n] # g
       PROVE  C.color[C.child[t][n]] = "BLACK"
  <2> DEFINE c == T.child[t][n]
  <2>1. c \in TreeNodes /\ C.child[t][n] = c /\ n \notin {p, u}
    BY <1>3, <1>5, <1>6, <1>9, <1>15
  <2>2. CASE n = g
    <3>1. c = p \/ c = u
      BY <1>1, <2>2 DEF Sides, Other
    <3> QED
      BY <1>5, <2>1, <3>1
  <2>3. CASE n # g
    <3>1. T.color[n] = "RED"
      BY <1>3, <1>5, <1>15, <2>1, <2>3
    <3>2. c # z
      <4> SUFFICES ASSUME c = z PROVE FALSE
        OBVIOUS
      <4>1. PICK r \in Sides : T.child[r][p] = z
        BY <1>1
      <4>2. z # NIL
        BY <1>2, <1>3
      <4> QED
        BY <1>1, <1>2, <2>1, <4>1, <4>2, OneParent
    <3>3. T.color[c] = "BLACK"
      BY <3>1, <3>2 DEF Rising
    <3> HIDE DEF c
    <3> QED
      BY <1>5, <1>15, <2>1, <3>3
  <2> QED
    BY <2>2, <2>3
<1>16. C.root # g => C.color[C.root] = "BLACK"
  <2>1. T.color[T.root] = "BLACK" /\ T.root \in TreeNodes
    BY <1>1, <1>2, <1>3 DEF Rising, Tied, Trees
  <2> QED
    BY <1>5, <1>6, <2>1
<1>17. Rising(C, L, M, v, b, k, g)
  <2> HIDE DEF k
  <2> QED
    BY <1>1, <1>5, <1>7, <1>8, <1>14, <1>15, <1>16 DEF Rising
<1>18. Cardinality(b[z]) < Cardinality(b[g])
  BY <1>1, <1>2, SmallerBelow
<1> QED
  BY <1>17, <1>18

(* z, its red parent p and its black grandparent g in one line, and a black uncle. *)
InLine(T, L, z, p, g, s) ==
    /\ p \in L /\ g \in L /\ s \in Sides
    /\ T.parent[z] = p /\ T.parent[p] = g /\ T.child[s][p] = z /\ T.child[s][g] = p
    /\ T.color[p] = "RED" /\ T.color[g] = "BLACK" /\ T.color[T.child[Other(s)][g]] = "BLACK"

LEMMA InsertStraightens ==
    ASSUME NEW T, NEW L, NEW M, NEW v, NEW b, NEW h, NEW z, Rising(T, L, M, v, b, h, z),
           NEW p, NEW g, NEW s, Elders(T, z, p, g, s),
           NEW u, Uncle(T, g, s, u), T.color[u] = "BLACK",
           T.child[Other(s)][p] = z,
           NEW R, Turned(T, R, L, p, s)
    PROVE  Rising(R, L, M, v, Lifted(T, b, p, s), h, p) /\ InLine(R, L, p, z, g, s)
<1> DEFINE o == Other(s)
           inner == T.child[s][z]
           outer == T.child[o][z]
           near == T.child[s][p]
<1>1. /\ p \in L /\ g \in L /\ s \in Sides /\ o \in Sides /\ o # s
      /\ z # p /\ p # g /\ z # g
      /\ T.child[s][g] = p /\ T.child[o][g] = u /\ u # p /\ u # z
      /\ T.color[p] = "RED" /\ T.color[g] = "BLACK" /\ T.root # z /\ T.root # p
      /\ T.parent[p] = g
  BY Family DEF Uncle, Elders
<1>2. Tied(T, L, b) /\ Even(T, L, h, NIL, "left") /\ Rest(T, L, M, v) /\ z \in L /\ T.color[z] = "RED"
  BY DEF Rising
<1>3. T \in Trees /\ L \in SUBSET TreeKeys /\ L \subseteq TreeNodes /\ NIL \in TreeNodes /\ NIL \notin L
  BY <1>2, TreeAssumption DEF Tied, TreeNodes
<1>4. Tied(R, L, Lifted(T, b, p, s))
  BY <1>1, <1>2, <1>3, RotateTied
<1>5. Rest(R, L, M, v)
  <2>1. Painted(T, T) /\ T.color[NIL] = "BLACK"
    BY <1>2, <1>3 DEF Painted, Rest
  <2> QED
    BY <1>2, <1>3, <2>1, RestTurned
<1>6. /\ R.color = T.color /\ R.root = T.root
      /\ R.child[o][p] = inner /\ R.child[s][p] = near
      /\ R.child[o][z] = outer /\ R.child[s][z] = p
      /\ \A q \in L \ {p, z} : \A t \in Sides :
           R.child[t][q] = IF T.child[t][q] = p THEN z ELSE T.child[t][q]
      /\ R.parent[p] = z /\ R.parent[z] = g
  <2>1. T.child[Other(s)][p] = z
    OBVIOUS
  <2> QED
    BY <1>1, <2>1 DEF Turned, SameButLinks
<1>7. \A t \in Sides : t = s \/ t = o
  BY <1>1 DEF Sides, Other
<1>8. InLine(R, L, p, z, g, s)
  <2>1. R.child[s][g] = z /\ R.child[o][g] = u
    BY <1>1, <1>6
  <2> QED
    BY <1>1, <1>2, <1>6, <2>1 DEF InLine
<1>10. h \in [TreeNodes -> Nat] /\ h[NIL] = 0
  BY <1>2 DEF Even
<1>11. h[p] = h[z] /\ h[p] = h[near] /\ h[z] = h[inner] /\ h[z] = h[outer] /\ h[p] \in Nat
  <2>1. h[p] = h[z] + Weight(T, p) /\ h[z] \in Nat /\ h[p] \in Nat
    BY <1>1, <1>2, Level
  <2>2. h[p] = h[near] + Weight(T, p) /\ h[near] \in Nat
    BY <1>1, <1>2, Level
  <2>3. h[z] = h[inner] + Weight(T, z) /\ h[inner] \in Nat
    BY <1>1, <1>2, Level
  <2>4. h[z] = h[outer] + Weight(T, z) /\ h[outer] \in Nat
    BY <1>1, <1>2, Level
  <2>5. Weight(T, p) = 0 /\ Weight(T, z) = 0
    BY <1>1, <1>2 DEF Weight
  <2> QED
    BY <2>1, <2>2, <2>3, <2>4, <2>5
<1>12. \A n \in L, t \in Sides : h[n] = h[R.child[t][n]] + Weight(R, n) /\ R.child[t][n] \in TreeNodes
  <2> SUFFICES ASSUME NEW n \in L, NEW t \in Sides PROVE h[n] = h[R.child[t][n]] + Weight(R, n)
    BY <1>3, <1>4, Own
  <2>1. Weight(R, n) = Weight(T, n)
    BY <1>6 DEF Weight
  <2>2. CASE n \in {p, z}
    <3>1. h[n] = h[R.child[t][n]] /\ h[n] \in Nat
      <4> HIDE DEF inner, outer, near, o
      <4> QED
        BY <1>6, <1>7, <1>11, <2>2
    <3>2. Weight(T, n) = 0
      BY <1>1, <1>2, <2>2 DEF Weight
    <3> QED
      BY <2>1, <3>1, <3>2
  <2>3. CASE n \notin {p, z}
    <3>1. h[n] = h[T.child[t][n]] + Weight(T, n)
      BY <1>2, Level
    <3>2. h[R.child[t][n]] = h[T.child[t][n]]
      BY <1>6, <1>11, <2>3
    <3> QED
      BY <2>1, <3>1, <3>2
  <2> QED
    BY <2>2, <2>3
<1>13. Even(R, L, h, NIL, "left")
  BY <1>3, <1>10, <1>12, LevelEven
<1>14. ASSUME NEW n \in L, R.color[n] = "RED", NEW t \in Sides, R.child[t][n] # p
       PROVE  R.color[R.child[t][n]] = "BLACK"
  <2>1. T.color[n] = "RED"
    BY <1>6, <1>14
  <2>2. \A r \in Sides : T.child[r][n] # z => T.color[T.child[r][n]] = "BLACK"
    BY <2>1 DEF Rising
  <2>3. CASE n = p
    <3>1. inner # z /\ near # z
      <4>1. inner # z
        BY <1>1, <1>2, Own
      <4>2. near # z
        <5>1. near = z => s = o
          BY <1>1, <1>2, <1>3, OneParent
        <5> QED
          BY <1>1, <5>1
      <4> QED
        BY <4>1, <4>2
    <3>2. T.color[inner] = "BLACK"
      BY <1>1, <1>2, <3>1 DEF Rising
    <3>3. T.color[near] = "BLACK"
      BY <1>1, <2>2, <2>3, <3>1
    <3> QED
      BY <1>6, <1>7, <2>3, <3>2, <3>3
  <2>4. CASE n = z
    <3>1. outer # z
      BY <1>1, <1>2, Own
    <3>2. T.color[outer] = "BLACK"
      BY <1>1, <2>2, <2>4, <3>1
    <3> QED
      BY <1>6, <1>7, <1>14, <2>4, <3>2
  <2>5. CASE n \notin {p, z}
    <3>1. n # g
      BY <1>1, <2>1
    <3>2. T.child[t][n] \notin {p, z}
      <4> SUFFICES ASSUME T.child[t][n] \in {p, z} PROVE FALSE
        OBVIOUS
      <4>1. T.child[t][n] = T.child[s][g] \/ T.child[t][n] = T.child[o][p]
        BY <1>1
      <4>2. T.child[t][n] # NIL
        BY <1>1, <1>2, <1>3
      <4> QED
        BY <1>1, <1>2, <2>5, <3>1, <4>1, <4>2, OneParent
    <3> QED
      BY <1>6, <2>2, <2>5, <3>2
  <2> QED
    BY <2>3, <2>4, <2>5
<1>15. R.color[R.root] = "BLACK"
  BY <1>1, <1>6 DEF Rising
<1> HIDE DEF o, inner, outer, near
<1>16. Rising(R, L, M, v, Lifted(T, b, p, s), h, p)
  BY <1>1, <1>4, <1>5, <1>6, <1>13, <1>14, <1>15 DEF Rising
<1> QED
  BY <1>8, <1>16

Swapped(h, x, y) ==
    [n \in TreeNodes |-> IF n = x THEN h[y] ELSE IF n = y THEN h[x] ELSE h[n]]

LEMMA SwappedFields ==
    ASSUME NEW h \in [TreeNodes -> Nat], NEW x \in TreeNodes, NEW y \in TreeNodes, x # y
    PROVE  /\ Swapped(h, x, y) \in [TreeNodes -> Nat]
           /\ Swapped(h, x, y)[x] = h[y] /\ Swapped(h, x, y)[y] = h[x]
           /\ \A n \in TreeNodes \ {x, y} : Swapped(h, x, y)[n] = h[n]
  BY DEF Swapped

TwoDyed(T, C, p, g) == C = Dye(Dye(T, p, "BLACK"), g, "RED")

(* A black uncle: p goes above g, and all is well. *)
LEMMA InsertLifts ==
    ASSUME NEW T, NEW L, NEW M, NEW v, NEW b, NEW h, NEW z, Rising(T, L, M, v, b, h, z),
           NEW p, NEW g, NEW s, InLine(T, L, z, p, g, s),
           NEW C, TwoDyed(T, C, p, g),
           NEW R, Turned(C, R, L, g, Other(s))
    PROVE  /\ \E bb, k : Rising(R, L, M, v, bb, k, z)
           /\ R.color[R.parent[z]] = "BLACK"
<1> DEFINE o == Other(s)
           u == T.child[o][g]
           inner == T.child[o][p]
<1>1. /\ p \in L /\ g \in L /\ s \in Sides /\ o \in Sides /\ o # s /\ Other(o) = s
      /\ T.parent[z] = p /\ T.parent[p] = g /\ T.child[s][p] = z /\ T.child[s][g] = p
      /\ T.color[p] = "RED" /\ T.color[g] = "BLACK" /\ T.color[u] = "BLACK"
  BY DEF InLine, Sides, Other
<1>2. /\ Tied(T, L, b) /\ Even(T, L, h, NIL, "left") /\ Rest(T, L, M, v) /\ z \in L
      /\ T.color[z] = "RED" /\ T.color[NIL] = "BLACK"
  BY DEF Rising, Rest
<1>3. T \in Trees /\ L \in SUBSET TreeKeys /\ L \subseteq TreeNodes /\ NIL \in TreeNodes /\ NIL \notin L
  BY <1>2, TreeAssumption DEF Tied, TreeNodes
<1>4. /\ p # g /\ z # p /\ z # g /\ inner \in L \cup {NIL} /\ inner # p /\ inner # g /\ inner # z
      /\ u \in L \cup {NIL} /\ u # g /\ u # p /\ z # NIL
  <2>1. p # NIL /\ z # NIL /\ z # p
    BY <1>1, <1>2, <1>3
  <2>2. /\ p \in b[p] /\ z \in b[z] /\ z \in b[p] /\ g \in b[g] /\ p \notin b[z] /\ g \notin b[p]
        /\ p \notin b[inner] /\ b[inner] \subseteq b[p]
    BY <1>1, <1>2, Own
  <2>3. /\ g \notin b[u] /\ inner \in L \cup {NIL} /\ u \in L \cup {NIL}
    BY <1>1, <1>2, Own
  <2>4. inner # z
    <3> SUFFICES ASSUME inner = z PROVE FALSE
      OBVIOUS
    <3> QED
      BY <1>1, <1>2, <2>1, OneParent
  <2>5. u # p
    <3> SUFFICES ASSUME u = p PROVE FALSE
      OBVIOUS
    <3> QED
      BY <1>1, <1>2, <2>1, OneParent
  <2> HIDE DEF u, inner, o
  <2>6. inner # p /\ inner # g
    <3>1. inner # NIL => inner \in b[inner]
      BY <1>2, <2>3, Own
    <3> QED
      BY <1>1, <1>3, <2>2, <3>1
  <2>7. u # g
    BY <2>3, <2>2, <1>1, <1>3
  <2> QED
    BY <2>1, <2>2, <2>3, <2>4, <2>5, <2>6, <2>7
<1>5. /\ Painted(T, C) /\ C.color[p] = "BLACK" /\ C.color[g] = "RED"
      /\ \A q \in TreeNodes \ {p, g} : C.color[q] = T.color[q]
  BY <1>1, <1>3, <1>4, PaintTwo DEF TwoDyed
<1>6. C.child = T.child /\ C.root = T.root /\ C.parent = T.parent
  BY <1>5 DEF Painted
<1> HIDE DEF o, u, inner
<1>7. Tied(C, L, b)
  BY <1>2, <1>5, PaintTied
<1>8. Turned(C, R, L, g, o) /\ C.child[Other(o)][g] = p /\ p # NIL
  BY <1>1, <1>3, <1>6 DEF o
<1>9. Tied(R, L, Lifted(C, b, g, o))
  BY <1>1, <1>7, <1>8, RotateTied
<1>10. C.color[NIL] = "BLACK"
  BY <1>1, <1>2, <1>3, <1>5
<1>11. Rest(R, L, M, v)
  BY <1>2, <1>3, <1>5, <1>8, <1>10, RestTurned
<1>12. /\ R.color = C.color /\ R.root = IF T.root = g THEN p ELSE T.root
       /\ R.child[s][g] = inner /\ R.child[o][g] = u
       /\ R.child[s][p] = z /\ R.child[o][p] = g
       /\ \A q \in L \ {g, p} : \A t \in Sides :
            R.child[t][q] = IF T.child[t][q] = g THEN p ELSE T.child[t][q]
       /\ \A q \in TreeNodes \ {g, p, inner} : R.parent[q] = T.parent[q]
  <2>1. /\ Other(o) = s /\ C.child[s][g] = p /\ C.child[o][p] = inner /\ C.child[o][g] = u
        /\ C.child[s][p] = z
    BY <1>1, <1>6 DEF inner, u, o
  <2>2. /\ R.color = C.color /\ R.root = IF C.root = g THEN p ELSE C.root
        /\ R.child[s][g] = inner /\ R.child[o][g] = C.child[o][g]
        /\ R.child[s][p] = C.child[s][p] /\ R.child[o][p] = g
        /\ \A q \in L \ {g, p} : \A t \in Sides :
             R.child[t][q] = IF C.child[t][q] = g THEN p ELSE C.child[t][q]
        /\ \A q \in TreeNodes \ {g, p, inner} : R.parent[q] = C.parent[q]
    BY <1>8, <2>1 DEF Turned, SameButLinks
  <2> QED
    BY <1>6, <2>1, <2>2
<1>13. \A t \in Sides : t = s \/ t = o
  BY <1>1 DEF Sides, Other, o
<1>14. R.color[R.parent[z]] = "BLACK"
  <2>1. z \in TreeNodes \ {g, p, inner}
    BY <1>2, <1>3, <1>4
  <2> QED
    BY <1>1, <1>5, <1>12, <2>1
<1>15. \A n \in L, t \in Sides : T.child[t][n] = p => n = g
  <2> SUFFICES ASSUME NEW n \in L, NEW t \in Sides, T.child[t][n] = p PROVE n = g
    OBVIOUS
  <2> QED
    BY <1>1, <1>2, <1>3, OneParent
<1>16. \A n \in L, t \in Sides : T.child[t][n] = z => n = p
  <2> SUFFICES ASSUME NEW n \in L, NEW t \in Sides, T.child[t][n] = z PROVE n = p
    OBVIOUS
  <2> QED
    BY <1>1, <1>2, <1>4, OneParent
<1> DEFINE k == Swapped(h, g, p)
<1>17. h \in [TreeNodes -> Nat] /\ h[NIL] = 0
  BY <1>2 DEF Even
<1>18. /\ k \in [TreeNodes -> Nat] /\ k[g] = h[p] /\ k[p] = h[g]
       /\ \A n \in TreeNodes \ {g, p} : k[n] = h[n]
  BY <1>1, <1>3, <1>4, <1>17, SwappedFields
<1>19. k[NIL] = 0
  BY <1>1, <1>3, <1>17, <1>18
<1>20. h[g] = h[p] + 1 /\ h[p] = h[u] /\ h[p] = h[inner] /\ h[p] = h[z] /\ h[p] \in Nat
  <2>1. h[g] = h[p] + Weight(T, g) /\ h[p] \in Nat /\ h[g] \in Nat
    BY <1>1, <1>2, Level
  <2>2. h[g] = h[u] + Weight(T, g) /\ h[u] \in Nat
    BY <1>1, <1>2, Level DEF u
  <2>3. h[p] = h[inner] + Weight(T, p) /\ h[inner] \in Nat
    BY <1>1, <1>2, Level DEF inner
  <2>4. h[p] = h[z] + Weight(T, p) /\ h[z] \in Nat
    BY <1>1, <1>2, Level
  <2>5. Weight(T, p) = 0 /\ Weight(T, g) = 1
    BY <1>1 DEF Weight
  <2> QED
    BY <2>1, <2>2, <2>3, <2>4, <2>5
<1>21. ASSUME NEW n \in L, NEW t \in Sides
       PROVE  k[n] = k[R.child[t][n]] + Weight(R, n) /\ R.child[t][n] \in TreeNodes
  <2> SUFFICES k[n] = k[R.child[t][n]] + Weight(R, n)
    BY <1>3, <1>9, Own
  <2> HIDE DEF k
  <2>1. CASE n = g
    <3>1. R.child[t][g] \in {inner, u}
      BY <1>12, <1>13
    <3>2. k[R.child[t][g]] = h[p]
      BY <1>3, <1>4, <1>18, <1>20, <3>1
    <3>3. Weight(R, g) = 0
      BY <1>5, <1>12 DEF Weight
    <3> QED
      BY <1>18, <1>20, <2>1, <3>2, <3>3
  <2>2. CASE n = p
    <3>1. R.child[t][p] \in {z, g}
      BY <1>12, <1>13
    <3>2. k[R.child[t][p]] = h[p]
      BY <1>2, <1>3, <1>4, <1>18, <1>20, <3>1
    <3>3. Weight(R, p) = 1
      BY <1>5, <1>12 DEF Weight
    <3> QED
      BY <1>18, <1>20, <2>2, <3>2, <3>3
  <2>3. CASE n \notin {g, p}
    <3> DEFINE c == T.child[t][n]
    <3>1. h[n] = h[c] + Weight(T, n)
      BY <1>2, Level
    <3>2. c \in TreeNodes /\ c # p
      BY <1>2, <1>3, <1>15, <2>3, Own
    <3>3. Weight(R, n) = Weight(T, n)
      BY <1>3, <1>5, <1>12, <2>3 DEF Weight
    <3>4. R.child[t][n] = IF c = g THEN p ELSE c
      BY <1>12, <2>3
    <3> HIDE DEF c
    <3>5. k[R.child[t][n]] = h[c]
      BY <1>1, <1>3, <1>18, <3>2, <3>4
    <3> QED
      BY <1>3, <1>18, <2>3, <3>1, <3>3, <3>5
  <2> QED
    BY <2>1, <2>2, <2>3
<1>22. Even(R, L, k, NIL, "left")
  <2> HIDE DEF k
  <2> QED
    BY <1>3, <1>18, <1>19, <1>21, LevelEven
<1>23. ASSUME NEW n \in L, R.color[n] = "RED", NEW t \in Sides, R.child[t][n] # z
       PROVE  R.color[R.child[t][n]] = "BLACK"
  <2>1. CASE n = g
    <3>1. R.child[t][g] \in {inner, u}
      BY <1>12, <1>13
    <3>2. T.color[inner] = "BLACK"
      <4>1. T.child[o][p] = inner
        BY DEF inner
      <4> QED
        BY <1>1, <1>4, <4>1 DEF Rising
    <3>3. C.color[inner] = "BLACK" /\ C.color[u] = "BLACK"
      BY <1>1, <1>3, <1>4, <1>5, <3>2
    <3> QED
      BY <1>12, <2>1, <3>1, <3>3
  <2>2. CASE n # g
    <3>1. n # p
      BY <1>5, <1>12, <1>23
    <3>2. T.color[n] = "RED" /\ T.child[t][n] # z
      BY <1>3, <1>5, <1>12, <1>16, <1>23, <2>2, <3>1
    <3>3. T.color[T.child[t][n]] = "BLACK" /\ T.child[t][n] \in TreeNodes
      BY <1>2, <1>3, <3>2, Own DEF Rising
    <3>4. R.child[t][n] = IF T.child[t][n] = g THEN p ELSE T.child[t][n]
      BY <1>12, <2>2, <3>1
    <3> QED
      BY <1>5, <1>12, <3>3, <3>4
  <2> QED
    BY <2>1, <2>2
<1>24. R.root # z => R.color[R.root] = "BLACK"
  <2>1. T.root \in TreeNodes /\ T.root # z /\ T.root # p
    <3>1. T.root # NIL => T.parent[T.root] = NIL
      BY <1>2 DEF Tied
    <3> QED
      BY <1>1, <1>2, <1>3, <1>4, <3>1 DEF Trees
  <2>2. T.color[T.root] = "BLACK"
    BY <2>1 DEF Rising
  <2> QED
    BY <1>5, <1>12, <2>1, <2>2
<1>25. R.color[z] = "RED"
  BY <1>2, <1>3, <1>4, <1>5, <1>12
<1>26. Rising(R, L, M, v, Lifted(C, b, g, o), k, z)
  <2> HIDE DEF k
  <2> QED
    BY <1>2, <1>9, <1>11, <1>22, <1>23, <1>24, <1>25 DEF Rising
<1> QED
  BY <1>14, <1>26

Ended(T, R, p, g, s) ==
    R = Rotate([T EXCEPT !.color[p] = "BLACK", !.color[g] = "RED"], g, Other(s))

LEMMA InsertEnds ==
    ASSUME NEW T, NEW L, NEW M, NEW v, NEW b, NEW h, NEW z, Rising(T, L, M, v, b, h, z),
           NEW p, NEW g, NEW s, InLine(T, L, z, p, g, s), NEW R, Ended(T, R, p, g, s)
    PROVE  /\ \E bb, k : Rising(R, L, M, v, bb, k, z)
           /\ R.color[R.parent[z]] = "BLACK"
<1>1. PICK C : TwoDyed(T, C, p, g)
  BY DEF TwoDyed
<1>2. C = [T EXCEPT !.color[p] = "BLACK", !.color[g] = "RED"]
  BY <1>1 DEF TwoDyed, Dye
<1>3. /\ Tied(T, L, b) /\ T \in Trees /\ p \in L /\ g \in L /\ p \in TreeNodes /\ g \in TreeNodes
      /\ T.parent[p] = g /\ T.child[s][g] = p /\ s \in Sides /\ Other(s) \in Sides
      /\ Other(Other(s)) = s /\ p # NIL
  BY TreeAssumption DEF Rising, InLine, Tied, TreeNodes, Sides, Other
<1>4. p # g
  BY <1>3, Own
<1>5. Painted(T, C)
  BY <1>1, <1>3, <1>4, PaintTwo DEF TwoDyed
<1>6. Tied(C, L, b) /\ C.child[Other(Other(s))][g] # NIL
  <2>1. C.child = T.child
    BY <1>5 DEF Painted
  <2> QED
    BY <1>3, <1>5, <2>1, PaintTied
<1>7. Turned(C, Rotate(C, g, Other(s)), L, g, Other(s))
  BY <1>3, <1>6, RotateFields
<1>8. Turned(C, R, L, g, Other(s))
  BY <1>2, <1>7 DEF Ended
<1> QED
  BY <1>1, <1>8, InsertLifts

(* One turn of the loop is the last, or moves the trouble up. *)
LEMMA InsertTurnRises ==
    ASSUME NEW T, NEW L, NEW M, NEW v, NEW b, NEW h, NEW z, Rising(T, L, M, v, b, h, z),
           T.color[T.parent[z]] = "RED",
           NEW N, N = InsertTurn(T, z)
    PROVE  \E bb, k : /\ Rising(N.tree, L, M, v, bb, k, N.at)
                      /\ \/ N.tree.color[N.tree.parent[N.at]] = "BLACK"
                         \/ Cardinality(b[z]) < Cardinality(bb[N.at])
<1>1. PICK p, g, s, u : Elders(T, z, p, g, s) /\ Uncle(T, g, s, u)
  BY DEF Elders, Uncle
<1>2. p = T.parent[z] /\ g = T.parent[p] /\ s = SideOf(T, p) /\ u = T.child[Other(s)][g] /\ T.color[p] = "RED"
  BY <1>1 DEF Elders, Uncle
<1>3. /\ p \in L /\ g \in L /\ s \in Sides /\ T.child[s][g] = p
      /\ T.child[s][p] = z \/ T.child[Other(s)][p] = z
      /\ T.color[g] = "BLACK"
  BY <1>1, Family
<1>4. Tied(T, L, b) /\ z \in L /\ T.color[z] = "RED"
  BY DEF Rising
<1>5. u \in TreeNodes /\ T.color[u] \in {"RED", "BLACK"}
  <2>1. T \in Trees /\ Other(s) \in Sides
    BY <1>4 DEF Sides, Other, Tied
  <2>2. u \in L \cup {NIL}
    BY <1>2, <1>3, <1>4, <2>1, Own
  <2> QED
    BY <1>4, <2>1, <2>2 DEF Trees, TreeNodes, Tied
<1>6. CASE T.color[u] = "RED"
  <2>1. N = [tree |-> [T EXCEPT !.color[p] = "BLACK", !.color[u] = "BLACK", !.color[g] = "RED"],
             at |-> g]
    BY <1>2, <1>6, Zenon DEF InsertTurn
  <2>2. Recoloured(T, N.tree, p, u, g) /\ N.at = g
    BY <2>1 DEF Recoloured, Dye
  <2>3. PICK C : C = N.tree
    OBVIOUS
  <2>4. \E k : Rising(C, L, M, v, b, k, g) /\ Cardinality(b[z]) < Cardinality(b[g])
    BY <1>1, <1>6, <2>2, <2>3, InsertRecolours
  <2> QED
    BY <2>2, <2>3, <2>4
<1>7. CASE T.color[u] # "RED" /\ T.child[Other(s)][p] # z
  <2>1. InLine(T, L, z, p, g, s)
    BY <1>2, <1>3, <1>5, <1>7, Zenon DEF InLine
  <2>2. N = [tree |-> Rotate([T EXCEPT !.color[p] = "BLACK", !.color[g] = "RED"], g, Other(s)),
             at |-> z]
    BY <1>2, <1>7, Zenon DEF InsertTurn
  <2>3. PICK R : Ended(T, R, p, g, s)
    BY DEF Ended
  <2>4. (\E bb, k : Rising(R, L, M, v, bb, k, z)) /\ R.color[R.parent[z]] = "BLACK"
    BY <2>1, <2>3, InsertEnds
  <2>5. N.tree = R /\ N.at = z
    BY <2>2, <2>3 DEF Ended
  <2> QED
    BY <2>4, <2>5
<1>8. CASE T.color[u] # "RED" /\ T.child[Other(s)][p] = z
  <2>1. PICK S : S = Rotate(T, p, s)
    OBVIOUS
  <2>2. Turned(T, S, L, p, s)
    <3>1. T.child[Other(s)][p] # NIL
      BY <1>4, <1>8, Own
    <3> QED
      BY <1>3, <1>4, <2>1, <3>1, RotateFields
  <2>3. T.color[u] = "BLACK"
    BY <1>5, <1>8
  <2>4. Rising(S, L, M, v, Lifted(T, b, p, s), h, p) /\ InLine(S, L, p, z, g, s)
    BY <1>1, <1>8, <2>2, <2>3, InsertStraightens
  <2>5. S.parent[p] = z /\ S.parent[z] = g
    BY <2>4 DEF InLine
  <2>6. N = [tree |-> Rotate([S EXCEPT !.color[z] = "BLACK", !.color[g] = "RED"], g, Other(s)),
             at |-> p]
    BY <1>2, <1>8, <2>1, <2>5, Zenon DEF InsertTurn
  <2>7. PICK R : Ended(S, R, z, g, s)
    BY DEF Ended
  <2>8. (\E bb, k : Rising(R, L, M, v, bb, k, p)) /\ R.color[R.parent[p]] = "BLACK"
    <3>1. PICK bs : Rising(S, L, M, v, bs, h, p)
      BY <2>4
    <3> QED
      BY <2>4, <2>7, <3>1, InsertEnds
  <2>9. N.tree = R /\ N.at = p
    BY <2>6, <2>7 DEF Ended
  <2> QED
    BY <2>8, <2>9
<1> QED
  BY <1>6, <1>7, <1>8

(* The red-black rules, and all that the code relies on besides. *)
Balanced(T, L, M, v, b, h) ==
    /\ Tied(T, L, b) /\ Even(T, L, h, NIL, "left") /\ Rest(T, L, M, v)
    /\ \A n \in L : T.color[n] = "RED" => \A t \in Sides : T.color[T.child[t][n]] = "BLACK"
    /\ T.color[T.root] = "BLACK"

(* Nothing leads to the root. *)
LEMMA NotTheRoot ==
    ASSUME NEW T, NEW L, NEW b, Tied(T, L, b), NEW n \in L, NEW t \in Sides,
           T.child[t][n] = T.root
    PROVE  T.root = NIL
<1>1. T.root # NIL => T.parent[T.root] = NIL /\ T.parent[T.root] = n
  BY DEF Tied
<1> QED
  BY <1>1, Own

LEMMA RootPainted ==
    ASSUME NEW T, NEW L, NEW b, Tied(T, L, b), NEW h, Even(T, L, h, NIL, "left"),
           T.root \in L, NEW C, C = Dye(T, T.root, "BLACK")
    PROVE  \E k : Even(C, L, k, NIL, "left")
<1> DEFINE r == T.root
           k == [n \in TreeNodes |-> IF n = r /\ T.color[r] = "RED" THEN h[n] + 1 ELSE h[n]]
<1>1. T \in Trees /\ L \in SUBSET TreeKeys /\ L \subseteq TreeNodes /\ NIL \in TreeNodes /\ NIL \notin L /\ r \in L
  BY TreeAssumption DEF Tied, TreeNodes
<1>2. /\ Painted(T, C) /\ C.color[r] = "BLACK"
      /\ \A q \in TreeNodes \ {r} : C.color[q] = T.color[q]
  BY <1>1, Paint
<1>3. C.child = T.child
  BY <1>2 DEF Painted
<1>4. h \in [TreeNodes -> Nat] /\ h[NIL] = 0
  BY DEF Even
<1> HIDE DEF r
<1>5. k \in [TreeNodes -> Nat] /\ k[NIL] = 0 /\ k[r] = (IF T.color[r] = "RED" THEN h[r] + 1 ELSE h[r])
      /\ \A n \in TreeNodes \ {r} : k[n] = h[n]
  BY <1>1, <1>4
<1>6. ASSUME NEW n \in L, NEW t \in Sides
      PROVE  k[n] = k[C.child[t][n]] + Weight(C, n) /\ C.child[t][n] \in TreeNodes
  <2> DEFINE c == T.child[t][n]
  <2>1. h[n] = h[c] + Weight(T, n) /\ h[n] \in Nat /\ h[c] \in Nat
    BY Level
  <2>2. c \in TreeNodes /\ C.child[t][n] = c
    BY <1>1, <1>3, Own
  <2>3. c # r
    BY <1>1, NotTheRoot DEF r
  <2> HIDE DEF c, k
  <2>4. k[c] = h[c]
    BY <1>5, <2>2, <2>3
  <2>5. CASE n = r
    <3>1. T.color[r] \in {"RED", "BLACK"}
      BY <1>1 DEF Trees
    <3>2. CASE T.color[r] = "RED"
      <4>1. Weight(T, r) = 0 /\ Weight(C, r) = 1 /\ k[r] = h[r] + 1
        BY <1>2, <1>5, <3>2 DEF Weight
      <4> QED
        BY <2>1, <2>2, <2>4, <2>5, <4>1
    <3>3. CASE T.color[r] = "BLACK"
      <4>1. Weight(T, r) = 1 /\ Weight(C, r) = 1 /\ k[r] = h[r]
        BY <1>2, <1>5, <3>3 DEF Weight
      <4> QED
        BY <2>1, <2>2, <2>4, <2>5, <4>1
    <3> QED
      BY <3>1, <3>2, <3>3
  <2>6. CASE n # r
    <3>1. Weight(C, n) = Weight(T, n) /\ k[n] = h[n]
      BY <1>1, <1>2, <1>5, <2>6 DEF Weight
    <3> QED
      BY <2>1, <2>2, <2>4, <3>1
  <2> QED
    BY <2>5, <2>6
<1>7. Even(C, L, k, NIL, "left")
  <2> HIDE DEF k
  <2> QED
    BY <1>1, <1>5, <1>6, LevelEven
<1> QED
  BY <1>7

LEMMA InsertPaintsRoot ==
    ASSUME NEW T, NEW L, NEW M, NEW v, NEW b, NEW h, NEW z, Rising(T, L, M, v, b, h, z),
           T.color[T.parent[z]] = "BLACK"
    PROVE  \E k : Balanced(Dye(T, T.root, "BLACK"), L, M, v, b, k)
<1>1. /\ Tied(T, L, b) /\ Even(T, L, h, NIL, "left") /\ Rest(T, L, M, v)
      /\ z \in L
  BY DEF Rising
<1>2. T \in Trees /\ L \subseteq TreeNodes /\ NIL \in TreeNodes /\ NIL \notin L
  BY <1>1, TreeAssumption DEF Tied, TreeNodes
<1>3. T.root \in L
  <2>1. T.root \in L \cup {NIL} /\ b[T.root] = L /\ b[NIL] = {}
    BY <1>1 DEF Tied
  <2> QED
    BY <1>1, <2>1
<1>4. PICK C : C = Dye(T, T.root, "BLACK")
  OBVIOUS
<1>5. /\ Painted(T, C) /\ C.color[T.root] = "BLACK"
      /\ \A q \in TreeNodes \ {T.root} : C.color[q] = T.color[q]
  BY <1>2, <1>3, <1>4, Paint
<1>6. C.child = T.child /\ C.root = T.root /\ C.value = T.value
  BY <1>5 DEF Painted
<1>7. PICK k : Even(C, L, k, NIL, "left")
  BY <1>1, <1>3, <1>4, RootPainted
<1>8. Tied(C, L, b)
  BY <1>1, <1>5, PaintTied
<1>9. Rest(C, L, M, v)
  <2>1. C.color[NIL] = T.color[NIL]
    BY <1>2, <1>3, <1>5
  <2> QED
    BY <1>1, <1>6, <2>1 DEF Rest
<1>10. ASSUME NEW n \in L, C.color[n] = "RED", NEW t \in Sides PROVE C.color[C.child[t][n]] = "BLACK"
  <2>1. T.color[n] = "RED"
    BY <1>2, <1>5, <1>10
  <2>2. T.child[t][n] # z
    <3> SUFFICES ASSUME T.child[t][n] = z PROVE FALSE
      OBVIOUS
    <3>1. T.parent[z] = n
      BY <1>1, <1>2 DEF Tied
    <3> QED
      BY <2>1, <3>1
  <2>3. T.color[T.child[t][n]] = "BLACK" /\ T.child[t][n] \in TreeNodes
    BY <1>1, <1>2, <2>1, <2>2, Own DEF Rising
  <2> QED
    BY <1>5, <1>6, <2>3
<1>11. C.color[C.root] = "BLACK"
  BY <1>5, <1>6
<1>12. Balanced(C, L, M, v, b, k)
  BY <1>7, <1>8, <1>9, <1>10, <1>11 DEF Balanced
<1> QED
  BY <1>4, <1>12

InsertStep(u) == IF InsertGoesOn(u) THEN InsertTurn(u.tree, u.at) ELSE u
InsertRuns(N, a, f) == f = [i \in 0..N |-> IF i = 0 THEN a ELSE InsertStep(f[i - 1])]

(* The bounded loop is well defined. *)
LEMMA InsertIterates ==
    ASSUME NEW N \in Nat, NEW a
    PROVE  \E f : InsertRuns(N, a, f)
<1> DEFINE Bad == {n \in 0..N : ~\E f : InsertRuns(n, a, f)}
<1>1. SUFFICES ASSUME Bad # {} PROVE FALSE
  OBVIOUS
<1>2. PICK n \in Bad : \A m \in Bad : n <= m
  <2>1. Bad \in SUBSET Nat /\ Bad # {}
    BY <1>1
  <2> HIDE DEF Bad
  <2> QED
    BY <2>1, LeastExists
<1>3. n \in 0..N
  OBVIOUS
<1>4. CASE n = 0
  <2>1. InsertRuns(0, a, [i \in 0..0 |-> a])
    BY DEF InsertRuns
  <2> QED
    BY <1>4, <2>1
<1>5. CASE n # 0
  <2>1. n - 1 \in 0..N /\ ~(n <= n - 1)
    BY <1>3, <1>5
  <2>2. PICK f : InsertRuns(n - 1, a, f)
    BY <1>2, <2>1
  <2> DEFINE e == [i \in 0..n |-> IF i = 0 THEN a ELSE InsertStep(f[i - 1])]
  <2>3. \A i \in 0..n - 1 : e[i] = f[i]
    BY <1>3, <1>5, <2>2 DEF InsertRuns
  <2>4. \A i \in 0..n : i # 0 => i - 1 \in 0..n - 1
    BY <1>3
  <2>5. InsertRuns(n, a, e)
    BY <2>3, <2>4 DEF InsertRuns
  <2> QED
    BY <2>5
<1> QED
  BY <1>4, <1>5

LEMMA InsertFixupBalances ==
    ASSUME NEW T, NEW L, NEW M, NEW v, NEW b, NEW h, NEW z, Rising(T, L, M, v, b, h, z)
    PROVE  \E bb, k : Balanced(InsertFixup(T, z), L, M, v, bb, k)
<1> DEFINE N == Cardinality(TreeKeys)
           a == [tree |-> T, at |-> z]
           after == CHOOSE f : InsertRuns(N, a, f)
<1>1. N \in Nat
  BY TreeAssumption, FS_CardinalityType
<1>2. InsertRuns(N, a, after)
  <2> HIDE DEF N, a
  <2> QED
    BY <1>1, InsertIterates
<1>3. InsertFixup(T, z) = Dye(after[N].tree, after[N].tree.root, "BLACK")
  BY DEF InsertFixup, Dye, InsertStep, InsertRuns
<1> HIDE DEF after
<1>4. after[0] = a /\ \A i \in 0..N : i # 0 => after[i] = InsertStep(after[i - 1])
  <2> HIDE DEF a, N
  <2> QED
    BY <1>1, <1>2 DEF InsertRuns
<1> HIDE DEF N
<1> DEFINE I(i) == \E bb, k : /\ Rising(after[i].tree, L, M, v, bb, k, after[i].at)
                              /\ \/ after[i].tree.color[after[i].tree.parent[after[i].at]] = "BLACK"
                                 \/ i < Cardinality(bb[after[i].at])
           Bad == {i \in 0..N : ~I(i)}
<1>5. Bad = {}
  <2> SUFFICES ASSUME Bad # {} PROVE FALSE
    OBVIOUS
  <2>1. PICK i \in Bad : \A j \in Bad : i <= j
    <3>1. Bad \in SUBSET Nat /\ Bad # {}
      OBVIOUS
    <3> HIDE DEF Bad
    <3> QED
      BY <3>1, LeastExists
  <2>2. CASE i = 0
    <3>1. Tied(T, L, b) /\ z \in L
      BY Zenon DEF Rising
    <3> HIDE DEF Bad, I
    <3>2. z \in b[z] /\ b[NIL] = {}
      BY <3>1, BelowItself, Zenon
    <3>3. 0 < Cardinality(b[z])
      <4>1. Cardinality(b[NIL]) < Cardinality(b[z])
        BY <3>1, <3>2, SmallerBelow
      <4> QED
        BY <3>2, <4>1, FS_EmptySet
    <3>4. after[0].tree = T /\ after[0].at = z
      BY <1>4, SMTT(30)
    <3>5. I(0)
      <4>1. Rising(after[0].tree, L, M, v, b, h, after[0].at)
        BY <3>4
      <4>2. 0 < Cardinality(b[after[0].at])
        BY <3>3, <3>4
      <4> QED
        BY <4>1, <4>2, Zenon DEF I
    <3> QED
      BY <2>2, <3>5, Zenon DEF Bad
  <2>3. CASE i # 0
    <3> HIDE DEF Bad, I
    <3>1. i - 1 \in 0..N /\ ~(i <= i - 1) /\ i \in 0..N
      <4>1. i \in 0..N
        BY Zenon DEF Bad
      <4> QED
        BY <2>3, <4>1, <1>1, SMTT(30)
    <3>2. I(i - 1)
      BY <2>1, <3>1, Zenon DEF Bad
    <3>3. PICK u : u = after[i - 1]
      OBVIOUS
    <3>4. PICK j : j = i - 1
      OBVIOUS
    <3>5. PICK bb, k : /\ Rising(u.tree, L, M, v, bb, k, u.at)
                       /\ u.tree.color[u.tree.parent[u.at]] = "BLACK" \/ j < Cardinality(bb[u.at])
      BY <3>2, <3>3, <3>4, Zenon DEF I
    <3>6. after[i] = InsertStep(u)
      BY <1>4, <2>3, <3>1, <3>3
    <3>7. CASE InsertGoesOn(u)
      <4>1. u.tree.color[u.tree.parent[u.at]] = "RED"
        BY <3>7 DEF InsertGoesOn
      <4>2. j < Cardinality(bb[u.at])
        BY <3>5, <4>1
      <4>3. after[i] = InsertTurn(u.tree, u.at)
        BY <3>6, <3>7 DEF InsertStep
      <4>4. PICK b2, k2 : /\ Rising(after[i].tree, L, M, v, b2, k2, after[i].at)
                          /\ \/ after[i].tree.color[after[i].tree.parent[after[i].at]] = "BLACK"
                             \/ Cardinality(bb[u.at]) < Cardinality(b2[after[i].at])
        BY <3>5, <4>1, <4>3, InsertTurnRises, ZenonT(90)
      <4>5. ASSUME Cardinality(bb[u.at]) < Cardinality(b2[after[i].at])
            PROVE  i < Cardinality(b2[after[i].at])
        <5>1. \A B, l, m, D : Rising(D, L, M, v, B, l, m) => Cardinality(B[m]) \in Nat
          <6> SUFFICES ASSUME NEW B, NEW l, NEW m, NEW D, Rising(D, L, M, v, B, l, m)
                       PROVE  Cardinality(B[m]) \in Nat
            OBVIOUS
          <6>1. Tied(D, L, B) /\ m \in L
            BY Zenon DEF Rising
          <6> QED
            BY <6>1, BelowSize, Zenon
        <5>2. Cardinality(bb[u.at]) \in Nat /\ Cardinality(b2[after[i].at]) \in Nat
          BY <3>5, <4>4, <5>1, Zenon
        <5>3. \A m, n \in Nat : j < m /\ m < n => i < n
          BY <1>1, <3>1, <3>4
        <5> QED
          BY <4>2, <4>5, <5>2, <5>3, Zenon
      <4>6. I(i)
        BY <4>4, <4>5, Zenon DEF I
      <4> QED
        BY <4>6, Zenon DEF Bad
    <3>8. CASE ~InsertGoesOn(u)
      <4>1. after[i] = u
        BY <3>6, <3>8 DEF InsertStep
      <4>2. u.tree.color[u.tree.parent[u.at]] = "BLACK"
        <5>1. u.tree \in Trees /\ u.at \in TreeNodes
          BY <3>5, Zenon DEF Rising, Tied, TreeNodes
        <5>2. u.tree.color[u.tree.parent[u.at]] \in {"RED", "BLACK"}
          BY <5>1 DEF Trees
        <5> QED
          BY <3>8, <5>2 DEF InsertGoesOn
      <4>3. I(i)
        <5>1. Rising(after[i].tree, L, M, v, bb, k, after[i].at)
          BY <3>5, <4>1
        <5>2. after[i].tree.color[after[i].tree.parent[after[i].at]] = "BLACK"
          BY <4>1, <4>2
        <5> QED
          BY <5>1, <5>2, Zenon DEF I
      <4> QED
        BY <4>3, Zenon DEF Bad
    <3> QED
      BY <3>7, <3>8
  <2> QED
    BY <2>2, <2>3
<1>6. I(N)
  BY <1>1, <1>5
<1>7. PICK u : u = after[N]
  OBVIOUS
<1>8. PICK bb, k : /\ Rising(u.tree, L, M, v, bb, k, u.at)
                   /\ u.tree.color[u.tree.parent[u.at]] = "BLACK" \/ N < Cardinality(bb[u.at])
  BY <1>6, <1>7
<1>9. u.tree.color[u.tree.parent[u.at]] = "BLACK"
  <2>1. bb[u.at] \in SUBSET TreeKeys
    BY <1>8, Own DEF Rising
  <2>2. Cardinality(bb[u.at]) <= N /\ Cardinality(bb[u.at]) \in Nat
    BY <2>1, TreeAssumption, FS_Subset, FS_CardinalityType DEF N
  <2> QED
    BY <1>1, <1>8, <2>2
<1>10. \E kk : Balanced(Dye(u.tree, u.tree.root, "BLACK"), L, M, v, bb, kk)
  BY <1>8, <1>9, InsertPaintsRoot
<1> QED
  BY <1>3, <1>7, <1>10

-----------------------------------------------------------------------------
(* rbtree_delete_fixup: the black x, on the side s of p, is one black node   *)
(* short.                                                                    *)

Short(T, L, M, v, b, h, x, p, s) ==
    /\ Tied(T, L, b) /\ Even(T, L, h, p, s) /\ Rest(T, L, M, v)
    /\ p \in L /\ s \in Sides /\ T.child[s][p] = x /\ T.color[x] = "BLACK"
    /\ \A n \in L : T.color[n] = "RED" => \A t \in Sides : T.color[T.child[t][n]] = "BLACK"
    /\ T.color[T.root] = "BLACK"

LEMMA EvenAt ==
    ASSUME NEW T, NEW L, NEW b, Tied(T, L, b), NEW h, NEW p, NEW s, Even(T, L, h, p, s),
           NEW n \in L, NEW t \in Sides
    PROVE  /\ h[n] = h[T.child[t][n]] + Weight(T, n) + Owed(n, t, p, s)
           /\ h[n] \in Nat /\ h[T.child[t][n]] \in Nat
           /\ Weight(T, n) \in Nat /\ Owed(n, t, p, s) \in Nat
<1>1. n \in TreeNodes /\ T.child[t][n] \in TreeNodes
  BY Own DEF Tied, TreeNodes
<1>2. h[n] = h[T.child[t][n]] + Weight(T, n) + Owed(n, t, p, s) /\ h \in [TreeNodes -> Nat]
  BY DEF Even
<1>3. Weight(T, n) \in Nat /\ Owed(n, t, p, s) \in Nat
  BY DEF Weight, Owed
<1> QED
  BY <1>1, <1>2, <1>3

(* The sibling of x is a node, and higher. *)
LEMMA ShortSibling ==
    ASSUME NEW T, NEW L, NEW M, NEW v, NEW b, NEW h, NEW x, NEW p, NEW s,
           Short(T, L, M, v, b, h, x, p, s), NEW w, Uncle(T, p, s, w)
    PROVE  /\ Other(s) \in Sides /\ Other(s) # s /\ Other(Other(s)) = s
           /\ \A t \in Sides : t = s \/ t = Other(s)
           /\ T.child[Other(s)][p] = w /\ w \in L /\ w # p /\ w # x /\ p # x /\ x \in L \cup {NIL}
           /\ w # NIL /\ p # NIL /\ T.root # w
           /\ h[p] = h[w] + Weight(T, p) /\ h[w] = h[x] + 1 /\ h[w] \in Nat /\ h[x] \in Nat
           /\ h \in [TreeNodes -> Nat] /\ h[NIL] = 0
           /\ T \in Trees /\ L \in SUBSET TreeKeys /\ L \subseteq TreeNodes /\ x \in TreeNodes
           /\ NIL \in TreeNodes /\ NIL \notin L
           /\ \A n \in L, t \in Sides : T.child[t][n] = w => n = p /\ t = Other(s)
<1>1. /\ s \in Sides /\ Other(s) \in Sides /\ Other(s) # s /\ Other(Other(s)) = s
      /\ \A t \in Sides : t = s \/ t = Other(s)
  BY DEF Sides, Other, Short
<1>2. /\ Tied(T, L, b) /\ Even(T, L, h, p, s) /\ p \in L /\ T.child[s][p] = x
      /\ T.child[Other(s)][p] = w
  BY DEF Short, Uncle
<1>3. /\ T \in Trees /\ L \in SUBSET TreeKeys /\ L \subseteq TreeNodes /\ NIL \in TreeNodes /\ NIL \notin L
      /\ p # NIL
  BY <1>2, TreeAssumption DEF Tied, TreeNodes
<1>4. x \in L \cup {NIL} /\ w \in L \cup {NIL} /\ x # p /\ w # p
  BY <1>1, <1>2, <1>3, Own
<1>5. h[p] = h[x] + Weight(T, p) + 1 /\ h[p] = h[w] + Weight(T, p) /\ h[x] \in Nat /\ h[w] \in Nat
  <2>1. /\ h[p] = h[x] + Weight(T, p) + Owed(p, s, p, s) /\ h[x] \in Nat /\ Weight(T, p) \in Nat
    BY <1>1, <1>2, EvenAt
  <2>2. h[p] = h[w] + Weight(T, p) + Owed(p, Other(s), p, s) /\ h[w] \in Nat
    BY <1>1, <1>2, EvenAt
  <2>3. Owed(p, s, p, s) = 1 /\ Owed(p, Other(s), p, s) = 0
    BY <1>1 DEF Owed
  <2> QED
    BY <2>1, <2>2, <2>3
<1>6. h[w] = h[x] + 1
  <2>1. Weight(T, p) \in Nat
    BY DEF Weight
  <2> QED
    BY <1>5, <2>1
<1>7. h \in [TreeNodes -> Nat] /\ h[NIL] = 0
  BY <1>2 DEF Even
<1>8. w # NIL /\ w # x
  BY <1>5, <1>6, <1>7
<1>9. \A n \in L, t \in Sides : T.child[t][n] = w => n = p /\ t = Other(s)
  <2> SUFFICES ASSUME NEW n \in L, NEW t \in Sides, T.child[t][n] = w PROVE n = p /\ t = Other(s)
    OBVIOUS
  <2> QED
    BY <1>1, <1>2, <1>8, OneParent
<1>10. T.root # w
  BY <1>1, <1>2, <1>8, NotTheRoot
<1>11. x \in TreeNodes
  BY <1>3, <1>4
<1> QED
  BY <1>1, <1>2, <1>3, <1>4, <1>5, <1>6, <1>7, <1>8, <1>9, <1>10, <1>11

(* A red sibling goes above p, and x gets a black one. *)
RedLifted(T, C, R, p, s, w) ==
    /\ C = Dye(Dye(T, w, "BLACK"), p, "RED")
    /\ R = Rotate(C, p, s)

LEMMA LiftRedShort ==
    ASSUME NEW T, NEW L, NEW M, NEW v, NEW b, NEW h, NEW x, NEW p, NEW s,
           Short(T, L, M, v, b, h, x, p, s), NEW w, Uncle(T, p, s, w), T.color[w] = "RED",
           NEW C, NEW R, RedLifted(T, C, R, p, s, w)
    PROVE  /\ \E bb, k : Short(R, L, M, v, bb, k, x, p, s) /\ bb[x] = b[x]
           /\ R.color[R.child[Other(s)][p]] = "BLACK"
<1> DEFINE o == Other(s)
           inner == T.child[s][w]
           outer == T.child[o][w]
<1>1. /\ o \in Sides /\ o # s /\ Other(o) = s /\ s \in Sides
      /\ \A t \in Sides : t = s \/ t = o
      /\ T.child[o][p] = w /\ w \in L /\ w # p /\ w # x /\ p # x /\ x \in L \cup {NIL}
      /\ w # NIL /\ p # NIL /\ T.root # w
      /\ h[p] = h[w] + Weight(T, p) /\ h[w] = h[x] + 1 /\ h[w] \in Nat /\ h[x] \in Nat
      /\ h \in [TreeNodes -> Nat] /\ h[NIL] = 0
      /\ T \in Trees /\ L \in SUBSET TreeKeys /\ L \subseteq TreeNodes /\ x \in TreeNodes
      /\ NIL \in TreeNodes /\ NIL \notin L
      /\ \A n \in L, t \in Sides : T.child[t][n] = w => n = p /\ t = o
  BY ShortSibling DEF Short
<1>2. /\ Tied(T, L, b) /\ Even(T, L, h, p, s) /\ Rest(T, L, M, v) /\ p \in L
      /\ T.child[s][p] = x /\ T.color[x] = "BLACK" /\ T.color[NIL] = "BLACK"
      /\ \A n \in L : T.color[n] = "RED" => \A t \in Sides : T.color[T.child[t][n]] = "BLACK"
      /\ T.color[T.root] = "BLACK"
  BY DEF Short, Rest
<1>3. /\ inner \in L \cup {NIL} /\ outer \in L \cup {NIL} /\ inner # w /\ outer # w
      /\ inner # p /\ outer # p
      /\ T.color[inner] = "BLACK" /\ T.color[outer] = "BLACK"
  <2>1. /\ inner \in L \cup {NIL} /\ outer \in L \cup {NIL} /\ w \in b[w] /\ w \notin b[inner] /\ w \notin b[outer]
        /\ b[inner] \subseteq b[w] /\ b[outer] \subseteq b[w]
    BY <1>1, <1>2, Own
  <2>2. p \in b[p] /\ p \notin b[w]
    BY <1>1, <1>2, Own
  <2>3. T.color[inner] = "BLACK" /\ T.color[outer] = "BLACK"
    BY <1>1, <1>2
  <2> HIDE DEF inner, outer, o
  <2> QED
    BY <1>1, <1>2, <2>1, <2>2, <2>3
<1>4. T.color[p] = "BLACK"
  <2>1. T.color[p] # "RED"
    BY <1>1, <1>2
  <2> QED
    BY <1>1, <1>2, <2>1 DEF Trees
<1>5. /\ Painted(T, C) /\ C.color[w] = "BLACK" /\ C.color[p] = "RED"
      /\ \A q \in TreeNodes \ {w, p} : C.color[q] = T.color[q]
  BY <1>1, <1>2, PaintTwo DEF RedLifted
<1>6. C.child = T.child /\ C.root = T.root /\ C.parent = T.parent
  BY <1>5 DEF Painted
<1> HIDE DEF o, inner, outer
<1>7. Tied(C, L, b)
  BY <1>2, <1>5, PaintTied
<1>8. Turned(C, R, L, p, s) /\ C.child[Other(s)][p] = w
  <2>1. C.child[Other(s)][p] = w
    BY <1>1, <1>6 DEF o
  <2> QED
    BY <1>1, <1>2, <1>7, <2>1, RotateFields DEF RedLifted
<1>9. Tied(R, L, Lifted(C, b, p, s))
  BY <1>1, <1>2, <1>7, <1>8, RotateTied
<1>10. Rest(R, L, M, v)
  <2>1. C.color[NIL] = "BLACK"
    BY <1>1, <1>2, <1>5
  <2> QED
    BY <1>1, <1>2, <1>5, <1>8, <2>1, RestTurned
<1>11. /\ R.color = C.color /\ R.root = IF T.root = p THEN w ELSE T.root
       /\ R.child[o][p] = inner /\ R.child[s][p] = x
       /\ R.child[o][w] = outer /\ R.child[s][w] = p
       /\ \A q \in L \ {p, w} : \A t \in Sides :
            R.child[t][q] = IF T.child[t][q] = p THEN w ELSE T.child[t][q]
  <2>1. C.child[o][p] = w /\ C.child[s][w] = inner /\ C.child[o][w] = outer /\ C.child[s][p] = x
    BY <1>1, <1>2, <1>6 DEF inner, outer
  <2>2. /\ R.color = C.color /\ R.root = IF C.root = p THEN w ELSE C.root
        /\ R.child[o][p] = inner /\ R.child[s][p] = C.child[s][p]
        /\ R.child[o][w] = C.child[o][w] /\ R.child[s][w] = p
        /\ \A q \in L \ {p, w} : \A t \in Sides :
             R.child[t][q] = IF C.child[t][q] = p THEN w ELSE C.child[t][q]
    BY <1>8, <2>1 DEF Turned, SameButLinks, o
  <2> QED
    BY <1>6, <2>1, <2>2
<1> DEFINE k == Swapped(h, p, w)
<1>12. /\ k \in [TreeNodes -> Nat] /\ k[p] = h[w] /\ k[w] = h[p]
       /\ \A n \in TreeNodes \ {p, w} : k[n] = h[n]
  BY <1>1, <1>2, SwappedFields
<1>13. h[p] = h[w] + 1 /\ h[w] = h[inner] /\ h[w] = h[outer]
  <2>1. h[w] = h[inner] + Weight(T, w) + Owed(w, s, p, s) /\ h[inner] \in Nat
    BY <1>1, <1>2, EvenAt DEF inner
  <2>2. h[w] = h[outer] + Weight(T, w) + Owed(w, o, p, s) /\ h[outer] \in Nat
    BY <1>1, <1>2, EvenAt DEF outer
  <2>3. Owed(w, s, p, s) = 0 /\ Owed(w, o, p, s) = 0 /\ Weight(T, w) = 0 /\ Weight(T, p) = 1
    BY <1>1, <1>4 DEF Owed, Weight
  <2> QED
    BY <1>1, <2>1, <2>2, <2>3
<1>14. ASSUME NEW n \in L, NEW t \in Sides
       PROVE  k[n] = k[R.child[t][n]] + Weight(R, n) + Owed(n, t, p, s)
  <2> HIDE DEF k
  <2>1. CASE n = p
    <3>1. Weight(R, p) = 0
      BY <1>5, <1>11 DEF Weight
    <3>2. CASE t = s
      <4>1. Owed(p, t, p, s) = 1 /\ R.child[t][p] = x /\ k[x] = h[x]
        BY <1>1, <1>11, <1>12, <3>2 DEF Owed
      <4> QED
        BY <1>1, <1>12, <2>1, <3>1, <4>1
    <3>3. CASE t = o
      <4>1. Owed(p, t, p, s) = 0 /\ R.child[t][p] = inner /\ k[inner] = h[inner]
        BY <1>1, <1>3, <1>11, <1>12, <3>3 DEF Owed
      <4>2. k[R.child[t][p]] = h[w] /\ k[p] = h[w] /\ h[w] \in Nat
        BY <1>1, <1>12, <1>13, <4>1
      <4> QED
        BY <2>1, <3>1, <4>1, <4>2
    <3> QED
      BY <1>1, <3>2, <3>3
  <2>2. CASE n = w
    <3>1. Weight(R, w) = 1 /\ Owed(w, t, p, s) = 0
      BY <1>1, <1>5, <1>11 DEF Weight, Owed
    <3>2. R.child[t][w] \in {p, outer}
      BY <1>1, <1>11
    <3>3. k[R.child[t][w]] = h[w]
      BY <1>1, <1>3, <1>12, <1>13, <3>2
    <3> QED
      BY <1>1, <1>12, <1>13, <2>2, <3>1, <3>3
  <2>3. CASE n \notin {p, w}
    <3> DEFINE c == T.child[t][n]
    <3>1. h[n] = h[c] + Weight(T, n) + Owed(n, t, p, s)
      BY <1>2, EvenAt
    <3>2. c \in TreeNodes /\ c # w
      BY <1>1, <1>2, <2>3, Own
    <3>3. Weight(R, n) = Weight(T, n)
      BY <1>1, <1>5, <1>11, <2>3 DEF Weight
    <3>4. R.child[t][n] = IF c = p THEN w ELSE c
      BY <1>11, <2>3
    <3> HIDE DEF c
    <3>5. k[R.child[t][n]] = h[c]
      BY <1>1, <1>2, <1>12, <3>2, <3>4
    <3> QED
      BY <1>1, <1>12, <2>3, <3>1, <3>3, <3>5
  <2> QED
    BY <2>1, <2>2, <2>3
<1>15. Even(R, L, k, p, s)
  <2>1. k[NIL] = 0
    BY <1>1, <1>12
  <2> HIDE DEF k
  <2> QED
    BY <1>12, <1>14, <2>1 DEF Even
<1>16. ASSUME NEW n \in L, R.color[n] = "RED", NEW t \in Sides
       PROVE  R.color[R.child[t][n]] = "BLACK"
  <2>1. CASE n = p
    <3>1. R.child[t][p] \in {inner, x}
      BY <1>1, <1>11
    <3>2. C.color[inner] = "BLACK" /\ C.color[x] = "BLACK"
      BY <1>1, <1>2, <1>3, <1>5
    <3> QED
      BY <1>11, <2>1, <3>1, <3>2
  <2>2. CASE n # p
    <3>1. n # w
      BY <1>5, <1>11, <1>16
    <3>2. T.color[n] = "RED"
      BY <1>1, <1>5, <1>11, <1>16, <2>2, <3>1
    <3>3. T.color[T.child[t][n]] = "BLACK" /\ T.child[t][n] \in TreeNodes
      BY <1>1, <1>2, <3>2, Own
    <3>4. R.child[t][n] = IF T.child[t][n] = p THEN w ELSE T.child[t][n]
      BY <1>11, <2>2, <3>1
    <3> QED
      BY <1>5, <1>11, <3>3, <3>4
  <2> QED
    BY <2>1, <2>2
<1>17. R.color[R.root] = "BLACK"
  <2>1. T.root \in TreeNodes
    BY <1>1 DEF Trees
  <2> QED
    BY <1>2, <1>5, <1>11, <2>1
<1>18. Lifted(C, b, p, s)[x] = b[x]
  BY <1>1, <1>8 DEF Lifted
<1>19. R.color[x] = "BLACK" /\ R.color[R.child[o][p]] = "BLACK"
  BY <1>1, <1>2, <1>3, <1>5, <1>11
<1>20. Short(R, L, M, v, Lifted(C, b, p, s), k, x, p, s)
  <2> HIDE DEF k
  <2> QED
    BY <1>1, <1>2, <1>9, <1>10, <1>11, <1>15, <1>16, <1>17, <1>19 DEF Short
<1> QED
  BY <1>18, <1>19, <1>20 DEF o

(* The far child of the sibling is black: the near one, red, takes the place *)
(* of the sibling.                                                           *)
NearLifted(T, C, R, s, w, r) ==
    /\ C = Dye(Dye(T, r, "BLACK"), w, "RED")
    /\ R = Rotate(C, w, Other(s))

LEMMA LiftNearShort ==
    ASSUME NEW T, NEW L, NEW M, NEW v, NEW b, NEW h, NEW x, NEW p, NEW s,
           Short(T, L, M, v, b, h, x, p, s), NEW w, Uncle(T, p, s, w), T.color[w] = "BLACK",
           NEW r, r = T.child[s][w], T.color[r] = "RED",
           T.color[T.child[Other(s)][w]] = "BLACK",
           NEW C, NEW R, NearLifted(T, C, R, s, w, r)
    PROVE  /\ \E bb, k : Short(R, L, M, v, bb, k, x, p, s)
           /\ R.child[Other(s)][p] = r /\ R.color[r] = "BLACK"
           /\ R.child[Other(s)][r] = w /\ R.color[w] = "RED"
<1> DEFINE o == Other(s)
           far == T.child[o][w]
           inner == T.child[o][r]
           outer == T.child[s][r]
<1>1. /\ o \in Sides /\ o # s /\ Other(o) = s /\ s \in Sides
      /\ \A t \in Sides : t = s \/ t = o
      /\ T.child[o][p] = w /\ w \in L /\ w # p /\ w # x /\ p # x /\ x \in L \cup {NIL}
      /\ w # NIL /\ p # NIL /\ T.root # w
      /\ h[p] = h[w] + Weight(T, p) /\ h[w] = h[x] + 1 /\ h[w] \in Nat /\ h[x] \in Nat
      /\ h \in [TreeNodes -> Nat] /\ h[NIL] = 0
      /\ T \in Trees /\ L \in SUBSET TreeKeys /\ L \subseteq TreeNodes /\ x \in TreeNodes
      /\ NIL \in TreeNodes /\ NIL \notin L
      /\ \A n \in L, t \in Sides : T.child[t][n] = w => n = p /\ t = o
  BY ShortSibling DEF Short
<1>2. /\ Tied(T, L, b) /\ Even(T, L, h, p, s) /\ Rest(T, L, M, v) /\ p \in L
      /\ T.child[s][p] = x /\ T.color[x] = "BLACK" /\ T.color[NIL] = "BLACK"
      /\ \A n \in L : T.color[n] = "RED" => \A t \in Sides : T.color[T.child[t][n]] = "BLACK"
      /\ T.color[T.root] = "BLACK" /\ T.color[far] = "BLACK" /\ T.child[s][w] = r
  BY DEF Short, Rest
<1>3. r \in L /\ far \in L \cup {NIL} /\ r # p /\ r # w /\ far # w /\ r # x /\ r # far
  <2>1. r \in L \cup {NIL} /\ far \in L \cup {NIL} /\ r # w /\ far # w
    BY <1>1, <1>2, Own
  <2>2. r \in L /\ r # far /\ r # x
    BY <1>1, <1>2, <2>1
  <2>3. r # p
    <3>1. b[r] \subseteq b[w] /\ p \notin b[w] /\ r \in b[r]
      BY <1>1, <1>2, <2>2, Own
    <3> QED
      BY <3>1
  <2> HIDE DEF far, o
  <2> QED
    BY <2>1, <2>2, <2>3
<1>4. /\ inner \in L \cup {NIL} /\ outer \in L \cup {NIL} /\ inner # r /\ outer # r
      /\ inner # w /\ outer # w
      /\ T.color[inner] = "BLACK" /\ T.color[outer] = "BLACK"
  <2>1. /\ inner \in L \cup {NIL} /\ outer \in L \cup {NIL} /\ inner # r /\ outer # r
    BY <1>1, <1>2, <1>3, Own
  <2>2. T.color[inner] = "BLACK" /\ T.color[outer] = "BLACK"
    BY <1>1, <1>2, <1>3
  <2>3. inner # w /\ outer # w
    BY <1>1, <1>3
  <2> QED
    BY <2>1, <2>2, <2>3
<1>5. /\ Painted(T, C) /\ C.color[r] = "BLACK" /\ C.color[w] = "RED"
      /\ \A q \in TreeNodes \ {r, w} : C.color[q] = T.color[q]
  <2> HIDE DEF o, far, inner, outer
  <2> QED
    BY <1>1, <1>3, PaintTwo DEF NearLifted
<1>6. C.child = T.child /\ C.root = T.root /\ C.parent = T.parent
  BY <1>5 DEF Painted
<1> HIDE DEF o, far, inner, outer
<1>7. Tied(C, L, b)
  BY <1>2, <1>5, PaintTied
<1>8. Turned(C, R, L, w, o) /\ C.child[Other(o)][w] = r /\ r # NIL
  <2>1. C.child[Other(o)][w] = r /\ r # NIL /\ R = Rotate(C, w, o)
    BY <1>1, <1>2, <1>3, <1>6 DEF NearLifted, o
  <2> QED
    BY <1>1, <1>7, <2>1, RotateFields
<1>9. Tied(R, L, Lifted(C, b, w, o))
  BY <1>1, <1>7, <1>8, RotateTied
<1>10. Rest(R, L, M, v)
  <2>1. C.color[NIL] = "BLACK"
    BY <1>1, <1>2, <1>3, <1>5
  <2> QED
    BY <1>1, <1>2, <1>5, <1>8, <2>1, RestTurned
<1>11. /\ R.color = C.color /\ R.root = T.root
       /\ R.child[s][w] = inner /\ R.child[o][w] = far
       /\ R.child[s][r] = outer /\ R.child[o][r] = w
       /\ \A q \in L \ {w, r} : \A t \in Sides :
            R.child[t][q] = IF T.child[t][q] = w THEN r ELSE T.child[t][q]
  <2>1. C.child[s][w] = r /\ C.child[o][r] = inner /\ C.child[s][r] = outer /\ C.child[o][w] = far
    BY <1>1, <1>2, <1>6 DEF inner, outer, far
  <2>2. /\ R.color = C.color /\ R.root = IF C.root = w THEN r ELSE C.root
        /\ R.child[s][w] = inner /\ R.child[o][w] = C.child[o][w]
        /\ R.child[s][r] = C.child[s][r] /\ R.child[o][r] = w
        /\ \A q \in L \ {w, r} : \A t \in Sides :
             R.child[t][q] = IF C.child[t][q] = w THEN r ELSE C.child[t][q]
    BY <1>1, <1>8, <2>1 DEF Turned, SameButLinks
  <2> QED
    BY <1>1, <1>6, <2>1, <2>2
<1> DEFINE k == Swapped(h, w, r)
<1>12. /\ k \in [TreeNodes -> Nat] /\ k[w] = h[r] /\ k[r] = h[w]
       /\ \A n \in TreeNodes \ {w, r} : k[n] = h[n]
  BY <1>1, <1>3, SwappedFields
<1>13. h[w] = h[r] + 1 /\ h[r] = h[far] /\ h[r] = h[inner] /\ h[r] = h[outer] /\ h[r] \in Nat
  <2>1. h[w] = h[r] + Weight(T, w) + Owed(w, s, p, s) /\ h[r] \in Nat
    BY <1>1, <1>2, EvenAt
  <2>2. h[w] = h[far] + Weight(T, w) + Owed(w, o, p, s) /\ h[far] \in Nat
    BY <1>1, <1>2, EvenAt DEF far
  <2>3. h[r] = h[inner] + Weight(T, r) + Owed(r, o, p, s) /\ h[inner] \in Nat
    BY <1>1, <1>2, <1>3, EvenAt DEF inner
  <2>4. h[r] = h[outer] + Weight(T, r) + Owed(r, s, p, s) /\ h[outer] \in Nat
    BY <1>1, <1>2, <1>3, EvenAt DEF outer
  <2>5. /\ Owed(w, s, p, s) = 0 /\ Owed(w, o, p, s) = 0 /\ Weight(T, w) = 1
        /\ Owed(r, s, p, s) = 0 /\ Owed(r, o, p, s) = 0 /\ Weight(T, r) = 0
    BY <1>1, <1>3 DEF Owed, Weight
  <2> QED
    BY <2>1, <2>2, <2>3, <2>4, <2>5
<1>14. ASSUME NEW n \in L, NEW t \in Sides
       PROVE  k[n] = k[R.child[t][n]] + Weight(R, n) + Owed(n, t, p, s)
  <2> HIDE DEF k
  <2>1. CASE n = w
    <3>1. Weight(R, w) = 0 /\ Owed(w, t, p, s) = 0
      BY <1>1, <1>5, <1>11 DEF Weight, Owed
    <3>2. R.child[t][w] \in {inner, far}
      BY <1>1, <1>11
    <3>3. k[R.child[t][w]] = h[r]
      <4>1. k[inner] = h[r] /\ k[far] = h[r]
        BY <1>1, <1>3, <1>4, <1>12, <1>13, ZenonT(30)
      <4> QED
        BY <3>2, <4>1
    <3> QED
      BY <1>12, <1>13, <2>1, <3>1, <3>3
  <2>2. CASE n = r
    <3>1. Weight(R, r) = 1 /\ Owed(r, t, p, s) = 0
      BY <1>3, <1>5, <1>11 DEF Weight, Owed
    <3>2. R.child[t][r] \in {w, outer}
      BY <1>1, <1>11
    <3>3. k[R.child[t][r]] = h[r]
      BY <1>1, <1>3, <1>4, <1>12, <1>13, <3>2
    <3> QED
      BY <1>12, <1>13, <2>2, <3>1, <3>3
  <2>3. CASE n \notin {w, r}
    <3> DEFINE c == T.child[t][n]
    <3>1. h[n] = h[c] + Weight(T, n) + Owed(n, t, p, s)
      BY <1>2, EvenAt
    <3>2. c \in TreeNodes
      BY <1>1, <1>2, Own
    <3>3. c # r
      <4> SUFFICES ASSUME c = r PROVE FALSE
        OBVIOUS
      <4>1. r # NIL
        BY <1>1, <1>3
      <4> QED
        BY <1>1, <1>2, <2>3, <4>1, OneParent
    <3>4. Weight(R, n) = Weight(T, n)
      BY <1>1, <1>5, <1>11, <2>3 DEF Weight
    <3>5. R.child[t][n] = IF c = w THEN r ELSE c
      BY <1>11, <2>3
    <3> HIDE DEF c
    <3>6. k[R.child[t][n]] = h[c]
      BY <1>12, <3>2, <3>3, <3>5
    <3>7. k[n] = h[n]
      BY <1>1, <1>12, <2>3
    <3> QED
      BY <3>1, <3>4, <3>6, <3>7
  <2> QED
    BY <2>1, <2>2, <2>3
<1>15. Even(R, L, k, p, s)
  <2>1. k[NIL] = 0
    BY <1>1, <1>3, <1>12
  <2> HIDE DEF k
  <2> QED
    BY <1>12, <1>14, <2>1 DEF Even
<1>16. ASSUME NEW n \in L, R.color[n] = "RED", NEW t \in Sides
       PROVE  R.color[R.child[t][n]] = "BLACK"
  <2>1. CASE n = w
    <3>1. R.child[t][w] \in {inner, far}
      BY <1>1, <1>11
    <3>2. C.color[inner] = "BLACK" /\ C.color[far] = "BLACK"
      BY <1>1, <1>2, <1>3, <1>4, <1>5
    <3> QED
      BY <1>11, <2>1, <3>1, <3>2
  <2>2. CASE n # w
    <3>1. n # r
      BY <1>5, <1>11, <1>16
    <3>2. T.color[n] = "RED"
      BY <1>1, <1>5, <1>11, <1>16, <2>2, <3>1
    <3>3. T.color[T.child[t][n]] = "BLACK" /\ T.child[t][n] \in TreeNodes
      BY <1>1, <1>2, <3>2, Own
    <3>4. R.child[t][n] = IF T.child[t][n] = w THEN r ELSE T.child[t][n]
      BY <1>11, <2>2, <3>1
    <3> QED
      BY <1>5, <1>11, <3>3, <3>4
  <2> QED
    BY <2>1, <2>2
<1>17. R.color[R.root] = "BLACK"
  <2>1. T.root \in TreeNodes
    BY <1>1 DEF Trees
  <2> QED
    BY <1>1, <1>2, <1>5, <1>11, <2>1
<1>18. R.color[x] = "BLACK" /\ R.color[r] = "BLACK" /\ R.color[w] = "RED"
  BY <1>1, <1>2, <1>3, <1>5, <1>11
<1>19. R.child[s][p] = x /\ R.child[o][p] = r
  <2>1. p \in L \ {w, r}
    BY <1>1, <1>2, <1>3
  <2> QED
    BY <1>1, <1>2, <1>11, <2>1
<1>20. Short(R, L, M, v, Lifted(C, b, w, o), k, x, p, s)
  <2> HIDE DEF k
  <2> QED
    BY <1>1, <1>2, <1>9, <1>10, <1>15, <1>16, <1>17, <1>18, <1>19 DEF Short
<1> QED
  BY <1>11, <1>18, <1>19, <1>20 DEF o

(* The far child is red: the sibling goes above p, and nothing is owed. *)
FarLifted(T, C, R, p, s, w, f) ==
    /\ C = Dye(Dye(Dye(T, w, T.color[p]), p, "BLACK"), f, "BLACK")
    /\ R = Rotate(C, p, s)

LEMMA LiftFarBalances ==
    ASSUME NEW T, NEW L, NEW M, NEW v, NEW b, NEW h, NEW x, NEW p, NEW s,
           Short(T, L, M, v, b, h, x, p, s), NEW w, Uncle(T, p, s, w), T.color[w] = "BLACK",
           NEW f, Uncle(T, w, s, f), T.color[f] = "RED",
           NEW C, NEW R, FarLifted(T, C, R, p, s, w, f)
    PROVE  \E bb, k : Balanced(R, L, M, v, bb, k)
<1> DEFINE o == Other(s)
           inner == T.child[s][w]
<1>1. /\ o \in Sides /\ o # s /\ Other(o) = s /\ s \in Sides
      /\ \A t \in Sides : t = s \/ t = o
      /\ T.child[o][p] = w /\ w \in L /\ w # p /\ w # x /\ p # x /\ x \in L \cup {NIL}
      /\ w # NIL /\ p # NIL /\ T.root # w
      /\ h[p] = h[w] + Weight(T, p) /\ h[w] = h[x] + 1 /\ h[w] \in Nat /\ h[x] \in Nat
      /\ h \in [TreeNodes -> Nat] /\ h[NIL] = 0
      /\ T \in Trees /\ L \in SUBSET TreeKeys /\ L \subseteq TreeNodes /\ x \in TreeNodes
      /\ NIL \in TreeNodes /\ NIL \notin L
      /\ \A n \in L, t \in Sides : T.child[t][n] = w => n = p /\ t = o
  BY ShortSibling DEF Short
<1>2. /\ Tied(T, L, b) /\ Even(T, L, h, p, s) /\ Rest(T, L, M, v) /\ p \in L
      /\ T.child[s][p] = x /\ T.color[x] = "BLACK" /\ T.color[NIL] = "BLACK"
      /\ \A n \in L : T.color[n] = "RED" => \A t \in Sides : T.color[T.child[t][n]] = "BLACK"
      /\ T.color[T.root] = "BLACK" /\ T.child[o][w] = f
  BY DEF Short, Rest, Uncle
<1>3. /\ f \in L /\ f # p /\ f # w /\ f # x /\ inner \in L \cup {NIL} /\ inner # w /\ inner # p /\ inner # f
      /\ f # NIL
  <2>1. f \in L \cup {NIL} /\ f # w /\ inner \in L \cup {NIL} /\ inner # w
    BY <1>1, <1>2, Own
  <2>2. f \in L /\ f # x /\ f # NIL
    BY <1>1, <1>2, <2>1
  <2>3. f # p /\ inner # p
    <3>1. b[f] \subseteq b[w] /\ p \notin b[w] /\ f \in b[f] /\ b[inner] \subseteq b[w]
      BY <1>1, <1>2, <2>2, Own
    <3>2. p \in b[p]
      BY <1>2, Own
    <3> HIDE DEF inner, o
    <3> QED
      BY <3>1, <3>2
  <2>4. inner # f
    <3> SUFFICES ASSUME inner = f PROVE FALSE
      OBVIOUS
    <3> QED
      BY <1>1, <1>2, <2>2, OneParent
  <2> QED
    BY <2>1, <2>2, <2>3, <2>4
<1>4. \A t \in Sides : T.child[t][f] \in L \cup {NIL} /\ T.child[t][f] # f /\ T.child[t][f] # w /\ T.child[t][f] # p
  <2>1. \A t \in Sides : /\ T.child[t][f] \in L \cup {NIL} /\ T.child[t][f] # f
                         /\ b[T.child[t][f]] \subseteq b[f]
    BY <1>2, <1>3, Own
  <2>2. b[f] \subseteq b[w] /\ p \notin b[w] /\ p \in b[p]
    BY <1>1, <1>2, Own
  <2>3. \A t \in Sides : T.child[t][f] # w
    BY <1>1, <1>3
  <2> QED
    BY <2>1, <2>2, <2>3
<1>5. /\ Painted(T, C) /\ C.color[w] = T.color[p] /\ C.color[p] = "BLACK" /\ C.color[f] = "BLACK"
      /\ \A q \in TreeNodes \ {w, p, f} : C.color[q] = T.color[q]
  <2> HIDE DEF o, inner
  <2>1. PICK c \in {"RED", "BLACK"} : c = T.color[p]
    BY <1>1, <1>2 DEF Trees
  <2>2. C = Dye(Dye(Dye(T, w, c), p, "BLACK"), f, "BLACK")
    BY <2>1 DEF FarLifted
  <2>3. /\ Painted(T, C) /\ C.color[w] = c /\ C.color[p] = "BLACK" /\ C.color[f] = "BLACK"
        /\ \A q \in TreeNodes \ {w, p, f} : C.color[q] = T.color[q]
    <3>1. /\ T \in Trees /\ w \in TreeNodes /\ p \in TreeNodes /\ f \in TreeNodes
          /\ p # w /\ f # w /\ f # p
      BY <1>1, <1>2, <1>3
    <3> QED
      BY <2>2, <3>1, PaintThree, SMTT(30)
  <2> QED
    BY <2>1, <2>3
<1>6. C.child = T.child /\ C.root = T.root /\ C.parent = T.parent
  BY <1>5 DEF Painted
<1> HIDE DEF o, inner
<1>7. Tied(C, L, b)
  BY <1>2, <1>5, PaintTied
<1>8. Turned(C, R, L, p, s) /\ C.child[Other(s)][p] = w
  <2>1. C.child[Other(s)][p] = w /\ R = Rotate(C, p, s)
    BY <1>1, <1>6 DEF o, FarLifted
  <2> QED
    BY <1>1, <1>2, <1>7, <2>1, RotateFields
<1>9. Tied(R, L, Lifted(C, b, p, s))
  BY <1>1, <1>2, <1>7, <1>8, RotateTied
<1>10. Rest(R, L, M, v)
  <2>1. C.color[NIL] = "BLACK"
    BY <1>1, <1>2, <1>3, <1>5
  <2> QED
    BY <1>1, <1>2, <1>5, <1>8, <2>1, RestTurned
<1>11. /\ R.color = C.color /\ R.root = IF T.root = p THEN w ELSE T.root
       /\ R.child[o][p] = inner /\ R.child[s][p] = x
       /\ R.child[o][w] = f /\ R.child[s][w] = p
       /\ \A q \in L \ {p, w} : \A t \in Sides :
            R.child[t][q] = IF T.child[t][q] = p THEN w ELSE T.child[t][q]
  <2>1. C.child[o][p] = w /\ C.child[s][w] = inner /\ C.child[o][w] = f /\ C.child[s][p] = x
    BY <1>1, <1>2, <1>6 DEF inner
  <2>2. /\ R.color = C.color /\ R.root = IF C.root = p THEN w ELSE C.root
        /\ R.child[o][p] = inner /\ R.child[s][p] = C.child[s][p]
        /\ R.child[o][w] = C.child[o][w] /\ R.child[s][w] = p
        /\ \A q \in L \ {p, w} : \A t \in Sides :
             R.child[t][q] = IF C.child[t][q] = p THEN w ELSE C.child[t][q]
    BY <1>8, <2>1 DEF Turned, SameButLinks, o
  <2> QED
    BY <1>6, <2>1, <2>2
<1> DEFINE k == [n \in TreeNodes |-> IF n = p THEN h[w] ELSE IF n = w THEN h[p]
                                     ELSE IF n = f THEN h[f] + 1 ELSE h[n]]
<1>12. /\ k \in [TreeNodes -> Nat] /\ k[p] = h[w] /\ k[w] = h[p] /\ k[f] = h[f] + 1
       /\ \A n \in TreeNodes \ {p, w, f} : k[n] = h[n]
  BY <1>1, <1>2, <1>3
<1>13. h[w] = h[f] + 1 /\ h[w] = h[inner] + 1 /\ h[f] \in Nat
  <2>1. h[w] = h[f] + Weight(T, w) + Owed(w, o, p, s) /\ h[f] \in Nat
    BY <1>1, <1>2, EvenAt
  <2>2. h[w] = h[inner] + Weight(T, w) + Owed(w, s, p, s) /\ h[inner] \in Nat
    BY <1>1, <1>2, EvenAt DEF inner
  <2>3. Owed(w, s, p, s) = 0 /\ Owed(w, o, p, s) = 0 /\ Weight(T, w) = 1
    BY <1>1 DEF Owed, Weight
  <2> QED
    BY <2>1, <2>2, <2>3
<1>14. ASSUME NEW n \in L, NEW t \in Sides
       PROVE  k[n] = k[R.child[t][n]] + Weight(R, n) /\ R.child[t][n] \in TreeNodes
  <2> SUFFICES k[n] = k[R.child[t][n]] + Weight(R, n)
    BY <1>1, <1>9, Own
  <2> HIDE DEF k
  <2>1. CASE n = p
    <3>1. Weight(R, p) = 1
      BY <1>5, <1>11 DEF Weight
    <3>2. R.child[t][p] \in {inner, x}
      BY <1>1, <1>11
    <3>3. k[inner] = h[inner] /\ k[x] = h[x]
      BY <1>1, <1>3, <1>12
    <3>4. h[inner] = h[x]
      BY <1>1, <1>3, <1>13
    <3>5. k[R.child[t][p]] = h[x]
      BY <3>2, <3>3, <3>4
    <3> QED
      BY <1>1, <1>12, <2>1, <3>1, <3>5
  <2>2. CASE n = w
    <3>1. Weight(R, w) = Weight(T, p)
      BY <1>5, <1>11 DEF Weight
    <3>2. R.child[t][w] \in {p, f}
      BY <1>1, <1>11
    <3>3. k[p] = h[w] /\ k[f] = h[w]
      BY <1>12, <1>13
    <3>4. k[R.child[t][w]] = h[w]
      BY <3>2, <3>3
    <3> QED
      BY <1>1, <1>12, <2>2, <3>1, <3>4
  <2>3. CASE n = f
    <3> DEFINE c == T.child[t][f]
    <3>1. h[f] = h[c] + Weight(T, f) + Owed(f, t, p, s) /\ h[c] \in Nat
      BY <1>2, <1>3, EvenAt
    <3>2. Weight(T, f) = 0 /\ Owed(f, t, p, s) = 0 /\ Weight(R, f) = 1
      BY <1>3, <1>5, <1>11 DEF Weight, Owed
    <3>3. c \in TreeNodes \ {p, w, f}
      BY <1>1, <1>4
    <3>4. R.child[t][f] = c
      BY <1>3, <1>4, <1>11
    <3> HIDE DEF c
    <3>5. k[c] = h[c]
      BY <1>12, <3>3
    <3> QED
      BY <1>12, <2>3, <3>1, <3>2, <3>4, <3>5
  <2>4. CASE n \notin {p, w, f}
    <3> DEFINE c == T.child[t][n]
    <3>1. h[n] = h[c] + Weight(T, n) + Owed(n, t, p, s) /\ h[c] \in Nat /\ Weight(T, n) \in Nat
      BY <1>2, EvenAt
    <3>2. c \in TreeNodes /\ c # w
      BY <1>1, <1>2, <2>4, Own
    <3>3. c # f
      <4> SUFFICES ASSUME c = f PROVE FALSE
        OBVIOUS
      <4> QED
        BY <1>1, <1>2, <1>3, <2>4, OneParent
    <3>4. Weight(R, n) = Weight(T, n)
      BY <1>1, <1>5, <1>11, <2>4 DEF Weight
    <3>5. R.child[t][n] = IF c = p THEN w ELSE c
      BY <1>11, <2>4
    <3>6. Owed(n, t, p, s) = 0
      BY <2>4 DEF Owed
    <3> HIDE DEF c
    <3>7. k[R.child[t][n]] = h[c]
      BY <1>12, <3>2, <3>3, <3>5
    <3>8. k[n] = h[n]
      BY <1>1, <1>12, <2>4
    <3> QED
      BY <3>1, <3>4, <3>6, <3>7, <3>8
  <2> QED
    BY <2>1, <2>2, <2>3, <2>4
<1>15. Even(R, L, k, NIL, "left")
  <2>1. k[NIL] = 0
    BY <1>1, <1>3, <1>12
  <2> HIDE DEF k
  <2> QED
    BY <1>1, <1>12, <1>14, <2>1, LevelEven
<1>16. ASSUME NEW n \in L, R.color[n] = "RED", NEW t \in Sides
       PROVE  R.color[R.child[t][n]] = "BLACK"
  <2>1. CASE n = w
    <3>1. R.child[t][w] \in {p, f}
      BY <1>1, <1>11
    <3> QED
      BY <1>5, <1>11, <2>1, <3>1
  <2>2. CASE n # w
    <3>1. n # p /\ n # f
      BY <1>5, <1>11, <1>16
    <3>2. T.color[n] = "RED"
      BY <1>1, <1>5, <1>11, <1>16, <2>2, <3>1
    <3>3. T.color[T.child[t][n]] = "BLACK" /\ T.child[t][n] \in TreeNodes
      BY <1>1, <1>2, <3>2, Own
    <3>4. R.child[t][n] = IF T.child[t][n] = p THEN w ELSE T.child[t][n]
      BY <1>11, <2>2, <3>1
    <3>5. T.child[t][n] # w
      BY <1>1, <3>1
    <3> QED
      BY <1>5, <1>11, <3>3, <3>4, <3>5
  <2> QED
    BY <2>1, <2>2
<1>17. R.color[R.root] = "BLACK"
  <2>1. T.root \in TreeNodes
    BY <1>1 DEF Trees
  <2> QED
    BY <1>1, <1>2, <1>5, <1>11, <2>1
<1>18. Balanced(R, L, M, v, Lifted(C, b, p, s), k)
  <2> HIDE DEF k
  <2> QED
    BY <1>9, <1>10, <1>15, <1>16, <1>17 DEF Balanced
<1> QED
  BY <1>18

(* What rbtree_delete_fixup repairs: x is the root, or one black node short;  *)
(* x may be red below a red node, or above one.                               *)
Sinking(T, L, M, v, b, h, x) ==
    /\ Tied(T, L, b) /\ Rest(T, L, M, v) /\ x \in L \cup {NIL}
    /\ \/ x = T.root /\ Even(T, L, h, NIL, "left")
       \/ \E p \in L : \E s \in Sides :
            /\ T.parent[x] = p /\ SideOf(T, x) = s /\ T.child[s][p] = x
            /\ Even(T, L, h, p, s)
    /\ \A n \in L : n # x /\ T.color[n] = "RED" =>
         \A t \in Sides : T.child[t][n] # x => T.color[T.child[t][n]] = "BLACK"
    /\ T.root # x => T.color[T.root] = "BLACK"

(* A black sibling with two black children is made red; p is short now. *)
LEMMA DeleteRecolours ==
    ASSUME NEW T, NEW L, NEW M, NEW v, NEW b, NEW h, NEW x, NEW p, NEW s,
           Short(T, L, M, v, b, h, x, p, s), NEW w, Uncle(T, p, s, w), T.color[w] = "BLACK",
           \A t \in Sides : T.color[T.child[t][w]] = "BLACK",
           NEW C, C = Dye(T, w, "RED")
    PROVE  \E k : Sinking(C, L, M, v, b, k, p) /\ Cardinality(b[x]) < Cardinality(b[p])
<1> DEFINE o == Other(s)
<1>1. /\ o \in Sides /\ o # s /\ Other(o) = s /\ s \in Sides
      /\ \A t \in Sides : t = s \/ t = o
      /\ T.child[o][p] = w /\ w \in L /\ w # p /\ w # x /\ p # x /\ x \in L \cup {NIL}
      /\ w # NIL /\ p # NIL /\ T.root # w
      /\ h[p] = h[w] + Weight(T, p) /\ h[w] = h[x] + 1 /\ h[w] \in Nat /\ h[x] \in Nat
      /\ h \in [TreeNodes -> Nat] /\ h[NIL] = 0
      /\ T \in Trees /\ L \in SUBSET TreeKeys /\ L \subseteq TreeNodes /\ x \in TreeNodes
      /\ NIL \in TreeNodes /\ NIL \notin L
      /\ \A n \in L, t \in Sides : T.child[t][n] = w => n = p /\ t = o
  BY ShortSibling DEF Short
<1>2. /\ Tied(T, L, b) /\ Even(T, L, h, p, s) /\ Rest(T, L, M, v) /\ p \in L
      /\ T.child[s][p] = x /\ T.color[x] = "BLACK" /\ T.color[NIL] = "BLACK"
      /\ \A n \in L : T.color[n] = "RED" => \A t \in Sides : T.color[T.child[t][n]] = "BLACK"
      /\ T.color[T.root] = "BLACK"
  BY DEF Short, Rest
<1> HIDE DEF o
<1>3. /\ Painted(T, C) /\ C.color[w] = "RED"
      /\ \A q \in TreeNodes \ {w} : C.color[q] = T.color[q]
  BY <1>1, Paint
<1>4. C.child = T.child /\ C.root = T.root /\ C.parent = T.parent /\ C.value = T.value
  BY <1>3 DEF Painted
<1>5. Tied(C, L, b)
  BY <1>2, <1>3, PaintTied
<1>6. Rest(C, L, M, v)
  <2>1. C.color[NIL] = T.color[NIL]
    BY <1>1, <1>3
  <2> QED
    BY <1>2, <1>4, <2>1 DEF Rest
<1> DEFINE k == [n \in TreeNodes |-> IF n \in {p, w} THEN h[n] - 1 ELSE h[n]]
<1>7. h[p] \in Nat /\ h[p] >= 1 /\ h[w] >= 1 /\ Weight(T, p) \in Nat /\ h[w] - 1 = h[x]
  <2>1. Weight(T, p) \in Nat
    BY DEF Weight
  <2> QED
    BY <1>1, <2>1
<1>8. /\ k \in [TreeNodes -> Nat] /\ k[p] = h[p] - 1 /\ k[w] = h[w] - 1
      /\ \A n \in TreeNodes \ {p, w} : k[n] = h[n]
  BY <1>1, <1>2, <1>7
(* The edge that leads to p, if there is one. *)
<1> DEFINE Debt(pp, ss) == /\ \A n \in L, t \in Sides : T.child[t][n] = p <=> n = pp /\ t = ss
<1>9. ASSUME NEW pp, NEW ss, Debt(pp, ss) PROVE Even(C, L, k, pp, ss)
  <2>1. ASSUME NEW n \in L, NEW t \in Sides
        PROVE  k[n] = k[C.child[t][n]] + Weight(C, n) + Owed(n, t, pp, ss)
    <3> DEFINE c == T.child[t][n]
    <3>1. /\ h[n] = h[c] + Weight(T, n) + Owed(n, t, p, s) /\ h[n] \in Nat /\ h[c] \in Nat
          /\ Weight(T, n) \in Nat
      BY <1>2, EvenAt
    <3>2. C.child[t][n] = c /\ c \in TreeNodes /\ c # n
      BY <1>1, <1>2, <1>4, Own
    <3>3. c = p <=> n = pp /\ t = ss
      BY <1>9
    <3>4. c = w => n = p /\ t = o
      BY <1>1
    <3>5. n = p /\ t = s => c = x
      BY <1>2
    <3>6. n = p /\ t = o => c = w
      BY <1>1
    <3> HIDE DEF c, k, Debt
    <3>7. CASE n = p
      <4>1. Owed(n, t, pp, ss) = 0
        BY <3>2, <3>3, <3>7 DEF Owed
      <4>2. Weight(C, p) = Weight(T, p)
        BY <1>1, <1>2, <1>3 DEF Weight
      <4>3. CASE t = s
        <5>1. Owed(n, t, p, s) = 1 /\ k[c] = h[c]
          BY <1>1, <1>8, <3>5, <3>7, <4>3 DEF Owed
        <5> QED
          BY <1>8, <3>1, <3>2, <3>7, <4>1, <4>2, <5>1
      <4>4. CASE t = o
        <5>1. Owed(n, t, p, s) = 0 /\ k[c] = h[c] - 1
          BY <1>1, <1>8, <3>6, <3>7, <4>4 DEF Owed
        <5> QED
          BY <1>8, <3>1, <3>2, <3>7, <4>1, <4>2, <5>1
      <4> QED
        BY <1>1, <4>3, <4>4
    <3>8. CASE n = w
      <4>1. c # p /\ c # w
        <5>1. b[c] \subseteq b[w] /\ p \notin b[w] /\ p \in b[p]
          BY <1>1, <1>2, <3>8, Own DEF c
        <5> QED
          BY <3>2, <3>8, <5>1
      <4>2. Owed(n, t, pp, ss) = 0 /\ Owed(n, t, p, s) = 0
        BY <1>1, <3>3, <3>8, <4>1 DEF Owed
      <4>3. Weight(C, w) = 0 /\ Weight(T, w) = 1
        BY <1>3 DEF Weight
      <4>4. k[c] = h[c]
        BY <1>8, <3>2, <4>1
      <4> QED
        BY <1>8, <3>1, <3>2, <3>8, <4>2, <4>3, <4>4
    <3>9. CASE n \notin {p, w}
      <4>1. Owed(n, t, p, s) = 0 /\ c # w
        BY <3>4, <3>9 DEF Owed
      <4>2. Weight(C, n) = Weight(T, n)
        BY <1>1, <1>3, <3>9 DEF Weight
      <4>3. k[n] = h[n]
        BY <1>1, <1>8, <3>9
      <4>4. CASE c = p
        <5>1. Owed(n, t, pp, ss) = 1 /\ k[c] = h[c] - 1
          BY <1>8, <3>3, <4>4 DEF Owed
        <5> QED
          BY <3>1, <3>2, <4>1, <4>2, <4>3, <5>1, SMTT(30)
      <4>5. CASE c # p
        <5>1. Owed(n, t, pp, ss) = 0 /\ k[c] = h[c]
          BY <1>8, <3>2, <3>3, <4>1, <4>5 DEF Owed
        <5> QED
          BY <3>1, <3>2, <4>1, <4>2, <4>3, <5>1
      <4> QED
        BY <4>4, <4>5
    <3> QED
      BY <3>7, <3>8, <3>9
  <2>2. k[NIL] = 0
    BY <1>1, <1>8
  <2> HIDE DEF k
  <2> QED
    BY <1>8, <2>1, <2>2 DEF Even
<1>10. \/ p = C.root /\ Even(C, L, k, NIL, "left")
       \/ \E pp \in L : \E ss \in Sides :
            /\ C.parent[p] = pp /\ SideOf(C, p) = ss /\ C.child[ss][pp] = p
            /\ Even(C, L, k, pp, ss)
  <2> HIDE DEF k
  <2>1. CASE p = T.root
    <3>1. \A n \in L, t \in Sides : T.child[t][n] # p
      BY <1>1, <1>2, <2>1, NotTheRoot
    <3>2. Debt(NIL, "left")
      BY <1>1, <3>1
    <3> HIDE DEF Debt
    <3>3. Even(C, L, k, NIL, "left")
      BY <1>9, <3>2
    <3> QED
      BY <1>4, <2>1, <3>3
  <2>2. CASE p # T.root
    <3>1. PICK pp, ss : pp = C.parent[p] /\ ss = SideOf(C, p)
      OBVIOUS
    <3>2. pp \in L /\ ss \in Sides /\ C.child[ss][pp] = p
      BY <1>2, <1>4, <1>5, <2>2, <3>1, SideIs
    <3>3. \A n \in L, t \in Sides : T.child[t][n] = p => n = pp /\ t = ss
      <4> SUFFICES ASSUME NEW n \in L, NEW t \in Sides, T.child[t][n] = p PROVE n = pp /\ t = ss
        OBVIOUS
      <4>1. T.child[ss][pp] = p
        BY <1>4, <3>2
      <4> QED
        BY <1>1, <1>2, <3>2, <4>1, OneParent
    <3>4. Debt(pp, ss)
      BY <1>4, <3>2, <3>3
    <3> HIDE DEF Debt
    <3>5. Even(C, L, k, pp, ss)
      BY <1>9, <3>4
    <3> QED
      BY <3>1, <3>2, <3>5
  <2> QED
    BY <2>1, <2>2
<1>11. ASSUME NEW n \in L, n # p, C.color[n] = "RED", NEW t \in Sides, C.child[t][n] # p
       PROVE  C.color[C.child[t][n]] = "BLACK"
  <2>1. C.child[t][n] = T.child[t][n] /\ T.child[t][n] \in TreeNodes
    BY <1>1, <1>2, <1>4, Own
  <2>2. T.child[t][n] # w
    BY <1>1, <1>11
  <2>3. T.color[T.child[t][n]] = "BLACK"
    BY <1>1, <1>2, <1>3, <1>11
  <2> QED
    BY <1>3, <2>1, <2>2, <2>3
<1>12. C.color[C.root] = "BLACK"
  <2>1. T.root \in TreeNodes
    BY <1>1 DEF Trees
  <2> QED
    BY <1>1, <1>2, <1>3, <1>4, <2>1
<1>13. Sinking(C, L, M, v, b, k, p)
  <2> HIDE DEF k
  <2> QED
    BY <1>2, <1>5, <1>6, <1>10, <1>11, <1>12 DEF Sinking
<1>14. b[x] \subseteq b[p] /\ p \notin b[x]
  BY <1>1, <1>2, Own
<1>15. Cardinality(b[x]) < Cardinality(b[p])
  BY <1>2, <1>14, SmallerBelow
<1> QED
  BY <1>13, <1>15

LEMMA SinkingShort ==
    ASSUME NEW T, NEW L, NEW M, NEW v, NEW b, NEW h, NEW x, Sinking(T, L, M, v, b, h, x),
           x # T.root, T.color[x] = "BLACK"
    PROVE  Short(T, L, M, v, b, h, x, T.parent[x], SideOf(T, x))
<1>1. PICK p \in L, s \in Sides :
          /\ T.parent[x] = p /\ SideOf(T, x) = s /\ T.child[s][p] = x /\ Even(T, L, h, p, s)
  BY DEF Sinking
<1>2. \A n \in L : T.color[n] = "RED" => \A t \in Sides : T.color[T.child[t][n]] = "BLACK"
  BY DEF Sinking
<1> QED
  BY <1>1, <1>2 DEF Short, Sinking

LEMMA BalancedSinks ==
    ASSUME NEW T, NEW L, NEW M, NEW v, NEW b, NEW h, Balanced(T, L, M, v, b, h)
    PROVE  Sinking(T, L, M, v, b, h, T.root)
<1>1. T.root \in L \cup {NIL}
  BY DEF Balanced, Tied
<1> QED
  BY <1>1 DEF Balanced, Sinking

(* What is below p after the sibling is black. *)
LEMMA LiftRedDone ==
    ASSUME NEW T, NEW L, NEW M, NEW v, NEW b, NEW h, NEW x, NEW p, NEW s,
           Short(T, L, M, v, b, h, x, p, s)
    PROVE  /\ \E bb, k : Short(LiftRed(T, p, s), L, M, v, bb, k, x, p, s) /\ bb[x] = b[x]
           /\ LiftRed(T, p, s).color[LiftRed(T, p, s).child[Other(s)][p]] = "BLACK"
<1>1. PICK w : Uncle(T, p, s, w)
  BY DEF Uncle
<1>2. w \in L /\ T \in Trees /\ L \subseteq TreeNodes
  BY <1>1, ShortSibling
<1>3. w = T.child[Other(s)][p]
  BY <1>1 DEF Uncle
<1>4. CASE T.color[w] = "RED"
  <2>1. PICK C, R : RedLifted(T, C, R, p, s, w)
    BY DEF RedLifted
  <2>2. LiftRed(T, p, s) = R
    <3>1. LiftRed(T, p, s) = Rotate([T EXCEPT !.color[w] = "BLACK", !.color[p] = "RED"], p, s)
      BY <1>3, <1>4, Zenon DEF LiftRed
    <3>2. C = [T EXCEPT !.color[w] = "BLACK", !.color[p] = "RED"]
      BY <2>1 DEF RedLifted, Dye
    <3> QED
      BY <2>1, <3>1, <3>2 DEF RedLifted
  <2>3. /\ \E bb, k : Short(R, L, M, v, bb, k, x, p, s) /\ bb[x] = b[x]
        /\ R.color[R.child[Other(s)][p]] = "BLACK"
    BY <1>1, <1>4, <2>1, LiftRedShort
  <2> QED
    BY <2>2, <2>3
<1>5. CASE T.color[w] # "RED"
  <2>1. LiftRed(T, p, s) = T
    BY <1>3, <1>5, Zenon DEF LiftRed
  <2>2. T.color[w] = "BLACK"
    BY <1>2, <1>5 DEF Trees
  <2> QED
    BY <1>3, <2>1, <2>2
<1> QED
  BY <1>4, <1>5

LEMMA LiftNearDone ==
    ASSUME NEW T, NEW L, NEW M, NEW v, NEW b, NEW h, NEW x, NEW p, NEW s,
           Short(T, L, M, v, b, h, x, p, s), NEW w, Uncle(T, p, s, w), T.color[w] = "BLACK",
           ~\A t \in Sides : T.color[T.child[t][w]] = "BLACK",
           NEW R, R = LiftNear(T, p, s)
    PROVE  \E y, f, bb, k : /\ Short(R, L, M, v, bb, k, x, p, s) /\ Uncle(R, p, s, y)
                            /\ R.color[y] = "BLACK" /\ Uncle(R, y, s, f) /\ R.color[f] = "RED"
<1>1. /\ w = T.child[Other(s)][p] /\ w \in L /\ T \in Trees /\ L \subseteq TreeNodes
      /\ \A t \in Sides : t = s \/ t = Other(s)
      /\ s \in Sides /\ Other(s) \in Sides
  BY ShortSibling, SMTT(30) DEF Uncle, Short
<1>2. Tied(T, L, b)
  BY DEF Short
<1>3. \A t \in Sides : T.color[T.child[t][w]] \in {"RED", "BLACK"}
  <2>1. \A t \in Sides : T.child[t][w] \in L \cup {NIL}
    BY <1>1, <1>2, Zenon DEF Tied
  <2> QED
    BY <1>1, <2>1 DEF Trees, TreeNodes
<1>4. CASE T.color[T.child[Other(s)][w]] = "BLACK"
  <2>1. PICK r : Uncle(T, w, Other(s), r)
    BY DEF Uncle
  <2>2. r = T.child[s][w] /\ T.color[r] = "RED"
    <3>1. Other(Other(s)) = s
      BY <1>1 DEF Sides, Other
    <3>2. r = T.child[s][w]
      BY <2>1, <3>1 DEF Uncle
    <3>3. T.color[T.child[s][w]] # "BLACK"
      BY <1>1, <1>4
    <3> QED
      BY <1>1, <1>3, <3>2, <3>3, Zenon
  <2>3. PICK C, S : NearLifted(T, C, S, s, w, r)
    BY DEF NearLifted
  <2>4. R = S
    <3>1. R = Rotate([T EXCEPT !.color[r] = "BLACK", !.color[w] = "RED"], w, Other(s))
      BY <1>1, <1>4, <2>2, Zenon DEF LiftNear
    <3>2. C = [T EXCEPT !.color[r] = "BLACK", !.color[w] = "RED"]
      BY <2>3 DEF NearLifted, Dye
    <3> QED
      BY <2>3, <3>1, <3>2 DEF NearLifted
  <2>5. /\ \E bb, k : Short(S, L, M, v, bb, k, x, p, s)
        /\ S.child[Other(s)][p] = r /\ S.color[r] = "BLACK"
        /\ S.child[Other(s)][r] = w /\ S.color[w] = "RED"
    BY <1>4, <2>2, <2>3, LiftNearShort
  <2>6. Uncle(S, p, s, r) /\ Uncle(S, r, s, w)
    BY <2>5 DEF Uncle
  <2> QED
    BY <2>4, <2>5, <2>6
<1>5. CASE T.color[T.child[Other(s)][w]] # "BLACK"
  <2>1. R = T
    BY <1>1, <1>5, Zenon DEF LiftNear
  <2>2. PICK f : Uncle(T, w, s, f)
    BY DEF Uncle
  <2>3. T.color[f] = "RED"
    BY <1>1, <1>3, <1>5, <2>2, Zenon DEF Uncle
  <2> QED
    BY <2>1, <2>2, <2>3
<1> QED
  BY <1>4, <1>5

LEMMA LiftFarDone ==
    ASSUME NEW T, NEW L, NEW M, NEW v, NEW b, NEW h, NEW x, NEW p, NEW s,
           Short(T, L, M, v, b, h, x, p, s), NEW w, Uncle(T, p, s, w), T.color[w] = "BLACK",
           NEW f, Uncle(T, w, s, f), T.color[f] = "RED",
           NEW R, R = LiftFar(T, p, s)
    PROVE  \E bb, k : Balanced(R, L, M, v, bb, k)
<1>1. w = T.child[Other(s)][p] /\ f = T.child[Other(s)][w]
  BY DEF Uncle
<1>2. PICK C, S : FarLifted(T, C, S, p, s, w, f)
  BY DEF FarLifted
<1>3. R = S
  <2>1. R = Rotate([T EXCEPT !.color[w] = T.color[p], !.color[p] = "BLACK", !.color[f] = "BLACK"], p, s)
    BY <1>1, Zenon DEF LiftFar
  <2>2. C = [T EXCEPT !.color[w] = T.color[p], !.color[p] = "BLACK", !.color[f] = "BLACK"]
    <3>1. C = Dye(Dye(Dye(T, w, T.color[p]), p, "BLACK"), f, "BLACK")
      BY <1>2 DEF FarLifted
    <3> QED
      BY <3>1 DEF Dye
  <2> QED
    BY <1>2, <2>1, <2>2 DEF FarLifted
<1> QED
  BY <1>2, <1>3, LiftFarBalances

(* One turn of the loop is the last, or moves the trouble up. *)
LEMMA DeleteTurnSinks ==
    ASSUME NEW T, NEW L, NEW M, NEW v, NEW b, NEW h, NEW x, Sinking(T, L, M, v, b, h, x),
           x # T.root, T.color[x] = "BLACK",
           NEW N, N = DeleteTurn(T, x)
    PROVE  \E bb, k : /\ Sinking(N.tree, L, M, v, bb, k, N.at)
                      /\ \/ N.at = N.tree.root
                         \/ Cardinality(b[x]) < Cardinality(bb[N.at])
<1>1. PICK p, s : p = T.parent[x] /\ s = SideOf(T, x)
  OBVIOUS
<1>2. Short(T, L, M, v, b, h, x, p, s)
  BY <1>1, SinkingShort
<1>3. PICK S : S = LiftRed(T, p, s)
  OBVIOUS
<1>4. (\E bb, k : Short(S, L, M, v, bb, k, x, p, s) /\ bb[x] = b[x])
      /\ S.color[S.child[Other(s)][p]] = "BLACK"
  BY <1>2, <1>3, LiftRedDone
<1>5. PICK b1, h1 : Short(S, L, M, v, b1, h1, x, p, s) /\ b1[x] = b[x]
  BY <1>4
<1>6. PICK w : Uncle(S, p, s, w)
  BY DEF Uncle
<1>7. w = S.child[Other(s)][p] /\ S.color[w] = "BLACK"
  BY <1>4, <1>6 DEF Uncle
<1>8. CASE \A t \in Sides : S.color[S.child[t][w]] = "BLACK"
  <2>1. PICK C : C = Dye(S, w, "RED")
    OBVIOUS
  <2>2. \E k : Sinking(C, L, M, v, b1, k, p) /\ Cardinality(b1[x]) < Cardinality(b1[p])
    BY <1>5, <1>6, <1>7, <1>8, <2>1, DeleteRecolours
  <2>3. N = [tree |-> [S EXCEPT !.color[w] = "RED"], at |-> p]
    BY <1>1, <1>3, <1>7, <1>8, Zenon DEF DeleteTurn
  <2>4. N.tree = C /\ N.at = p
    BY <2>1, <2>3 DEF Dye
  <2> QED
    BY <1>5, <2>2, <2>4
<1>9. CASE ~\A t \in Sides : S.color[S.child[t][w]] = "BLACK"
  <2>1. PICK Q, R : Q = LiftNear(S, p, s) /\ R = LiftFar(Q, p, s)
    OBVIOUS
  <2>2. PICK y, f, b2, h2 : /\ Short(Q, L, M, v, b2, h2, x, p, s) /\ Uncle(Q, p, s, y)
                            /\ Q.color[y] = "BLACK" /\ Uncle(Q, y, s, f) /\ Q.color[f] = "RED"
    BY <1>5, <1>6, <1>7, <1>9, <2>1, LiftNearDone, SMTT(30)
  <2>3. PICK b3, h3 : Balanced(R, L, M, v, b3, h3)
    BY <2>1, <2>2, LiftFarDone
  <2>4. Sinking(R, L, M, v, b3, h3, R.root)
    BY <2>3, BalancedSinks
  <2>5. N = [tree |-> R, at |-> R.root]
    BY <1>1, <1>3, <1>7, <1>9, <2>1, Zenon DEF DeleteTurn
  <2>6. N.tree = R /\ N.at = R.root
    BY <2>5
  <2> QED
    BY <2>4, <2>6
<1> QED
  BY <1>8, <1>9

(* The last line of rbtree_delete_fixup. *)
LEMMA DeletePaints ==
    ASSUME NEW T, NEW L, NEW M, NEW v, NEW b, NEW h, NEW x, Sinking(T, L, M, v, b, h, x),
           x = T.root \/ T.color[x] # "BLACK"
    PROVE  \E k : Balanced(Dye(T, x, "BLACK"), L, M, v, b, k)
<1>1. Tied(T, L, b) /\ Rest(T, L, M, v) /\ x \in L \cup {NIL} /\ T.color[NIL] = "BLACK"
  BY DEF Sinking, Rest
<1>2. /\ T \in Trees /\ L \in SUBSET TreeKeys /\ L \subseteq TreeNodes /\ NIL \in TreeNodes
      /\ NIL \notin L /\ x \in TreeNodes
  BY <1>1, TreeAssumption DEF Tied, TreeNodes
<1>3. PICK C : C = Dye(T, x, "BLACK")
  OBVIOUS
<1>4. /\ Painted(T, C) /\ C.color[x] = "BLACK"
      /\ \A q \in TreeNodes \ {x} : C.color[q] = T.color[q]
  BY <1>2, <1>3, Paint
<1>5. C.child = T.child /\ C.root = T.root /\ C.value = T.value
  BY <1>4 DEF Painted
<1>6. Tied(C, L, b)
  BY <1>1, <1>4, PaintTied
<1>7. C.color[NIL] = "BLACK"
  BY <1>1, <1>2, <1>4
<1>8. Rest(C, L, M, v)
  BY <1>1, <1>5, <1>7 DEF Rest
<1>9. ASSUME NEW n \in L, C.color[n] = "RED", NEW t \in Sides PROVE C.color[C.child[t][n]] = "BLACK"
  <2>1. T.child[t][n] \in TreeNodes /\ C.child[t][n] = T.child[t][n]
    BY <1>1, <1>2, <1>5, Own
  <2>2. n # x /\ T.color[n] = "RED"
    BY <1>2, <1>4, <1>9
  <2>3. T.child[t][n] # x => T.color[T.child[t][n]] = "BLACK"
    BY <2>2 DEF Sinking
  <2> QED
    BY <1>4, <2>1, <2>3
<1>10. C.color[C.root] = "BLACK"
  <2>1. T.root \in TreeNodes
    BY <1>2 DEF Trees
  <2> QED
    BY <1>4, <1>5, <2>1 DEF Sinking
<1>11. CASE x = T.root /\ Even(T, L, h, NIL, "left")
  <2>1. CASE x = NIL
    <3>1. \A n \in L : Weight(C, n) = Weight(T, n)
      BY <1>2, <1>4, <2>1 DEF Weight
    <3>2. Even(C, L, h, NIL, "left")
      BY <1>5, <1>11, <3>1 DEF Even
    <3> QED
      BY <1>3, <1>6, <1>8, <1>9, <1>10, <3>2 DEF Balanced
  <2>2. CASE x # NIL
    <3>1. T.root \in L /\ C = Dye(T, T.root, "BLACK")
      BY <1>1, <1>3, <1>11, <2>2
    <3>2. PICK k : Even(C, L, k, NIL, "left")
      BY <1>1, <1>11, <3>1, RootPainted
    <3> QED
      BY <1>3, <1>6, <1>8, <1>9, <1>10, <3>2 DEF Balanced
  <2> QED
    BY <2>1, <2>2
<1>12. CASE ~(x = T.root /\ Even(T, L, h, NIL, "left"))
  <2>1. PICK p \in L, s \in Sides : T.child[s][p] = x /\ Even(T, L, h, p, s)
    BY <1>12 DEF Sinking
  <2>2. x # T.root
    <3> SUFFICES ASSUME x = T.root PROVE FALSE
      OBVIOUS
    <3>1. x = NIL
      BY <1>1, <2>1, NotTheRoot
    <3>2. b[T.root] = L /\ b[NIL] = {}
      BY <1>1 DEF Tied
    <3> QED
      BY <2>1, <3>1, <3>2
  <2>3. T.color[x] = "RED" /\ x \in L /\ x # NIL
    BY <1>1, <1>2, <2>2 DEF Trees
  <2> DEFINE k == [n \in TreeNodes |-> IF n = x THEN h[n] + 1 ELSE h[n]]
  <2>4. h \in [TreeNodes -> Nat] /\ h[NIL] = 0
    BY <2>1 DEF Even
  <2>5. k \in [TreeNodes -> Nat] /\ k[NIL] = 0 /\ k[x] = h[x] + 1 /\ \A n \in TreeNodes \ {x} : k[n] = h[n]
    BY <1>2, <2>3, <2>4
  <2>6. ASSUME NEW n \in L, NEW t \in Sides
        PROVE  k[n] = k[C.child[t][n]] + Weight(C, n) /\ C.child[t][n] \in TreeNodes
    <3> DEFINE c == T.child[t][n]
    <3>1. /\ h[n] = h[c] + Weight(T, n) + Owed(n, t, p, s) /\ h[n] \in Nat /\ h[c] \in Nat
          /\ Weight(T, n) \in Nat
      BY <1>1, <2>1, EvenAt
    <3>2. C.child[t][n] = c /\ c \in TreeNodes /\ c # n
      BY <1>1, <1>2, <1>5, Own
    <3>3. c = x <=> n = p /\ t = s
      <4>1. c = x => n = p /\ t = s
        <5> SUFFICES ASSUME c = x PROVE n = p /\ t = s
          OBVIOUS
        <5> QED
          BY <1>1, <2>1, <2>3, OneParent
      <4> QED
        BY <2>1, <4>1
    <3> HIDE DEF c, k
    <3>4. CASE n = x
      <4>1. Owed(n, t, p, s) = 0 /\ c # x
        BY <3>2, <3>3, <3>4 DEF Owed
      <4>2. Weight(T, x) = 0 /\ Weight(C, x) = 1
        BY <1>4, <2>3 DEF Weight
      <4>3. k[c] = h[c]
        BY <2>5, <3>2, <4>1
      <4> QED
        BY <2>5, <3>1, <3>2, <3>4, <4>1, <4>2, <4>3
    <3>5. CASE n # x
      <4>1. Weight(C, n) = Weight(T, n) /\ k[n] = h[n]
        BY <1>2, <1>4, <2>5, <3>5 DEF Weight
      <4>2. CASE c = x
        <5>1. Owed(n, t, p, s) = 1 /\ k[c] = h[c] + 1
          BY <2>5, <3>3, <4>2 DEF Owed
        <5> QED
          BY <3>1, <3>2, <4>1, <5>1
      <4>3. CASE c # x
        <5>1. Owed(n, t, p, s) = 0 /\ k[c] = h[c]
          BY <2>5, <3>2, <3>3, <4>3 DEF Owed
        <5> QED
          BY <3>1, <3>2, <4>1, <5>1
      <4> QED
        BY <4>2, <4>3
    <3> QED
      BY <3>4, <3>5
  <2>7. Even(C, L, k, NIL, "left")
    <3> HIDE DEF k
    <3> QED
      BY <1>2, <2>5, <2>6, LevelEven
  <2> HIDE DEF k
  <2> QED
    BY <1>3, <1>6, <1>8, <1>9, <1>10, <2>7 DEF Balanced
<1> QED
  BY <1>11, <1>12

DeleteStep(u) == IF DeleteGoesOn(u) THEN DeleteTurn(u.tree, u.at) ELSE u
DeleteRuns(N, a, f) == f = [i \in 0..N |-> IF i = 0 THEN a ELSE DeleteStep(f[i - 1])]

LEMMA DeleteIterates ==
    ASSUME NEW N \in Nat, NEW a
    PROVE  \E f : DeleteRuns(N, a, f)
<1> DEFINE Bad == {n \in 0..N : ~\E f : DeleteRuns(n, a, f)}
<1>1. SUFFICES ASSUME Bad # {} PROVE FALSE
  OBVIOUS
<1>2. PICK n \in Bad : \A m \in Bad : n <= m
  <2>1. Bad \in SUBSET Nat /\ Bad # {}
    BY <1>1
  <2> HIDE DEF Bad
  <2> QED
    BY <2>1, LeastExists
<1>3. n \in 0..N
  OBVIOUS
<1>4. CASE n = 0
  <2>1. DeleteRuns(0, a, [i \in 0..0 |-> a])
    BY DEF DeleteRuns
  <2> QED
    BY <1>4, <2>1
<1>5. CASE n # 0
  <2>1. n - 1 \in 0..N /\ ~(n <= n - 1)
    BY <1>3, <1>5
  <2>2. PICK f : DeleteRuns(n - 1, a, f)
    BY <1>2, <2>1
  <2> DEFINE e == [i \in 0..n |-> IF i = 0 THEN a ELSE DeleteStep(f[i - 1])]
  <2>3. \A i \in 0..n - 1 : e[i] = f[i]
    BY <1>3, <1>5, <2>2 DEF DeleteRuns
  <2>4. \A i \in 0..n : i # 0 => i - 1 \in 0..n - 1
    BY <1>3
  <2>5. DeleteRuns(n, a, e)
    BY <2>3, <2>4 DEF DeleteRuns
  <2> QED
    BY <2>5
<1> QED
  BY <1>4, <1>5

LEMMA FewBelow ==
    ASSUME NEW T, NEW L, NEW b, Tied(T, L, b), NEW m \in L \cup {NIL}
    PROVE  /\ b[m] \subseteq L /\ Cardinality(b[m]) \in Nat
           /\ L # TreeKeys => Cardinality(b[m]) < Cardinality(TreeKeys)
<1>1. b[m] \subseteq L
  <2>1. m = NIL => b[m] = {}
    BY DEF Tied
  <2>2. m \in L => b[m] \subseteq L
    BY Own, Down
  <2> QED
    BY <2>1, <2>2
<1>2. L \in SUBSET TreeKeys
  BY DEF Tied
<1>3. b[m] \in SUBSET TreeKeys
  BY <1>1, <1>2
<1>4. /\ IsFiniteSet(b[m]) /\ Cardinality(b[m]) <= Cardinality(TreeKeys)
      /\ Cardinality(TreeKeys) = Cardinality(b[m]) => TreeKeys = b[m]
  BY <1>3, TreeAssumption, FS_Subset
<1>5. Cardinality(b[m]) \in Nat /\ Cardinality(TreeKeys) \in Nat
  BY <1>4, TreeAssumption, FS_CardinalityType
<1>6. L # TreeKeys => Cardinality(b[m]) # Cardinality(TreeKeys)
  BY <1>1, <1>2, <1>4
<1> QED
  BY <1>1, <1>4, <1>5, <1>6

LEMMA DeleteFixupBalances ==
    ASSUME NEW T, NEW L, NEW M, NEW v, NEW b, NEW h, NEW x, Sinking(T, L, M, v, b, h, x),
           L # TreeKeys
    PROVE  \E bb, k : Balanced(DeleteFixup(T, x), L, M, v, bb, k)
<1> DEFINE N == Cardinality(TreeKeys)
           a == [tree |-> T, at |-> x]
           after == CHOOSE f : DeleteRuns(N, a, f)
<1>1. N \in Nat
  BY TreeAssumption, FS_CardinalityType
<1>2. DeleteRuns(N, a, after)
  <2> HIDE DEF N, a
  <2> QED
    BY <1>1, DeleteIterates
<1>3. DeleteFixup(T, x) = Dye(after[N].tree, after[N].at, "BLACK")
  BY DEF DeleteFixup, Dye, DeleteStep, DeleteRuns
<1> HIDE DEF after
<1>4. after[0] = a /\ \A i \in 0..N : i # 0 => after[i] = DeleteStep(after[i - 1])
  <2> HIDE DEF a, N
  <2> QED
    BY <1>1, <1>2 DEF DeleteRuns
<1> HIDE DEF N
<1> DEFINE I(i) == \E bb, k : /\ Sinking(after[i].tree, L, M, v, bb, k, after[i].at)
                              /\ ~DeleteGoesOn(after[i]) \/ i <= Cardinality(bb[after[i].at])
           Bad == {i \in 0..N : ~I(i)}
<1>5. \A B, l, m, D : Sinking(D, L, M, v, B, l, m) =>
          Cardinality(B[m]) \in Nat /\ Cardinality(B[m]) < N
  <2> SUFFICES ASSUME NEW B, NEW l, NEW m, NEW D, Sinking(D, L, M, v, B, l, m)
               PROVE  Cardinality(B[m]) \in Nat /\ Cardinality(B[m]) < N
    OBVIOUS
  <2>1. Tied(D, L, B) /\ m \in L \cup {NIL}
    BY DEF Sinking
  <2> QED
    BY <2>1, FewBelow DEF N
<1>6. Bad = {}
  <2> SUFFICES ASSUME Bad # {} PROVE FALSE
    OBVIOUS
  <2>1. PICK i \in Bad : \A j \in Bad : i <= j
    <3>1. Bad \in SUBSET Nat /\ Bad # {}
      OBVIOUS
    <3> HIDE DEF Bad
    <3> QED
      BY <3>1, LeastExists
  <2>2. CASE i = 0
    <3>1. after[0].tree = T /\ after[0].at = x
      BY <1>4
    <3>2. 0 <= Cardinality(b[x])
      BY <1>5
    <3>3. I(0)
      BY <3>1, <3>2
    <3> QED
      BY <2>2, <3>3
  <2>3. CASE i # 0
    <3>1. i - 1 \in 0..N /\ ~(i <= i - 1) /\ i \in 0..N
      BY <2>3, <1>1
    <3>2. I(i - 1)
      BY <2>1, <3>1
    <3>3. PICK u : u = after[i - 1]
      OBVIOUS
    <3>4. PICK j : j = i - 1
      OBVIOUS
    <3>5. PICK bb, k : /\ Sinking(u.tree, L, M, v, bb, k, u.at)
                       /\ ~DeleteGoesOn(u) \/ j <= Cardinality(bb[u.at])
      BY <3>2, <3>3, <3>4
    <3>6. after[i] = DeleteStep(u)
      BY <1>4, <2>3, <3>1, <3>3
    <3>7. CASE DeleteGoesOn(u)
      <4>1. u.at # u.tree.root /\ u.tree.color[u.at] = "BLACK"
        BY <3>7 DEF DeleteGoesOn
      <4>2. j <= Cardinality(bb[u.at])
        BY <3>5, <3>7
      <4>3. after[i] = DeleteTurn(u.tree, u.at)
        BY <3>6, <3>7 DEF DeleteStep
      <4>4. PICK b2, k2 : /\ Sinking(after[i].tree, L, M, v, b2, k2, after[i].at)
                          /\ \/ after[i].at = after[i].tree.root
                             \/ Cardinality(bb[u.at]) < Cardinality(b2[after[i].at])
        BY <3>5, <4>1, <4>3, DeleteTurnSinks
      <4>5. ASSUME Cardinality(bb[u.at]) < Cardinality(b2[after[i].at])
            PROVE  i <= Cardinality(b2[after[i].at])
        <5>1. Cardinality(bb[u.at]) \in Nat /\ Cardinality(b2[after[i].at]) \in Nat
          BY <1>5, <3>5, <4>4
        <5> QED
          BY <3>1, <3>4, <4>2, <4>5, <5>1
      <4>6. I(i)
        BY <4>4, <4>5 DEF DeleteGoesOn
      <4> QED
        BY <4>6
    <3>8. CASE ~DeleteGoesOn(u)
      <4>1. after[i] = u
        BY <3>6, <3>8 DEF DeleteStep
      <4>2. I(i)
        BY <3>5, <3>8, <4>1
      <4> QED
        BY <4>2
    <3> QED
      BY <3>7, <3>8
  <2> QED
    BY <2>2, <2>3
<1>7. I(N)
  BY <1>1, <1>6
<1>8. PICK u : u = after[N]
  OBVIOUS
<1>9. PICK bb, k : /\ Sinking(u.tree, L, M, v, bb, k, u.at)
                   /\ ~DeleteGoesOn(u) \/ N <= Cardinality(bb[u.at])
  BY <1>7, <1>8
<1>10. u.at = u.tree.root \/ u.tree.color[u.at] # "BLACK"
  <2>1. Cardinality(bb[u.at]) \in Nat /\ Cardinality(bb[u.at]) < N
    BY <1>5, <1>9
  <2>2. ~DeleteGoesOn(u)
    BY <1>1, <1>9, <2>1
  <2> QED
    BY <2>2 DEF DeleteGoesOn
<1>11. \E kk : Balanced(Dye(u.tree, u.at, "BLACK"), L, M, v, bb, kk)
  BY <1>9, <1>10, DeletePaints
<1> QED
  BY <1>3, <1>8, <1>11

-----------------------------------------------------------------------------
(* The walks down the tree. *)

Walks(N, next, f) == f = [n \in N |-> IF next[n] = n THEN n ELSE f[next[n]]]

(* A walk that stops where it stands is well defined: it ends in the one     *)
(* such place that is reached.                                               *)
LEMMA WalkExists ==
    ASSUME NEW N, NEW next, \A n \in N : next[n] \in N
    PROVE  \E f : Walks(N, next, f)
<1> DEFINE Closed(S) == S \in SUBSET N /\ \A m \in S : next[m] \in S
           Reach(n) == {m \in N : \A S \in SUBSET N : Closed(S) /\ n \in S => m \in S}
           Ends(n) == {m \in Reach(n) : next[m] = m}
           End(n) == CHOOSE m : m \in Ends(n)
           f == [n \in N |-> End(n)]
<1>1. ASSUME NEW n \in N, next[n] = n PROVE f[n] = n
  <2>1. n \in Ends(n)
    BY <1>1
  <2>2. Closed({n})
    BY <1>1
  <2>3. \A m \in Ends(n) : m = n
    BY <2>2
  <2> HIDE DEF Ends
  <2> QED
    BY <2>1, <2>3
<1>2. ASSUME NEW n \in N, next[n] # n PROVE f[n] = f[next[n]]
  <2>1. ASSUME NEW m \in N, m # n PROVE m \in Reach(n) <=> m \in Reach(next[n])
    <3>1. ASSUME m \in Reach(next[n]) PROVE m \in Reach(n)
      <4> SUFFICES ASSUME NEW S \in SUBSET N, Closed(S), n \in S PROVE m \in S
        OBVIOUS
      <4>1. next[n] \in S
        OBVIOUS
      <4> QED
        BY <3>1, <4>1
    <3>2. ASSUME m \in Reach(n) PROVE m \in Reach(next[n])
      <4> SUFFICES ASSUME NEW S \in SUBSET N, Closed(S), next[n] \in S PROVE m \in S
        OBVIOUS
      <4>1. Closed(S \cup {n}) /\ n \in S \cup {n}
        OBVIOUS
      <4> QED
        BY <2>1, <3>2, <4>1
    <3> QED
      BY <3>1, <3>2
  <2>2. n \notin Ends(n) /\ n \notin Ends(next[n])
    BY <1>2
  <2>3. \A m : m \in Ends(n) <=> m \in Ends(next[n])
    <3>1. \A m : m \in Ends(n) => m \in N /\ m \in Reach(n) /\ next[m] = m
      OBVIOUS
    <3>2. \A m : m \in Ends(next[n]) => m \in N /\ m \in Reach(next[n]) /\ next[m] = m
      OBVIOUS
    <3>3. \A m : m \in Reach(n) /\ next[m] = m => m \in Ends(n)
      OBVIOUS
    <3>4. \A m : m \in Reach(next[n]) /\ next[m] = m => m \in Ends(next[n])
      OBVIOUS
    <3> HIDE DEF Ends, Reach
    <3> QED
      BY <2>1, <2>2, <3>1, <3>2, <3>3, <3>4
  <2>4. Ends(n) = Ends(next[n])
    <3> HIDE DEF Ends
    <3> QED
      BY <2>3
  <2> HIDE DEF Ends
  <2> QED
    BY <2>4
<1>3. Walks(N, next, f)
  <2>1. \A n \in N : f[n] = IF next[n] = n THEN n ELSE f[next[n]]
    <3> HIDE DEF f
    <3> QED
      BY <1>1, <1>2
  <2>2. f = [n \in N |-> f[n]]
    <3> HIDE DEF End
    <3> QED
      OBVIOUS
  <2> HIDE DEF f
  <2> QED
    BY <2>1, <2>2 DEF Walks
<1> QED
  BY <1>3

LEMMA ChildNodes ==
    ASSUME NEW T, NEW L, NEW b, Tied(T, L, b), NEW v, Rest(T, L, L, v),
           NEW n \in TreeKeys, NEW t \in Sides
    PROVE  T.child[t][n] \in L \cup {NIL} /\ T.child[t][n] \in TreeNodes
<1>1. T.child[t][n] \in L \cup {NIL}
  BY DEF Tied, Rest
<1>2. L \in SUBSET TreeKeys
  BY DEF Tied
<1> QED
  BY <1>1, <1>2 DEF TreeNodes

LEMMA SearchFinds ==
    ASSUME NEW T, NEW L, NEW b, Tied(T, L, b), NEW v, Rest(T, L, L, v), NEW k \in TreeKeys
    PROVE  rbtree_search(T, k) = IF k \in L THEN k ELSE NIL
<1> DEFINE Runs(f) == f = [n \in TreeNodes |->
                             IF n \in {NIL, k} THEN n ELSE f[T.child[SideFor(k, n)][n]]]
           from == CHOOSE f : Runs(f)
           next == [n \in TreeNodes |-> IF n \in {NIL, k} THEN n ELSE T.child[SideFor(k, n)][n]]
<1>1. \A n : SideFor(k, n) \in Sides
  BY DEF SideFor, Sides
<1>2. \A n \in TreeNodes : next[n] \in TreeNodes
  BY <1>1, ChildNodes DEF TreeNodes
<1>3. PICK f : Walks(TreeNodes, next, f)
  <2> HIDE DEF next
  <2> QED
    BY <1>2, WalkExists
<1>4. \A n \in TreeNodes : f[n] = IF n \in {NIL, k} THEN n ELSE f[T.child[SideFor(k, n)][n]]
  <2> SUFFICES ASSUME NEW n \in TreeNodes
               PROVE  f[n] = IF n \in {NIL, k} THEN n ELSE f[T.child[SideFor(k, n)][n]]
    OBVIOUS
  <2>1. f[n] = IF next[n] = n THEN n ELSE f[next[n]]
    <3> HIDE DEF next
    <3> QED
      BY <1>3 DEF Walks
  <2>2. next[n] = IF n \in {NIL, k} THEN n ELSE T.child[SideFor(k, n)][n]
    OBVIOUS
  <2> HIDE DEF next
  <2>3. CASE n \in {NIL, k}
    BY <2>1, <2>2, <2>3
  <2>4. CASE n \notin {NIL, k}
    BY <2>1, <2>2, <2>4
  <2> QED
    BY <2>3, <2>4
<1>5. Runs(f)
  <2>1. f = [n \in TreeNodes |-> f[n]]
    BY <1>3 DEF Walks
  <2> HIDE DEF next
  <2> QED
    BY <1>4, <2>1
<1>6. Runs(from)
  <2> HIDE DEF Runs
  <2> QED
    BY <1>5
<1>7. rbtree_search(T, k) = from[T.root]
  BY DEF rbtree_search
<1> HIDE DEF from, next
<1>8. \A n \in TreeNodes : from[n] = IF n \in {NIL, k} THEN n ELSE from[T.child[SideFor(k, n)][n]]
  BY <1>6, Zenon
<1> HIDE DEF Runs
<1>9. from[NIL] = NIL
  BY <1>8 DEF TreeNodes
<1> DEFINE Bad == {n \in L : ~(from[n] = IF k \in b[n] THEN k ELSE NIL)}
<1>10. Bad = {}
  <2> SUFFICES ASSUME Bad # {} PROVE FALSE
    OBVIOUS
  <2>1. PICK n \in Bad : \A s \in Sides : T.child[s][n] \notin Bad
    <3>1. Bad \in SUBSET L
      OBVIOUS
    <3> HIDE DEF Bad
    <3> QED
      BY <3>1, Lowest
  <2>2. n \in L /\ n \in TreeNodes /\ n # NIL
    BY Own DEF Tied, TreeNodes
  <2>3. CASE n = k
    BY <1>8, <2>2, <2>3, Own
  <2>4. CASE n # k
    <3> DEFINE s == SideFor(k, n)
               c == T.child[s][n]
    <3>1. from[n] = from[c]
      BY <1>8, <2>2, <2>4
    <3>2. c \in L \cup {NIL}
      BY <1>1, <2>2, Own
    <3>3. k \in b[n] <=> k \in b[c]
      <4>1. \A t \in Sides : k \in b[T.child[t][n]] => t = s
        <5>1. \A t \in Sides : \A m \in b[T.child[t][n]] : Before(t, m, n)
          BY <2>2, Own
        <5>2. k \in Int /\ n \in Int
          BY <2>2, TreeAssumption, Own
        <5> QED
          BY <5>1, <5>2 DEF Before, SideFor, Sides
      <4>2. b[n] = {n} \cup b[T.child["left"][n]] \cup b[T.child["right"][n]]
        BY <2>2, Own
      <4>3. s = "left" \/ s = "right"
        BY DEF SideFor
      <4> QED
        BY <2>4, <4>1, <4>2, <4>3 DEF Sides
    <3>4. from[c] = IF k \in b[c] THEN k ELSE NIL
      <4>1. CASE c = NIL
        <5>1. b[NIL] = {}
          BY DEF Tied
        <5> QED
          BY <1>9, <4>1, <5>1
      <4>2. CASE c # NIL
        <5>1. c \in L /\ c \notin Bad
          BY <1>1, <2>1, <3>2, <4>2
        <5> QED
          BY <5>1
      <4> QED
        BY <4>1, <4>2
    <3> QED
      BY <3>1, <3>3, <3>4
  <2> QED
    BY <2>3, <2>4
<1>11. T.root \in L \cup {NIL} /\ b[T.root] = L /\ b[NIL] = {}
  BY DEF Tied
<1> QED
  BY <1>7, <1>9, <1>10, <1>11

(* What hangs on one side of a node does not hang on the other. *)
LEMMA OneSide ==
    ASSUME NEW T, NEW L, NEW b, Tied(T, L, b), NEW n \in L, NEW s \in Sides, NEW t \in Sides,
           NEW m, m \in b[T.child[s][n]], m \in b[T.child[t][n]]
    PROVE  s = t
<1>1. Before(s, m, n) /\ Before(t, m, n)
  BY Own
<1>2. b[T.child[s][n]] \subseteq b[n] /\ b[n] \in SUBSET TreeKeys /\ n \in Int
  BY Own
<1>3. m \in Int
  BY <1>2, TreeAssumption
<1> QED
  BY <1>1, <1>2, <1>3 DEF Before, Sides

(* The way down ends at a leaf place of the side where k belongs. *)
LEMMA AboveFinds ==
    ASSUME NEW T, NEW L, NEW b, Tied(T, L, b), NEW v, Rest(T, L, L, v),
           NEW k \in TreeKeys \ L, T.root # NIL
    PROVE  LET y == Above(T, k)
           IN  /\ y \in L /\ T.child[SideFor(k, y)][y] = NIL
               /\ \A n \in L : y \in b[n] => n = y \/ y \in b[T.child[SideFor(k, n)][n]]
<1> DEFINE c(n) == T.child[SideFor(k, n)][n]
           Runs(f) == f = [n \in TreeKeys |-> IF c(n) = NIL THEN n ELSE f[c(n)]]
           from == CHOOSE f : Runs(f)
           next == [n \in TreeKeys |-> IF c(n) = NIL THEN n ELSE c(n)]
<1>1. \A n : SideFor(k, n) \in Sides
  BY DEF SideFor, Sides
<1>2. \A n \in TreeKeys : c(n) \in L \cup {NIL}
  BY <1>1, ChildNodes
<1>3. L \in SUBSET TreeKeys
  BY DEF Tied
<1>4. Above(T, k) = from[T.root]
  BY DEF Above
<1> HIDE DEF c
<1>5. \A n \in TreeKeys : next[n] \in TreeKeys
  BY <1>2, <1>3
<1>6. PICK f : Walks(TreeKeys, next, f)
  <2> HIDE DEF next
  <2> QED
    BY <1>5, WalkExists
<1>7. \A n \in TreeKeys : f[n] = IF c(n) = NIL THEN n ELSE f[c(n)]
  <2> SUFFICES ASSUME NEW n \in TreeKeys PROVE f[n] = IF c(n) = NIL THEN n ELSE f[c(n)]
    OBVIOUS
  <2>1. f[n] = IF next[n] = n THEN n ELSE f[next[n]]
    <3> HIDE DEF next
    <3> QED
      BY <1>6 DEF Walks
  <2>2. next[n] = IF c(n) = NIL THEN n ELSE c(n)
    OBVIOUS
  <2> HIDE DEF next
  <2> QED
    BY <2>1, <2>2
<1>8. Runs(f)
  <2>1. f = [n \in TreeKeys |-> f[n]]
    BY <1>6 DEF Walks
  <2> HIDE DEF next
  <2> QED
    BY <1>7, <2>1
<1>9. Runs(from)
  <2> HIDE DEF Runs
  <2> QED
    BY <1>8
<1> HIDE DEF from, next
<1>10. \A n \in TreeKeys : from[n] = IF c(n) = NIL THEN n ELSE from[c(n)]
  BY <1>9
<1> HIDE DEF Runs
<1> DEFINE Right(n) == /\ from[n] \in b[n] /\ c(from[n]) = NIL
                       /\ \A q \in b[n] : from[n] \in b[q] => q = from[n] \/ from[n] \in b[c(q)]
           Bad == {n \in L : ~Right(n)}
<1>11. Bad = {}
  <2> SUFFICES ASSUME Bad # {} PROVE FALSE
    OBVIOUS
  <2>1. PICK n \in Bad : \A s \in Sides : T.child[s][n] \notin Bad
    <3>1. Bad \in SUBSET L
      OBVIOUS
    <3> HIDE DEF Bad
    <3> QED
      BY <3>1, Lowest
  <2>2. n \in L /\ n \in TreeKeys /\ n \in b[n]
    BY <1>3, Own
  <2>3. b[n] = {n} \cup b[T.child["left"][n]] \cup b[T.child["right"][n]]
    BY <2>2, Own
  <2>4. ASSUME NEW q \in b[n], q # n
        PROVE  /\ q \in L
               /\ \E t \in Sides : q \in b[T.child[t][n]] /\ b[q] \subseteq b[T.child[t][n]]
    <3>1. PICK t \in Sides : q \in b[T.child[t][n]]
      BY <2>3, <2>4 DEF Sides
    <3>2. T.child[t][n] \in L
      BY <2>2, <3>1, Own
    <3> QED
      BY <3>1, <3>2, Down
  <2>5. CASE c(n) = NIL
    <3>1. from[n] = n
      BY <1>10, <2>2, <2>5
    <3>2. \A q \in b[n] : n \in b[q] => q = n
      BY <2>2, <2>4, Own
    <3> QED
      BY <2>2, <2>5, <3>1, <3>2
  <2>6. CASE c(n) # NIL
    <3>1. from[n] = from[c(n)] /\ c(n) \in L
      BY <1>2, <1>10, <2>2, <2>6
    <3>2. Right(c(n))
      BY <1>1, <2>1, <3>1 DEF c
    <3>3. b[c(n)] \subseteq b[n]
      BY <1>1, <2>2, Own DEF c
    <3>4. ASSUME NEW q \in b[n], from[n] \in b[q] PROVE q = from[n] \/ from[n] \in b[c(q)]
      <4>1. CASE q = n
        BY <3>1, <3>2, <4>1
      <4>2. CASE q # n
        <5>1. PICK t \in Sides : q \in b[T.child[t][n]] /\ b[q] \subseteq b[T.child[t][n]]
          BY <2>4, <4>2
        <5>2. from[n] \in b[T.child[t][n]] /\ from[n] \in b[T.child[SideFor(k, n)][n]]
          BY <3>1, <3>2, <3>4, <5>1 DEF c
        <5>3. t = SideFor(k, n)
          BY <1>1, <2>2, <5>2, OneSide
        <5>4. q \in b[c(n)]
          BY <5>1, <5>3 DEF c
        <5> QED
          BY <3>1, <3>2, <3>4, <5>4
      <4> QED
        BY <4>1, <4>2
    <3>5. Right(n)
      BY <3>1, <3>2, <3>3, <3>4
    <3> QED
      BY <3>5
  <2> QED
    BY <2>5, <2>6
<1>12. T.root \in L /\ b[T.root] = L
  BY DEF Tied
<1>13. Right(T.root)
  BY <1>11, <1>12
<1> HIDE DEF Bad
<1>14. \A n \in L : n \in b[T.root]
  BY <1>12
<1> QED
  BY <1>4, <1>12, <1>13, <1>14 DEF c

(* rbtree_mini is the least key of the subtree. *)
LEMMA MiniFinds ==
    ASSUME NEW T, NEW L, NEW b, Tied(T, L, b), NEW v, Rest(T, L, L, v), NEW x \in L
    PROVE  LET y == rbtree_mini(T, x)
           IN  /\ y \in b[x] /\ y \in L /\ T.child["left"][y] = NIL
               /\ \A m \in b[x] : m = y \/ m > y
<1> DEFINE c(n) == T.child["left"][n]
           Runs(f) == f = [n \in TreeKeys |-> IF c(n) = NIL THEN n ELSE f[c(n)]]
           from == CHOOSE f : Runs(f)
           next == [n \in TreeKeys |-> IF c(n) = NIL THEN n ELSE c(n)]
<1>1. "left" \in Sides /\ "right" \in Sides
  BY DEF Sides
<1>2. \A n \in TreeKeys : c(n) \in L \cup {NIL}
  BY <1>1, ChildNodes
<1>3. L \in SUBSET TreeKeys
  BY DEF Tied
<1>4. rbtree_mini(T, x) = from[x]
  BY DEF rbtree_mini
<1> HIDE DEF c
<1>5. \A n \in TreeKeys : next[n] \in TreeKeys
  BY <1>2, <1>3
<1>6. PICK f : Walks(TreeKeys, next, f)
  <2> HIDE DEF next
  <2> QED
    BY <1>5, WalkExists
<1>7. \A n \in TreeKeys : f[n] = IF c(n) = NIL THEN n ELSE f[c(n)]
  <2> SUFFICES ASSUME NEW n \in TreeKeys PROVE f[n] = IF c(n) = NIL THEN n ELSE f[c(n)]
    OBVIOUS
  <2>1. f[n] = IF next[n] = n THEN n ELSE f[next[n]]
    <3> HIDE DEF next
    <3> QED
      BY <1>6 DEF Walks
  <2>2. next[n] = IF c(n) = NIL THEN n ELSE c(n)
    OBVIOUS
  <2> HIDE DEF next
  <2> QED
    BY <2>1, <2>2
<1>8. Runs(f)
  <2>1. f = [n \in TreeKeys |-> f[n]]
    BY <1>6 DEF Walks
  <2> HIDE DEF next
  <2> QED
    BY <1>7, <2>1
<1>9. Runs(from)
  <2> HIDE DEF Runs
  <2> QED
    BY <1>8
<1> HIDE DEF from, next
<1>10. \A n \in TreeKeys : from[n] = IF c(n) = NIL THEN n ELSE from[c(n)]
  BY <1>9
<1> HIDE DEF Runs
<1> DEFINE Right(n) == /\ from[n] \in b[n] /\ c(from[n]) = NIL
                       /\ \A m \in b[n] : m = from[n] \/ m > from[n]
           Bad == {n \in L : ~Right(n)}
<1>11. Bad = {}
  <2> SUFFICES ASSUME Bad # {} PROVE FALSE
    OBVIOUS
  <2>1. PICK n \in Bad : \A s \in Sides : T.child[s][n] \notin Bad
    <3>1. Bad \in SUBSET L
      OBVIOUS
    <3> HIDE DEF Bad
    <3> QED
      BY <3>1, Lowest
  <2>2. n \in L /\ n \in TreeKeys /\ n \in b[n] /\ n \in Int /\ b[n] \in SUBSET TreeKeys
    BY <1>3, Own
  <2>3. b[n] = {n} \cup b[c(n)] \cup b[T.child["right"][n]]
    BY <2>2, Own DEF c
  <2>4. \A m \in b[T.child["right"][n]] : m > n
    BY <1>1, <2>2, Own DEF Before
  <2>5. CASE c(n) = NIL
    <3>1. from[n] = n
      BY <1>10, <2>2, <2>5
    <3>2. b[NIL] = {}
      BY DEF Tied
    <3> QED
      BY <2>2, <2>3, <2>4, <2>5, <3>1, <3>2
  <2>6. CASE c(n) # NIL
    <3>1. from[n] = from[c(n)] /\ c(n) \in L
      BY <1>2, <1>10, <2>2, <2>6
    <3>2. Right(c(n))
      BY <1>1, <2>1, <3>1 DEF c
    <3>3. \A m \in b[c(n)] : m < n
      BY <1>1, <2>2, Own DEF Before, c
    <3>4. from[n] \in Int /\ from[n] < n
      BY <2>2, <2>3, <3>1, <3>2, <3>3, TreeAssumption
    <3>5. ASSUME NEW m \in b[n] PROVE m = from[n] \/ m > from[n]
      <4>1. m \in Int
        BY <2>2, TreeAssumption
      <4>2. CASE m \in b[c(n)]
        BY <3>1, <3>2, <4>2
      <4>3. CASE m = n \/ m > n
        BY <2>2, <3>4, <4>1, <4>3
      <4> QED
        BY <2>3, <2>4, <4>2, <4>3
    <3>6. Right(n)
      BY <2>3, <3>1, <3>2, <3>5
    <3> QED
      BY <3>6
  <2> QED
    BY <2>5, <2>6
<1>12. Right(x)
  BY <1>11
<1> HIDE DEF Bad
<1>13. from[x] \in L
  BY <1>12, Down
<1> QED
  BY <1>4, <1>12, <1>13 DEF c

-----------------------------------------------------------------------------
(* rbtree_insert: the new node hangs red from y, and the fixup does the rest. *)

Hung(T, R, k, val, y) ==
    /\ R \in Trees /\ R.root = IF y = NIL THEN k ELSE T.root
    /\ \A t \in Sides : R.child[t][k] = NIL
    /\ \A n \in TreeNodes \ {k} : \A t \in Sides :
         R.child[t][n] = IF n = y /\ y # NIL /\ t = SideFor(k, y) THEN k ELSE T.child[t][n]
    /\ R.parent[k] = y /\ \A n \in TreeNodes \ {k} : R.parent[n] = T.parent[n]
    /\ R.color[k] = "RED" /\ \A n \in TreeNodes \ {k} : R.color[n] = T.color[n]
    /\ R.value = [T.value EXCEPT ![k] = val]

LEMMA InsertHangs ==
    ASSUME NEW T \in Trees, NEW k \in TreeKeys, NEW val \in Values,
           Above(T, k) \in TreeNodes \ {k}
    PROVE  \E R : Hung(T, R, k, val, Above(T, k)) /\ rbtree_insert(T, k, val) = InsertFixup(R, k)
<1>1. PICK y \in TreeNodes \ {k} : y = Above(T, k)
  OBVIOUS
<1>2. SideFor(k, y) \in Sides /\ k \in TreeNodes
  BY DEF SideFor, Sides, TreeNodes
<1> DEFINE hung == IF y = NIL THEN [T EXCEPT !.root = k]
                   ELSE [T EXCEPT !.child[SideFor(k, y)][y] = k]
           R == [hung EXCEPT !.child["left"][k] = NIL, !.child["right"][k] = NIL,
                             !.parent[k] = y, !.color[k] = "RED", !.value[k] = val]
<1>3. rbtree_insert(T, k, val) = InsertFixup(R, k)
  BY <1>1, Zenon DEF rbtree_insert
<1>4. /\ hung \in Trees /\ hung.root = IF y = NIL THEN k ELSE T.root
      /\ hung.parent = T.parent /\ hung.color = T.color /\ hung.value = T.value
      /\ \A n \in TreeNodes \ {k} : \A t \in Sides :
           hung.child[t][n] = IF n = y /\ y # NIL /\ t = SideFor(k, y) THEN k ELSE T.child[t][n]
  <2>1. CASE y = NIL
    BY <1>2, <2>1 DEF Trees
  <2>2. CASE y # NIL
    <3> PICK s \in Sides : s = SideFor(k, y)
      BY <1>2
    <3>1. hung = [T EXCEPT !.child[s][y] = k]
      BY <2>2
    <3> HIDE DEF hung
    <3> QED
      BY <1>2, <2>2, <3>1 DEF Trees
  <2> QED
    BY <2>1, <2>2
<1>5. PICK H : H = hung
  OBVIOUS
<1>6. R = [H EXCEPT !.child["left"][k] = NIL, !.child["right"][k] = NIL,
                    !.parent[k] = y, !.color[k] = "RED", !.value[k] = val]
  BY <1>5
<1>7. /\ H \in Trees /\ H.root = IF y = NIL THEN k ELSE T.root
      /\ H.parent = T.parent /\ H.color = T.color /\ H.value = T.value
      /\ \A n \in TreeNodes \ {k} : \A t \in Sides :
           H.child[t][n] = IF n = y /\ y # NIL /\ t = SideFor(k, y) THEN k ELSE T.child[t][n]
  BY <1>4, <1>5
<1>8. PICK S : S = R
  OBVIOUS
<1> HIDE DEF hung, R
<1>9. /\ S \in Trees /\ S.root = H.root
      /\ \A t \in Sides : S.child[t][k] = NIL
      /\ \A n \in TreeNodes \ {k} : \A t \in Sides : S.child[t][n] = H.child[t][n]
      /\ S.parent[k] = y /\ \A n \in TreeNodes \ {k} : S.parent[n] = H.parent[n]
      /\ S.color[k] = "RED" /\ \A n \in TreeNodes \ {k} : S.color[n] = H.color[n]
      /\ S.value = [H.value EXCEPT ![k] = val]
  <2>1. NIL \in TreeNodes
    BY DEF TreeNodes
  <2>2. S.root = H.root /\ S.value = [H.value EXCEPT ![k] = val]
    BY <1>6, <1>7, <1>8 DEF Trees
  <2>3. S.child = [H.child EXCEPT !["left"][k] = NIL, !["right"][k] = NIL]
    BY <1>6, <1>7, <1>8 DEF Trees
  <2>4. S.parent = [H.parent EXCEPT ![k] = y] /\ S.color = [H.color EXCEPT ![k] = "RED"]
    BY <1>6, <1>7, <1>8 DEF Trees
  <2>5. S \in Trees
    BY <1>2, <1>6, <1>7, <1>8, <2>1 DEF Trees, Sides
  <2>6. /\ \A t \in Sides : S.child[t][k] = NIL
        /\ \A n \in TreeNodes \ {k} : \A t \in Sides : S.child[t][n] = H.child[t][n]
    BY <1>2, <1>7, <2>3 DEF Trees, Sides
  <2>7. /\ S.parent[k] = y /\ \A n \in TreeNodes \ {k} : S.parent[n] = H.parent[n]
        /\ S.color[k] = "RED" /\ \A n \in TreeNodes \ {k} : S.color[n] = H.color[n]
    BY <1>2, <1>7, <2>4 DEF Trees
  <2> QED
    BY <2>2, <2>5, <2>6, <2>7
<1>10. Hung(T, S, k, val, y)
  BY <1>7, <1>9 DEF Hung
<1> QED
  BY <1>1, <1>3, <1>8, <1>10

(* Where k may hang in a search tree. *)
Place(T, L, b, k, y) ==
    IF T.root = NIL THEN y = NIL
    ELSE /\ y \in L /\ T.child[SideFor(k, y)][y] = NIL
         /\ \A n \in L : y \in b[n] => n = y \/ y \in b[T.child[SideFor(k, n)][n]]

LEMMA HungTied ==
    ASSUME NEW T, NEW L, NEW b, Tied(T, L, b), NEW k \in TreeKeys \ L, NEW val,
           NEW y, Place(T, L, b, k, y), NEW R, Hung(T, R, k, val, y)
    PROVE  \E bb : Tied(R, L \cup {k}, bb)
<1> DEFINE bb == [n \in TreeNodes |-> IF n = k THEN {k}
                                      ELSE IF n \in L /\ y \in b[n] THEN b[n] \cup {k} ELSE b[n]]
<1>1. /\ T \in Trees /\ L \in SUBSET TreeKeys /\ b \in [TreeNodes -> SUBSET TreeKeys]
      /\ T.root \in L \cup {NIL} /\ b[NIL] = {} /\ b[T.root] = L
  BY DEF Tied
<1>2. /\ NIL \notin TreeKeys /\ NIL \in TreeNodes /\ k \in TreeNodes /\ L \subseteq TreeNodes
      /\ k # NIL /\ k \in Int /\ \A n \in L : n \in Int
  BY <1>1, TreeAssumption DEF TreeNodes
<1>3. y \in L \cup {NIL} /\ y # k /\ (y = NIL <=> T.root = NIL)
  BY <1>1, <1>2 DEF Place
<1>4. /\ bb \in [TreeNodes -> SUBSET TreeKeys] /\ bb[NIL] = {} /\ bb[k] = {k}
      /\ \A n \in L : bb[n] = IF y \in b[n] THEN b[n] \cup {k} ELSE b[n]
  BY <1>1, <1>2
<1> HIDE DEF bb
<1>5. /\ R \in Trees /\ R.root = IF y = NIL THEN k ELSE T.root
      /\ \A t \in Sides : R.child[t][k] = NIL
      /\ \A n \in L : \A t \in Sides :
           R.child[t][n] = IF n = y /\ t = SideFor(k, y) THEN k ELSE T.child[t][n]
      /\ R.parent[k] = y /\ \A n \in L : R.parent[n] = T.parent[n]
  <2>1. \A n \in L : n \in TreeNodes \ {k} /\ n # NIL
    BY <1>1, <1>2
  <2> QED
    BY <2>1 DEF Hung
<1>6. R.root \in L \cup {k, NIL} /\ bb[R.root] = L \cup {k}
  <2>1. CASE y = NIL
    BY <1>1, <1>3, <1>4, <1>5, <2>1
  <2>2. CASE y # NIL
    <3>1. T.root \in L /\ y \in b[T.root]
      BY <1>1, <1>3, <2>2
    <3> QED
      BY <1>1, <1>4, <1>5, <2>2, <3>1
  <2> QED
    BY <2>1, <2>2
<1>7. \A n \in L \cup {k} : \A t \in Sides : R.child[t][n] \in L \cup {k, NIL}
  BY <1>5 DEF Tied
<1>8. ASSUME NEW n \in L, NEW t \in Sides
      PROVE  bb[R.child[t][n]] = IF n = y /\ t = SideFor(k, y) THEN {k}
                                 ELSE IF y \in b[T.child[t][n]] THEN b[T.child[t][n]] \cup {k}
                                 ELSE b[T.child[t][n]]
  <2>1. T.child[t][n] \in L \cup {NIL}
    BY DEF Tied
  <2>2. y \notin b[NIL] /\ bb[NIL] = b[NIL]
    BY <1>1, <1>4
  <2>3. CASE n = y /\ t = SideFor(k, y)
    BY <1>4, <1>5, <2>3
  <2>4. CASE ~(n = y /\ t = SideFor(k, y))
    <3>1. R.child[t][n] = T.child[t][n]
      BY <1>5, <2>4
    <3>2. bb[T.child[t][n]] = IF y \in b[T.child[t][n]] THEN b[T.child[t][n]] \cup {k}
                              ELSE b[T.child[t][n]]
      BY <1>4, <2>1, <2>2
    <3> QED
      BY <2>4, <3>1, <3>2
  <2> QED
    BY <2>3, <2>4
<1>9. ASSUME NEW n \in L \cup {k}
      PROVE  bb[n] = {n} \cup bb[R.child["left"][n]] \cup bb[R.child["right"][n]]
  <2>0. "left" \in Sides /\ "right" \in Sides
    BY DEF Sides
  <2>1. CASE n = k
    BY <1>4, <1>5, <2>0, <2>1
  <2>2. CASE n \in L /\ n # y
    <3>1. b[n] = {n} \cup b[T.child["left"][n]] \cup b[T.child["right"][n]]
      BY <2>2 DEF Tied
    <3>2. bb[n] = IF y \in b[n] THEN b[n] \cup {k} ELSE b[n]
      BY <1>4, <2>2
    <3>3. \A t \in Sides : bb[R.child[t][n]] = IF y \in b[T.child[t][n]]
                                              THEN b[T.child[t][n]] \cup {k}
                                              ELSE b[T.child[t][n]]
      BY <1>8, <2>2
    <3> QED
      BY <2>0, <2>2, <3>1, <3>2, <3>3
  <2>3. CASE n \in L /\ n = y
    <3>1. b[n] = {n} \cup b[T.child["left"][n]] \cup b[T.child["right"][n]]
      BY <2>3 DEF Tied
    <3>2. bb[n] = b[n] \cup {k} /\ \A t \in Sides : y \notin b[T.child[t][n]]
      <4>1. n \in b[n] /\ \A t \in Sides : n \notin b[T.child[t][n]]
        BY <2>3, Own
      <4> QED
        BY <1>4, <2>3, <4>1
    <3>3. T.root # NIL
      BY <1>1, <1>2, <1>3, <2>3
    <3>4. b[T.child[SideFor(k, y)][n]] = {}
      BY <1>1, <2>3, <3>3 DEF Place
    <3>5. \A t \in Sides : bb[R.child[t][n]] = IF t = SideFor(k, y) THEN {k} ELSE b[T.child[t][n]]
      BY <1>8, <2>3, <3>2
    <3>6. SideFor(k, y) = "left" \/ SideFor(k, y) = "right"
      BY DEF SideFor
    <3> QED
      BY <2>0, <3>1, <3>2, <3>4, <3>5, <3>6
  <2> QED
    BY <2>1, <2>2, <2>3
<1>10. ASSUME NEW n \in L \cup {k}, NEW t \in Sides, NEW m \in bb[R.child[t][n]]
       PROVE  Before(t, m, n)
  <2>1. n \in L
    BY <1>4, <1>5
  <2>2. CASE m # k
    <3>0. \/ bb[R.child[t][n]] = {k}
          \/ bb[R.child[t][n]] = b[T.child[t][n]] \cup {k}
          \/ bb[R.child[t][n]] = b[T.child[t][n]]
      BY <1>8, <2>1
    <3>1. m \in b[T.child[t][n]]
      BY <2>2, <3>0
    <3>2. \A q \in b[T.child[t][n]] : Before(t, q, n)
      BY <2>1, Own
    <3> QED
      BY <3>1, <3>2
  <2>3. CASE m = k
    <3>1. t = SideFor(k, n)
      <4>1. CASE n = y /\ t = SideFor(k, y)
        BY <4>1
      <4>2. CASE ~(n = y /\ t = SideFor(k, y))
        <5>1. b[T.child[t][n]] \subseteq L
          <6>1. T.child[t][n] = NIL \/ T.child[t][n] \in L
            BY <2>1, Own
          <6>2. T.child[t][n] \in L => b[T.child[t][n]] \subseteq L
            BY Own, Down
          <6> QED
            BY <1>1, <6>1, <6>2
        <5>2. y \in b[T.child[t][n]]
          BY <1>8, <2>1, <2>3, <4>2, <5>1
        <5>3. y \in b[n] /\ n # y /\ y \in L
          BY <2>1, <5>1, <5>2, Own
        <5>4. y \in b[T.child[SideFor(k, n)][n]]
          BY <1>1, <1>2, <1>3, <2>1, <5>3 DEF Place
        <5>5. SideFor(k, n) \in Sides
          BY DEF SideFor, Sides
        <5> QED
          BY <2>1, <5>2, <5>4, <5>5, OneSide
      <4> QED
        BY <4>1, <4>2
    <3>2. k \in Int /\ n \in Int /\ k # n
      BY <1>2, <2>1
    <3> QED
      BY <2>3, <3>1, <3>2 DEF Before, SideFor
  <2> QED
    BY <2>2, <2>3
<1>11. ASSUME NEW n \in L \cup {k}, NEW t \in Sides, R.child[t][n] # NIL
       PROVE  R.parent[R.child[t][n]] = n
  <2>1. n \in L
    BY <1>5, <1>11
  <2>2. CASE n = y /\ t = SideFor(k, y)
    BY <1>5, <2>1, <2>2
  <2>3. CASE ~(n = y /\ t = SideFor(k, y))
    <3>1. R.child[t][n] = T.child[t][n]
      BY <1>5, <2>1, <2>3
    <3>2. T.child[t][n] \in L
      BY <1>11, <2>1, <3>1 DEF Tied
    <3>3. T.parent[T.child[t][n]] = n
      BY <1>11, <2>1, <3>1 DEF Tied
    <3> QED
      BY <1>5, <3>1, <3>2, <3>3
  <2> QED
    BY <2>2, <2>3
<1>12. R.root # NIL => R.parent[R.root] = NIL
  <2>1. CASE y = NIL
    BY <1>5, <2>1
  <2>2. CASE y # NIL
    <3>1. T.root \in L /\ T.parent[T.root] = NIL
      BY <1>1, <1>3, <2>2 DEF Tied
    <3> QED
      BY <1>5, <2>2, <3>1
  <2> QED
    BY <2>1, <2>2
<1>13. L \cup {k} \in SUBSET TreeKeys
  BY <1>1
<1> QED
  BY <1>4, <1>5, <1>6, <1>7, <1>9, <1>10, <1>11, <1>12, <1>13 DEF Tied

LEMMA HungRises ==
    ASSUME NEW T, NEW L, NEW v, NEW b, NEW h, Balanced(T, L, L, v, b, h),
           NEW k \in TreeKeys \ L, NEW val,
           NEW y, Place(T, L, b, k, y), NEW R, Hung(T, R, k, val, y)
    PROVE  \E bb, hh : Rising(R, L \cup {k}, L \cup {k}, [v EXCEPT ![k] = val], bb, hh, k)
<1>1. /\ Tied(T, L, b) /\ Even(T, L, h, NIL, "left") /\ Rest(T, L, L, v)
      /\ \A n \in L : T.color[n] = "RED" => \A t \in Sides : T.color[T.child[t][n]] = "BLACK"
      /\ T.color[T.root] = "BLACK"
  BY DEF Balanced
<1>2. PICK bb : Tied(R, L \cup {k}, bb)
  BY <1>1, HungTied
<1>3. /\ NIL \notin TreeKeys /\ NIL \in TreeNodes /\ k \in TreeNodes /\ L \subseteq TreeNodes
      /\ L \subseteq TreeKeys /\ k # NIL /\ T.root \in L \cup {NIL} /\ T.color[NIL] = "BLACK"
  BY <1>1, TreeAssumption DEF Tied, TreeNodes, Rest
<1>4. /\ R \in Trees /\ R.root = IF y = NIL THEN k ELSE T.root
      /\ \A t \in Sides : R.child[t][k] = NIL
      /\ \A n \in TreeNodes \ {k} : \A t \in Sides :
           R.child[t][n] = IF n = y /\ y # NIL /\ t = SideFor(k, y) THEN k ELSE T.child[t][n]
      /\ R.color[k] = "RED" /\ \A n \in TreeNodes \ {k} : R.color[n] = T.color[n]
      /\ R.value = [T.value EXCEPT ![k] = val]
  BY DEF Hung
<1>5. \A n \in L : n \in TreeNodes \ {k}
  BY <1>3
<1>6. y = NIL \/ (y \in L /\ T.child[SideFor(k, y)][y] = NIL)
  BY DEF Place
<1>7. \A n \in L : \A t \in Sides : T.child[t][n] \in L \cup {NIL}
  BY <1>1 DEF Tied
<1> DEFINE hh == [h EXCEPT ![k] = 0]
<1>8. /\ h \in [TreeNodes -> Nat] /\ h[NIL] = 0 /\ hh \in [TreeNodes -> Nat]
      /\ hh[k] = 0 /\ \A n \in TreeNodes \ {k} : hh[n] = h[n]
  BY <1>1, <1>3 DEF Even
<1> HIDE DEF hh
<1>9. Even(R, L \cup {k}, hh, NIL, "left")
  <2>1. ASSUME NEW n \in L \cup {k}, NEW t \in Sides
        PROVE  hh[n] = hh[R.child[t][n]] + Weight(R, n) /\ R.child[t][n] \in TreeNodes
    <3>1. CASE n = k
      <4>1. Weight(R, n) = 0
        BY <1>4, <3>1 DEF Weight
      <4>2. hh[NIL] = 0
        BY <1>3, <1>8
      <4> QED
        BY <1>3, <1>4, <1>8, <3>1, <4>1, <4>2
    <3>2. CASE n \in L
      <4>1. h[n] = h[T.child[t][n]] + Weight(T, n)
        BY <1>1, <3>2, Level
      <4>2. Weight(R, n) = Weight(T, n) /\ hh[n] = h[n]
        BY <1>4, <1>5, <1>8, <3>2 DEF Weight
      <4>3. hh[R.child[t][n]] = h[T.child[t][n]] /\ R.child[t][n] \in TreeNodes
        <5>1. CASE n = y /\ y # NIL /\ t = SideFor(k, y)
          <6>1. R.child[t][n] = k
            BY <1>4, <1>5, <3>2, <5>1
          <6>2. T.child[t][n] = NIL
            BY <1>6, <5>1
          <6> QED
            BY <1>3, <1>8, <6>1, <6>2
        <5>2. CASE ~(n = y /\ y # NIL /\ t = SideFor(k, y))
          <6>1. R.child[t][n] = T.child[t][n]
            BY <1>4, <1>5, <3>2, <5>2
          <6>2. T.child[t][n] \in TreeNodes \ {k}
            BY <1>3, <1>7, <3>2
          <6> QED
            BY <1>8, <6>1, <6>2
        <5> QED
          BY <5>1, <5>2
      <4> QED
        BY <4>1, <4>2, <4>3
    <3> QED
      BY <3>1, <3>2
  <2>2. L \cup {k} \in SUBSET TreeKeys /\ hh[NIL] = 0
    BY <1>3, <1>8
  <2> QED
    BY <1>8, <2>1, <2>2, LevelEven
<1>10. Rest(R, L \cup {k}, L \cup {k}, [v EXCEPT ![k] = val])
  <2>1. R.value = [v EXCEPT ![k] = val]
    BY <1>1, <1>4 DEF Rest
  <2>2. R.color[NIL] = "BLACK"
    BY <1>3, <1>4
  <2>3. \A s \in Sides : R.child[s][NIL] = NULL
    BY <1>1, <1>3, <1>4 DEF Rest
  <2>4. ASSUME NEW n \in TreeKeys \ (L \cup {k}), NEW s \in Sides PROVE R.child[s][n] = NIL
    <3>1. n \in TreeNodes \ {k} /\ (n = y => y = NIL)
      BY <1>6 DEF TreeNodes
    <3>2. T.child[s][n] = NIL
      BY <1>1 DEF Rest
    <3> QED
      BY <1>4, <3>1, <3>2
  <2> QED
    BY <2>1, <2>2, <2>3, <2>4 DEF Rest
<1>11. ASSUME NEW n \in L \cup {k}, R.color[n] = "RED", NEW t \in Sides, R.child[t][n] # k
       PROVE  R.color[R.child[t][n]] = "BLACK"
  <2>1. R.color[NIL] = "BLACK"
    BY <1>3, <1>4
  <2>2. CASE n = k
    BY <1>4, <2>1, <2>2
  <2>3. CASE n \in L
    <3>1. R.child[t][n] = T.child[t][n] /\ T.color[n] = "RED"
      BY <1>4, <1>5, <1>11, <2>3
    <3>2. T.color[T.child[t][n]] = "BLACK"
      BY <1>1, <2>3, <3>1
    <3>3. T.child[t][n] \in TreeNodes \ {k}
      BY <1>3, <1>7, <2>3
    <3> QED
      BY <1>4, <3>1, <3>2, <3>3
  <2> QED
    BY <2>2, <2>3
<1>12. R.root # k => R.color[R.root] = "BLACK"
  BY <1>1, <1>3, <1>4, <1>5
<1> QED
  BY <1>2, <1>4, <1>9, <1>10, <1>11, <1>12 DEF Rising

(* rbtree_insert adds the key to a red-black tree that has not got it. *)
LEMMA InsertBalances ==
    ASSUME NEW T, NEW L, NEW v, NEW b, NEW h, Balanced(T, L, L, v, b, h),
           NEW k \in TreeKeys \ L, NEW val \in Values
    PROVE  \E bb, hh : Balanced(rbtree_insert(T, k, val), L \cup {k}, L \cup {k},
                                [v EXCEPT ![k] = val], bb, hh)
<1>1. Tied(T, L, b) /\ Rest(T, L, L, v) /\ T \in Trees /\ L \in SUBSET TreeKeys
  BY DEF Balanced, Tied
<1>2. PICK y : y = Above(T, k)
  OBVIOUS
<1>3. Place(T, L, b, k, y)
  <2>1. T.root = NIL => Above(T, k) = NIL
    BY DEF Above
  <2>2. CASE T.root = NIL
    BY <1>2, <2>1, <2>2 DEF Place
  <2>3. CASE T.root # NIL
    BY <1>1, <1>2, <2>3, AboveFinds DEF Place
  <2> QED
    BY <2>2, <2>3
<1>4. y \in TreeNodes \ {k}
  BY <1>1, <1>3, TreeAssumption DEF Place, TreeNodes
<1>5. PICK R : Hung(T, R, k, val, y) /\ rbtree_insert(T, k, val) = InsertFixup(R, k)
  BY <1>1, <1>2, <1>4, InsertHangs
<1>6. PICK bb, hh : Rising(R, L \cup {k}, L \cup {k}, [v EXCEPT ![k] = val], bb, hh, k)
  BY <1>3, <1>5, HungRises
<1> QED
  BY <1>5, <1>6, InsertFixupBalances

-----------------------------------------------------------------------------
(* rbtree_delete: the node y that has at most one child is unlinked.         *)

Unlinked(T, R, L, y, x) ==
    /\ SameButLinks(T, R) /\ PointsTo(T, R, L, y, x)
    /\ R.parent[x] = T.parent[y] /\ \A n \in TreeNodes \ {x} : R.parent[n] = T.parent[n]

(* x is the one child that y may have. *)
OnlyChild(T, y, x) == \E e \in Sides : T.child[e][y] = NIL /\ x = T.child[Other(e)][y]

Without(b, y) == [n \in TreeNodes |-> b[n] \ {y}]

LEMMA UnlinkFields ==
    ASSUME NEW T, NEW L, NEW b, Tied(T, L, b), NEW y \in L, NEW x \in TreeNodes
    PROVE  Unlinked(T, [Replace(T, y, x) EXCEPT !.parent[x] = T.parent[y]], L, y, x)
<1>1. PICK R : R = Replace(T, y, x)
  OBVIOUS
<1>2. SameButLinks(T, R) /\ R.parent = T.parent /\ PointsTo(T, R, L, y, x)
  BY <1>1, ReplaceFields
<1>3. T \in Trees /\ y \in TreeNodes /\ T.parent[y] \in TreeNodes
  <2>1. T \in Trees /\ y \in TreeNodes
    BY DEF Tied, TreeNodes
  <2> QED
    BY <2>1 DEF Trees
<1>4. PICK U : U = [R EXCEPT !.parent[x] = T.parent[y]]
  OBVIOUS
<1>5. R \in Trees
  BY <1>2 DEF SameButLinks
<1>6. /\ U \in Trees /\ U.root = R.root /\ U.child = R.child
      /\ U.color = R.color /\ U.value = R.value
      /\ U.parent[x] = T.parent[y] /\ \A n \in TreeNodes \ {x} : U.parent[n] = R.parent[n]
  BY <1>3, <1>4, <1>5 DEF Trees
<1> QED
  BY <1>1, <1>2, <1>4, <1>6 DEF Unlinked, SameButLinks, PointsTo

(* What was below y is below its only child. *)
LEMMA OnlyBelow ==
    ASSUME NEW T, NEW L, NEW b, Tied(T, L, b), NEW y \in L, NEW x, OnlyChild(T, y, x)
    PROVE  /\ x \in L \cup {NIL} /\ x # y /\ x \in TreeNodes /\ y # NIL
           /\ b[y] = {y} \cup b[x] /\ y \notin b[x]
           /\ x # NIL => T.parent[x] = y
<1>1. PICK e \in Sides : T.child[e][y] = NIL /\ x = T.child[Other(e)][y]
  BY DEF OnlyChild
<1>2. Other(e) \in Sides /\ ((e = "left" /\ Other(e) = "right") \/ (e = "right" /\ Other(e) = "left"))
  BY DEF Other, Sides
<1>3. /\ b[y] = {y} \cup b[T.child["left"][y]] \cup b[T.child["right"][y]]
      /\ y # NIL /\ b[NIL] = {} /\ x \in L \cup {NIL} /\ y \notin b[x] /\ y \in b[y]
  BY <1>1, <1>2, Own
<1>4. b[y] = {y} \cup b[x]
  BY <1>1, <1>2, <1>3
<1>5. x \in TreeNodes
  BY <1>3 DEF Tied, TreeNodes
<1>6. x # NIL => T.parent[x] = y
  BY <1>1, <1>2 DEF Tied
<1> QED
  BY <1>3, <1>4, <1>5, <1>6

LEMMA UnlinkTied ==
    ASSUME NEW T, NEW L, NEW b, Tied(T, L, b), NEW y \in L, NEW x, OnlyChild(T, y, x),
           NEW R, Unlinked(T, R, L, y, x)
    PROVE  Tied(R, L \ {y}, Without(b, y))
<1>1. /\ T \in Trees /\ L \in SUBSET TreeKeys /\ b \in [TreeNodes -> SUBSET TreeKeys]
      /\ T.root \in L \cup {NIL} /\ b[NIL] = {} /\ b[T.root] = L
  BY DEF Tied
<1>2. /\ x \in L \cup {NIL} /\ x # y /\ x \in TreeNodes /\ y # NIL
      /\ b[y] = {y} \cup b[x] /\ y \notin b[x]
      /\ x # NIL => T.parent[x] = y
  BY OnlyBelow
<1>3. /\ R \in Trees /\ R.root = IF T.root = y THEN x ELSE T.root
      /\ \A q \in L : \A t \in Sides :
           R.child[t][q] = IF T.child[t][q] = y THEN x ELSE T.child[t][q]
      /\ R.parent[x] = T.parent[y] /\ \A n \in TreeNodes \ {x} : R.parent[n] = T.parent[n]
  BY DEF Unlinked, SameButLinks, PointsTo
<1>4. PICK c : c = Without(b, y)
  OBVIOUS
<1>5. c \in [TreeNodes -> SUBSET TreeKeys] /\ \A n \in TreeNodes : c[n] = b[n] \ {y}
  BY <1>1, <1>4 DEF Without
<1>6. L \subseteq TreeNodes /\ NIL \in TreeNodes /\ NIL \notin L
  BY <1>1, TreeAssumption DEF TreeNodes
<1>7. \A q \in L : \A t \in Sides : T.child[t][q] \in L \cup {NIL}
  BY DEF Tied
<1>8. ASSUME NEW q \in L, NEW t \in Sides PROVE c[R.child[t][q]] = b[T.child[t][q]] \ {y}
  <2>1. CASE T.child[t][q] = y
    BY <1>2, <1>3, <1>5, <2>1
  <2>2. CASE T.child[t][q] # y
    <3>1. T.child[t][q] \in TreeNodes
      BY <1>6, <1>7
    <3> QED
      BY <1>3, <1>5, <2>2, <3>1
  <2> QED
    BY <2>1, <2>2
<1>9. R.root \in (L \ {y}) \cup {NIL} /\ c[R.root] = L \ {y}
  <2>1. CASE T.root = y
    BY <1>1, <1>2, <1>3, <1>5, <2>1
  <2>2. CASE T.root # y
    <3>1. T.root \in TreeNodes
      BY <1>1, <1>6
    <3> QED
      BY <1>1, <1>3, <1>5, <2>2, <3>1
  <2> QED
    BY <2>1, <2>2
<1>10. \A q \in L \ {y} : \A t \in Sides : R.child[t][q] \in (L \ {y}) \cup {NIL}
  BY <1>2, <1>3, <1>7
<1>11. ASSUME NEW q \in L \ {y}
       PROVE  c[q] = {q} \cup c[R.child["left"][q]] \cup c[R.child["right"][q]]
  <2>1. b[q] = {q} \cup b[T.child["left"][q]] \cup b[T.child["right"][q]]
    BY DEF Tied
  <2>2. /\ c[R.child["left"][q]] = b[T.child["left"][q]] \ {y}
        /\ c[R.child["right"][q]] = b[T.child["right"][q]] \ {y}
    BY <1>8 DEF Sides
  <2>3. c[q] = b[q] \ {y}
    BY <1>5, <1>6
  <2> QED
    BY <2>1, <2>2, <2>3
<1>12. ASSUME NEW q \in L \ {y}, NEW t \in Sides, NEW m \in c[R.child[t][q]]
       PROVE  Before(t, m, q)
  <2>1. m \in b[T.child[t][q]]
    BY <1>8
  <2> QED
    BY <2>1 DEF Tied
<1>13. ASSUME NEW q \in L \ {y}, NEW t \in Sides, R.child[t][q] # NIL
       PROVE  R.parent[R.child[t][q]] = q
  <2>1. CASE T.child[t][q] = y
    <3>1. T.parent[y] = q
      BY <1>2, <2>1 DEF Tied
    <3> QED
      BY <1>3, <2>1, <3>1
  <2>2. CASE T.child[t][q] # y
    <3>1. R.child[t][q] = T.child[t][q]
      BY <1>3, <2>2
    <3>2. T.parent[T.child[t][q]] = q
      BY <1>13, <3>1 DEF Tied
    <3>3. T.child[t][q] # x
      BY <1>2, <1>13, <3>1, <3>2
    <3>4. T.child[t][q] \in TreeNodes
      BY <1>6, <1>7
    <3> QED
      BY <1>3, <3>1, <3>2, <3>3, <3>4
  <2> QED
    BY <2>1, <2>2
<1>14. R.root # NIL => R.parent[R.root] = NIL
  <2>1. T.root # NIL => T.parent[T.root] = NIL
    BY DEF Tied
  <2>2. CASE T.root = y
    BY <1>2, <1>3, <2>1, <2>2
  <2>3. CASE T.root # y /\ T.root # NIL
    <3>1. T.root # x
      BY <1>2, <2>1, <2>3
    <3> QED
      BY <1>1, <1>3, <1>6, <2>1, <2>3, <3>1
  <2>4. CASE T.root = NIL
    BY <1>2, <1>3, <2>4
  <2> QED
    BY <2>2, <2>3, <2>4
<1>15. L \ {y} \in SUBSET TreeKeys
  BY <1>1
<1> HIDE DEF Without
<1>16. Tied(R, L \ {y}, c)
  <2>1. PICK K : K = L \ {y}
    OBVIOUS
  <2>2. /\ R \in Trees /\ K \in SUBSET TreeKeys /\ c \in [TreeNodes -> SUBSET TreeKeys]
        /\ R.root \in K \cup {NIL} /\ c[NIL] = {} /\ c[R.root] = K
        /\ R.root # NIL => R.parent[R.root] = NIL
    BY <1>1, <1>3, <1>5, <1>6, <1>9, <1>14, <1>15, <2>1
  <2>3. \A q \in K : \A t \in Sides : R.child[t][q] \in K \cup {NIL}
    BY <1>10, <2>1
  <2>4. \A q \in K : c[q] = {q} \cup c[R.child["left"][q]] \cup c[R.child["right"][q]]
    BY <1>11, <2>1
  <2>5. \A q \in K : \A t \in Sides : \A m \in c[R.child[t][q]] : Before(t, m, q)
    BY <1>12, <2>1
  <2>6. \A q \in K : \A t \in Sides : R.child[t][q] # NIL => R.parent[R.child[t][q]] = q
    BY <1>13, <2>1
  <2>7. Tied(R, K, c)
    BY <2>2, <2>3, <2>4, <2>5, <2>6 DEF Tied
  <2> QED
    BY <2>1, <2>7
<1> QED
  BY <1>4, <1>16

LEMMA UnlinkRest ==
    ASSUME NEW T, NEW L, NEW v, Rest(T, L, L, v), L \in SUBSET TreeKeys, NEW y, NEW x,
           NEW R, Unlinked(T, R, L, y, x)
    PROVE  Rest(R, L \ {y}, L, v)
<1>1. \A q \in TreeNodes \ L : \A t \in Sides : R.child[t][q] = T.child[t][q]
  BY DEF Unlinked, PointsTo
<1>2. NIL \in TreeNodes \ L /\ \A q \in TreeKeys \ L : q \in TreeNodes \ L
  BY TreeAssumption DEF TreeNodes
<1>3. R.value = T.value /\ R.color = T.color
  BY DEF Unlinked, SameButLinks
<1> QED
  BY <1>1, <1>2, <1>3 DEF Rest

(* A red node that is unlinked leaves a red-black tree, *)
LEMMA UnlinkRed ==
    ASSUME NEW T, NEW L, NEW v, NEW b, NEW h, Balanced(T, L, L, v, b, h),
           NEW y \in L, T.color[y] # "BLACK", NEW x, OnlyChild(T, y, x),
           NEW R, Unlinked(T, R, L, y, x)
    PROVE  Balanced(R, L \ {y}, L, v, Without(b, y), h)
<1>1. /\ Tied(T, L, b) /\ Even(T, L, h, NIL, "left") /\ Rest(T, L, L, v)
      /\ \A n \in L : T.color[n] = "RED" => \A t \in Sides : T.color[T.child[t][n]] = "BLACK"
      /\ T.color[T.root] = "BLACK" /\ L \in SUBSET TreeKeys /\ T \in Trees
  BY DEF Balanced, Tied
<1>2. PICK K : K = L \ {y}
  OBVIOUS
<1>3. Tied(R, K, Without(b, y)) /\ Rest(R, K, L, v)
  BY <1>1, <1>2, UnlinkTied, UnlinkRest
<1>4. /\ R.color = T.color /\ R.root = IF T.root = y THEN x ELSE T.root
      /\ \A q \in L : \A t \in Sides :
           R.child[t][q] = IF T.child[t][q] = y THEN x ELSE T.child[t][q]
  BY DEF Unlinked, SameButLinks, PointsTo
<1>5. T.color[y] = "RED" /\ T.root # y
  <2>1. y \in TreeNodes
    BY <1>1 DEF TreeNodes
  <2> QED
    BY <1>1, <2>1 DEF Trees
<1>6. PICK e \in Sides : Other(e) \in Sides /\ x = T.child[Other(e)][y]
  BY DEF OnlyChild, Other, Sides
<1>7. T.color[x] = "BLACK"
  BY <1>1, <1>5, <1>6
<1>8. h[y] = h[x]
  <2>1. h[y] = h[x] + Weight(T, y) /\ h[x] \in Nat
    BY <1>1, <1>6, Level
  <2>2. Weight(T, y) = 0
    BY <1>5 DEF Weight
  <2> QED
    BY <2>1, <2>2
<1>9. K \in SUBSET TreeKeys /\ h \in [TreeNodes -> Nat] /\ h[NIL] = 0
  BY <1>1, <1>2 DEF Even
<1>10. ASSUME NEW n \in K, NEW t \in Sides
       PROVE  h[n] = h[R.child[t][n]] + Weight(R, n) /\ R.child[t][n] \in TreeNodes
  <2>1. n \in L
    BY <1>2
  <2>2. h[n] = h[T.child[t][n]] + Weight(T, n)
    BY <1>1, <2>1, Level
  <2>3. Weight(R, n) = Weight(T, n)
    BY <1>4 DEF Weight
  <2>4. h[R.child[t][n]] = h[T.child[t][n]]
    BY <1>4, <1>8, <2>1
  <2>5. R.child[t][n] \in K \cup {NIL}
    BY <1>3 DEF Tied
  <2> QED
    BY <1>9, <2>2, <2>3, <2>4, <2>5 DEF TreeNodes
<1>11. Even(R, K, h, NIL, "left")
  BY <1>9, <1>10, LevelEven
<1>12. \A n \in K : R.color[n] = "RED" => \A t \in Sides : R.color[R.child[t][n]] = "BLACK"
  BY <1>1, <1>2, <1>4, <1>7
<1>13. R.color[R.root] = "BLACK"
  BY <1>1, <1>4, <1>5
<1>14. Balanced(R, K, L, v, Without(b, y), h)
  BY <1>3, <1>11, <1>12, <1>13 DEF Balanced
<1> QED
  BY <1>2, <1>14

(* and a black one leaves one black node too few above x. *)
LEMMA UnlinkBlack ==
    ASSUME NEW T, NEW L, NEW v, NEW b, NEW h, Balanced(T, L, L, v, b, h),
           NEW y \in L, T.color[y] = "BLACK", NEW x, OnlyChild(T, y, x),
           NEW R, Unlinked(T, R, L, y, x)
    PROVE  Sinking(R, L \ {y}, L, v, Without(b, y), h, x)
<1>1. /\ Tied(T, L, b) /\ Even(T, L, h, NIL, "left") /\ Rest(T, L, L, v)
      /\ \A n \in L : T.color[n] = "RED" => \A t \in Sides : T.color[T.child[t][n]] = "BLACK"
      /\ T.color[T.root] = "BLACK" /\ L \in SUBSET TreeKeys /\ T \in Trees
  BY DEF Balanced, Tied
<1>2. PICK K : K = L \ {y}
  OBVIOUS
<1>3. Tied(R, K, Without(b, y)) /\ Rest(R, K, L, v)
  BY <1>1, <1>2, UnlinkTied, UnlinkRest
<1>4. /\ R.color = T.color /\ R.root = IF T.root = y THEN x ELSE T.root
      /\ \A q \in L : \A t \in Sides :
           R.child[t][q] = IF T.child[t][q] = y THEN x ELSE T.child[t][q]
      /\ R.parent[x] = T.parent[y]
  BY DEF Unlinked, SameButLinks, PointsTo
<1>5. PICK e \in Sides : Other(e) \in Sides /\ x = T.child[Other(e)][y]
  BY DEF OnlyChild, Other, Sides
<1>6. x \in L \cup {NIL} /\ x # y /\ x \in TreeNodes /\ (x # NIL => T.parent[x] = y)
  BY <1>1, OnlyBelow
<1>7. h[y] = h[x] + 1 /\ h[x] \in Nat /\ h[y] \in Nat
  <2>1. h[y] = h[x] + Weight(T, y) /\ h[x] \in Nat /\ h[y] \in Nat
    BY <1>1, <1>5, Level
  <2> QED
    BY <2>1 DEF Weight
<1>8. K \in SUBSET TreeKeys /\ h \in [TreeNodes -> Nat] /\ h[NIL] = 0
  BY <1>1, <1>2 DEF Even
<1>9. ASSUME NEW n \in K, NEW t \in Sides
      PROVE  /\ h[n] = h[T.child[t][n]] + Weight(R, n)
             /\ h[T.child[t][n]] \in Nat /\ R.child[t][n] \in K \cup {NIL}
             /\ R.child[t][n] = IF T.child[t][n] = y THEN x ELSE T.child[t][n]
  <2>1. n \in L
    BY <1>2
  <2>2. h[n] = h[T.child[t][n]] + Weight(T, n) /\ h[T.child[t][n]] \in Nat
    BY <1>1, <2>1, Level
  <2>3. Weight(R, n) = Weight(T, n)
    BY <1>4 DEF Weight
  <2>4. R.child[t][n] \in K \cup {NIL}
    BY <1>3 DEF Tied
  <2> QED
    BY <1>4, <2>1, <2>2, <2>3, <2>4
<1>10. \A n \in K : \A t \in Sides : Weight(R, n) \in Nat
  BY DEF Weight
<1>11. ASSUME NEW n \in K, R.color[n] = "RED", NEW t \in Sides, R.child[t][n] # x
       PROVE  R.color[R.child[t][n]] = "BLACK"
  BY <1>1, <1>2, <1>4, <1>11
<1>12. x \in K \cup {NIL}
  BY <1>2, <1>6
<1>13. CASE T.root = y
  <2>1. R.root = x
    BY <1>4, <1>13
  <2>2. \A n \in L : \A t \in Sides : T.child[t][n] # y
    <3>1. T.parent[y] = NIL /\ NIL \notin L /\ y # NIL
      BY <1>1, <1>13, TreeAssumption DEF Tied
    <3> QED
      BY <1>1, <3>1 DEF Tied
  <2>3. \A n \in K : \A t \in Sides : h[n] = h[R.child[t][n]] + Weight(R, n)
    BY <1>2, <1>9, <2>2
  <2>4. \A n \in K : \A t \in Sides : R.child[t][n] \in TreeNodes
    BY <1>8, <1>9 DEF TreeNodes
  <2>5. Even(R, K, h, NIL, "left")
    BY <1>8, <2>3, <2>4, LevelEven
  <2>6. Sinking(R, K, L, v, Without(b, y), h, x)
    BY <1>3, <1>11, <1>12, <2>1, <2>5 DEF Sinking
  <2> QED
    BY <1>2, <2>6
<1>14. CASE T.root # y
  <2> DEFINE p == T.parent[y]
             s == SideOf(T, y)
  <2>1. s \in Sides /\ p \in L /\ p # y /\ T.child[s][p] = y
    BY <1>1, <1>14, SideIs
  <2> HIDE DEF p, s
  <2>2. p \in K /\ R.parent[x] = p /\ R.child[s][p] = x
    BY <1>2, <1>4, <2>1 DEF p
  <2>3. \A n \in L : \A t \in Sides : T.child[t][n] = y => n = p /\ t = s
    <3> SUFFICES ASSUME NEW n \in L, NEW t \in Sides, T.child[t][n] = y PROVE n = p /\ t = s
      OBVIOUS
    <3>1. y # NIL
      BY <1>1, TreeAssumption
    <3> QED
      BY <1>1, <2>1, <3>1, OneParent
  <2>4. Even(R, K, h, p, s)
    <3> SUFFICES ASSUME NEW n \in K, NEW t \in Sides
                 PROVE  h[n] = h[R.child[t][n]] + Weight(R, n) + Owed(n, t, p, s)
      BY <1>8 DEF Even
    <3>0. Weight(R, n) \in Nat
      BY <1>10
    <3>1. CASE T.child[t][n] = y
      <4>1. n = p /\ t = s
        BY <1>2, <2>3, <3>1
      <4>2. Owed(n, t, p, s) = 1
        BY <4>1 DEF Owed
      <4>3. h[n] = h[y] + Weight(R, n) /\ R.child[t][n] = x
        BY <1>9, <3>1
      <4> QED
        BY <1>7, <3>0, <4>2, <4>3
    <3>2. CASE T.child[t][n] # y
      <4>1. ~(n = p /\ t = s)
        BY <2>1, <3>2
      <4>2. Owed(n, t, p, s) = 0
        BY <4>1 DEF Owed
      <4>3. h[n] = h[T.child[t][n]] + Weight(R, n) /\ R.child[t][n] = T.child[t][n]
            /\ h[T.child[t][n]] \in Nat
        BY <1>9, <3>2
      <4> QED
        BY <3>0, <4>2, <4>3
    <3> QED
      BY <3>1, <3>2
  <2>5. \A t \in Sides : R.child[t][p] = x => t = s
    <3> SUFFICES ASSUME NEW t \in Sides, R.child[t][p] = x, t # s PROVE FALSE
      OBVIOUS
    <3>1. T.child[t][p] # y
      BY <2>1, <2>3
    <3>2. T.child[t][p] = x
      BY <1>4, <2>1, <3>1
    <3>3. x = NIL
      <4>1. x # NIL => T.parent[x] = p
        BY <1>1, <2>1, <3>2 DEF Tied
      <4> QED
        BY <1>6, <2>1, <4>1
    <3>4. h[p] = h[x] + Weight(R, p) /\ h[p] = h[y] + Weight(R, p)
      BY <1>9, <2>1, <2>2, <3>2
    <3>5. Weight(R, p) \in Nat
      BY <1>10, <2>2
    <3> QED
      BY <1>7, <3>4, <3>5
  <2>6. SideOf(R, x) = s
    <3>1. SideOf(R, x) = IF R.child["left"][p] = x THEN "left" ELSE "right"
      BY <2>2 DEF SideOf
    <3> QED
      BY <2>1, <2>2, <2>5, <3>1 DEF Sides
  <2>7. R.root # x => R.color[R.root] = "BLACK"
    BY <1>1, <1>4, <1>14
  <2>8. \E p0 \in K : \E s0 \in Sides :
          R.parent[x] = p0 /\ SideOf(R, x) = s0 /\ R.child[s0][p0] = x /\ Even(R, K, h, p0, s0)
    BY <2>1, <2>2, <2>4, <2>6
  <2>9. Sinking(R, K, L, v, Without(b, y), h, x)
    BY <1>3, <1>11, <1>12, <2>7, <2>8 DEF Sinking
  <2> QED
    BY <1>2, <2>9
<1> QED
  BY <1>13, <1>14

-----------------------------------------------------------------------------
(* The swap of keys in rbtree_delete: the node z is the node y from now on.  *)

Moves(z, y, n) == IF n = z THEN y ELSE n

Renamed(T, R, z, y) ==
    /\ R \in Trees /\ R.root = Moves(z, y, T.root) /\ R.value = T.value
    /\ \A s \in Sides : R.child[s][y] = Moves(z, y, T.child[s][z])
    /\ \A n \in TreeNodes \ {y} : \A s \in Sides : R.child[s][n] = Moves(z, y, T.child[s][n])
    /\ R.parent[y] = Moves(z, y, T.parent[z])
    /\ \A n \in TreeNodes \ {y} : R.parent[n] = Moves(z, y, T.parent[n])
    /\ R.color[y] = T.color[z] /\ \A n \in TreeNodes \ {y} : R.color[n] = T.color[n]

LEMMA RenameFields ==
    ASSUME NEW T \in Trees, NEW z \in TreeKeys, NEW y \in TreeKeys, y # z
    PROVE  Renamed(T, Rename(T, z, y), z, y)
<1> DEFINE Moved(f) == [n \in DOMAIN f |-> IF n = y THEN Moves(z, y, f[z]) ELSE Moves(z, y, f[n])]
<1>1. Rename(T, z, y) = [T EXCEPT !.root = Moves(z, y, T.root),
                                  !.child = [s \in Sides |-> Moved(T.child[s])],
                                  !.parent = Moved(T.parent),
                                  !.color[y] = T.color[z]]
  BY DEF Rename, Moves
<1>2. y \in TreeNodes /\ z \in TreeNodes
  BY DEF TreeNodes
<1>3. \A n : Moves(z, y, n) = n \/ Moves(z, y, n) = y
  BY DEF Moves
<1> HIDE DEF Moves
<1>4. \A n \in TreeNodes : Moves(z, y, n) \in TreeNodes
  BY <1>2, <1>3
<1>5. \A n \in TreeNodes \cup {NULL} : Moves(z, y, n) \in TreeNodes \cup {NULL}
  BY <1>2, <1>3
<1>6. ASSUME NEW s \in Sides
      PROVE  /\ Moved(T.child[s]) \in [TreeNodes -> TreeNodes \cup {NULL}]
             /\ Moved(T.child[s])[y] = Moves(z, y, T.child[s][z])
             /\ \A n \in TreeNodes \ {y} : Moved(T.child[s])[n] = Moves(z, y, T.child[s][n])
  <2>1. T.child[s] \in [TreeNodes -> TreeNodes \cup {NULL}]
    BY DEF Trees
  <2> QED
    BY <1>2, <1>5, <2>1
<1>7. /\ Moved(T.parent) \in [TreeNodes -> TreeNodes]
      /\ Moved(T.parent)[y] = Moves(z, y, T.parent[z])
      /\ \A n \in TreeNodes \ {y} : Moved(T.parent)[n] = Moves(z, y, T.parent[n])
  <2>1. T.parent \in [TreeNodes -> TreeNodes]
    BY DEF Trees
  <2> QED
    BY <1>2, <1>4, <2>1
<1> HIDE DEF Moved
<1>8. Moves(z, y, T.root) \in TreeNodes
  BY <1>4 DEF Trees
<1>9. PICK R : R = Rename(T, z, y)
  OBVIOUS
<1>10. /\ R.root = Moves(z, y, T.root) /\ R.value = T.value
       /\ R.child = [s \in Sides |-> Moved(T.child[s])]
       /\ R.parent = Moved(T.parent)
       /\ R.color = [T.color EXCEPT ![y] = T.color[z]]
  BY <1>1, <1>9 DEF Trees
<1>11. R \in Trees
  <2>1. [s \in Sides |-> Moved(T.child[s])] \in [Sides -> [TreeNodes -> TreeNodes \cup {NULL}]]
    BY <1>6
  <2>2. PICK r, c, p : /\ r = Moves(z, y, T.root) /\ c = [s \in Sides |-> Moved(T.child[s])]
                       /\ p = Moved(T.parent)
    OBVIOUS
  <2>3. R = [T EXCEPT !.root = r, !.child = c, !.parent = p, !.color[y] = T.color[z]]
    BY <1>1, <1>9, <2>2
  <2>4. /\ r \in TreeNodes /\ c \in [Sides -> [TreeNodes -> TreeNodes \cup {NULL}]]
        /\ p \in [TreeNodes -> TreeNodes]
    BY <1>7, <1>8, <2>1, <2>2
  <2> QED
    BY <1>2, <2>3, <2>4 DEF Trees
<1>12. R.color[y] = T.color[z] /\ \A n \in TreeNodes \ {y} : R.color[n] = T.color[n]
  BY <1>2, <1>10 DEF Trees
<1>13. \A s \in Sides : R.child[s] = Moved(T.child[s])
  BY <1>10
<1> QED
  BY <1>6, <1>7, <1>9, <1>10, <1>11, <1>12, <1>13 DEF Renamed

Exchanged(L, K, z, y) == K = (L \ {z}) \cup {y}

Alike(T, R, L, K, z, y) ==
    /\ \A n \in L : Moves(z, y, n) \in K
    /\ Moves(z, y, NIL) = NIL /\ NIL \notin K /\ K \in SUBSET TreeKeys
    /\ \A n \in L \cup {NIL} : Moves(y, z, Moves(z, y, n)) = n
    /\ \A q \in K : \E n \in L : q = Moves(z, y, n)
    /\ \A n \in L \cup {NIL} : R.color[Moves(z, y, n)] = T.color[n]
    /\ \A n \in L \cup {NIL} : R.parent[Moves(z, y, n)] = Moves(z, y, T.parent[n])
    /\ \A n \in L : \A s \in Sides :
         R.child[s][Moves(z, y, n)] = Moves(z, y, T.child[s][n])
    /\ \A n \in L \cup {NIL} : Moves(z, y, n) \in TreeNodes

(* The keys that stay in the tree correspond to those that were in it. *)
LEMMA RenameLinks ==
    ASSUME NEW T, NEW L \in SUBSET TreeKeys, NEW z \in L, NEW y \in TreeKeys \ L,
           \A n \in L : \A s \in Sides : T.child[s][n] \in L \cup {NIL},
           NEW R, Renamed(T, R, z, y), NEW K, Exchanged(L, K, z, y)
    PROVE  Alike(T, R, L, K, z, y)
<1>1. NIL \notin TreeKeys /\ y # z /\ z \in TreeNodes /\ L \subseteq TreeNodes /\ NIL \in TreeNodes
  BY TreeAssumption DEF TreeNodes
<1>2. /\ \A n \in L : Moves(z, y, n) \in K
      /\ Moves(z, y, NIL) = NIL /\ NIL \notin K /\ K \in SUBSET TreeKeys
  BY <1>1 DEF Moves, Exchanged
<1>3. \A n \in L \cup {NIL} : Moves(y, z, Moves(z, y, n)) = n
  BY <1>1 DEF Moves
<1>4. \A q \in K : \E n \in L : q = Moves(z, y, n)
  <2> SUFFICES ASSUME NEW q \in K PROVE \E n \in L : q = Moves(z, y, n)
    OBVIOUS
  <2>1. q = y => q = Moves(z, y, z)
    BY DEF Moves
  <2>2. q # y => q \in L /\ q = Moves(z, y, q)
    BY DEF Moves, Exchanged
  <2> QED
    BY <2>1, <2>2
<1>5. \A n \in L \cup {NIL} : (n = z /\ Moves(z, y, n) = y) \/ (n # z /\ n # y /\ Moves(z, y, n) = n
                                                             /\ n \in TreeNodes \ {y})
  BY <1>1 DEF Moves
<1>6. \A n \in L \cup {NIL} : R.color[Moves(z, y, n)] = T.color[n]
  BY <1>5 DEF Renamed
<1>7. \A n \in L \cup {NIL} : R.parent[Moves(z, y, n)] = Moves(z, y, T.parent[n])
  BY <1>5 DEF Renamed
<1>8. \A n \in L : \A s \in Sides : R.child[s][Moves(z, y, n)] = Moves(z, y, T.child[s][n])
  BY <1>5 DEF Renamed
<1>9. \A n \in L \cup {NIL} : Moves(z, y, n) \in TreeNodes
  BY <1>2 DEF TreeNodes
<1> QED
  BY <1>2, <1>3, <1>4, <1>6, <1>7, <1>8, <1>9 DEF Alike

Carried(b, z, y) == [n \in TreeNodes |-> {Moves(z, y, m) : m \in b[Moves(y, z, n)]}]

(* y comes where z was in the order of the keys. *)
Orderly(T, L, b, z, y) ==
    \A n \in L : \A s \in Sides : \A m \in b[T.child[s][n]] : Before(s, Moves(z, y, m), Moves(z, y, n))

LEMMA RenameTied ==
    ASSUME NEW T, NEW L, NEW b, Tied(T, L, b), NEW z \in L, NEW y \in TreeKeys \ L,
           Orderly(T, L, b, z, y), NEW R, Renamed(T, R, z, y), NEW K, Exchanged(L, K, z, y)
    PROVE  Tied(R, K, Carried(b, z, y))
<1>1. /\ T \in Trees /\ L \in SUBSET TreeKeys /\ b \in [TreeNodes -> SUBSET TreeKeys]
      /\ T.root \in L \cup {NIL} /\ b[NIL] = {} /\ b[T.root] = L
      /\ \A n \in L : \A s \in Sides : T.child[s][n] \in L \cup {NIL}
  BY DEF Tied
<1>2. /\ \A n \in L : Moves(z, y, n) \in K
      /\ Moves(z, y, NIL) = NIL /\ NIL \notin K /\ K \in SUBSET TreeKeys
      /\ \A n \in L \cup {NIL} : Moves(y, z, Moves(z, y, n)) = n
      /\ \A q \in K : \E n \in L : q = Moves(z, y, n)
      /\ \A n \in L \cup {NIL} : R.parent[Moves(z, y, n)] = Moves(z, y, T.parent[n])
      /\ \A n \in L : \A s \in Sides :
           R.child[s][Moves(z, y, n)] = Moves(z, y, T.child[s][n])
      /\ \A n \in L \cup {NIL} : Moves(z, y, n) \in TreeNodes
  <2>1. Alike(T, R, L, K, z, y)
    BY <1>1, RenameLinks
  <2> QED
    BY <2>1 DEF Alike
<1>3. PICK c : c = Carried(b, z, y)
  OBVIOUS
<1>4. R \in Trees /\ R.root = Moves(z, y, T.root)
  BY DEF Renamed
<1>5. \A n \in L \cup {NIL} : c[Moves(z, y, n)] = {Moves(z, y, m) : m \in b[n]}
  BY <1>2, <1>3 DEF Carried
<1>6. \A n \in L \cup {NIL} : b[n] \subseteq L
  <2>1. \A n \in L : b[n] \subseteq L
    BY Own, Down
  <2> QED
    BY <1>1, <2>1
<1>7. c \in [TreeNodes -> SUBSET TreeKeys]
  <2> SUFFICES ASSUME NEW n \in TreeNodes, NEW m \in b[Moves(y, z, n)]
               PROVE  Moves(z, y, m) \in TreeKeys
    BY <1>3 DEF Carried
  <2>1. Moves(y, z, n) \in TreeNodes
    BY <1>1 DEF Moves, TreeNodes
  <2>2. m \in TreeKeys
    BY <1>1, <2>1
  <2> QED
    BY <2>2 DEF Moves
<1>8. R.root \in K \cup {NIL} /\ c[R.root] = K /\ c[NIL] = {}
  <2>1. c[R.root] = {Moves(z, y, m) : m \in L}
    BY <1>1, <1>4, <1>5
  <2>2. {Moves(z, y, m) : m \in L} = K
    BY <1>2
  <2>3. c[NIL] = {Moves(z, y, m) : m \in b[NIL]}
    BY <1>2, <1>5
  <2> QED
    BY <1>1, <1>2, <1>4, <2>1, <2>2, <2>3
<1>9. ASSUME NEW q \in K, NEW s \in Sides PROVE R.child[s][q] \in K \cup {NIL}
  <2>1. PICK n \in L : q = Moves(z, y, n)
    BY <1>2
  <2> QED
    BY <1>1, <1>2, <2>1
<1>10. ASSUME NEW q \in K
       PROVE  c[q] = {q} \cup c[R.child["left"][q]] \cup c[R.child["right"][q]]
  <2>1. PICK n \in L : q = Moves(z, y, n)
    BY <1>2
  <2>2. b[n] = {n} \cup b[T.child["left"][n]] \cup b[T.child["right"][n]]
    BY DEF Tied
  <2>3. ASSUME NEW s \in Sides
        PROVE  c[R.child[s][q]] = {Moves(z, y, m) : m \in b[T.child[s][n]]}
    BY <1>1, <1>2, <1>5, <2>1
  <2>4. /\ c[R.child["left"][q]] = {Moves(z, y, m) : m \in b[T.child["left"][n]]}
        /\ c[R.child["right"][q]] = {Moves(z, y, m) : m \in b[T.child["right"][n]]}
    BY <2>3 DEF Sides
  <2>5. c[q] = {Moves(z, y, m) : m \in b[n]}
    BY <1>5, <2>1
  <2> QED
    BY <2>1, <2>2, <2>4, <2>5
<1>11. ASSUME NEW q \in K, NEW s \in Sides, NEW m \in c[R.child[s][q]] PROVE Before(s, m, q)
  <2>1. PICK n \in L : q = Moves(z, y, n)
    BY <1>2
  <2>2. c[R.child[s][q]] = {Moves(z, y, j) : j \in b[T.child[s][n]]}
    BY <1>1, <1>2, <1>5, <2>1
  <2>3. PICK j \in b[T.child[s][n]] : m = Moves(z, y, j)
    BY <2>2
  <2> QED
    BY <2>1, <2>3 DEF Orderly
<1>12. ASSUME NEW q \in K, NEW s \in Sides, R.child[s][q] # NIL
       PROVE  R.parent[R.child[s][q]] = q
  <2>1. PICK n \in L : q = Moves(z, y, n)
    BY <1>2
  <2>2. R.child[s][q] = Moves(z, y, T.child[s][n]) /\ T.child[s][n] \in L \cup {NIL}
    BY <1>1, <1>2, <2>1
  <2>3. T.child[s][n] # NIL
    BY <1>2, <1>12, <2>2
  <2>4. T.parent[T.child[s][n]] = n
    BY <2>3 DEF Tied
  <2>5. R.parent[Moves(z, y, T.child[s][n])] = Moves(z, y, n)
    BY <1>2, <2>2, <2>4
  <2> QED
    BY <2>1, <2>2, <2>5
<1>13. R.root # NIL => R.parent[R.root] = NIL
  <2>1. T.root # NIL => T.parent[T.root] = NIL
    BY DEF Tied
  <2> QED
    BY <1>1, <1>2, <1>4, <2>1
<1>14. Tied(R, K, c)
  <2>1. /\ R \in Trees /\ K \in SUBSET TreeKeys /\ c \in [TreeNodes -> SUBSET TreeKeys]
        /\ R.root \in K \cup {NIL} /\ c[NIL] = {} /\ c[R.root] = K
        /\ R.root # NIL => R.parent[R.root] = NIL
    BY <1>2, <1>4, <1>7, <1>8, <1>13
  <2>2. \A q \in K : \A t \in Sides : R.child[t][q] \in K \cup {NIL}
    BY <1>9
  <2>3. \A q \in K : c[q] = {q} \cup c[R.child["left"][q]] \cup c[R.child["right"][q]]
    BY <1>10
  <2>4. \A q \in K : \A t \in Sides : \A m \in c[R.child[t][q]] : Before(t, m, q)
    BY <1>11
  <2>5. \A q \in K : \A t \in Sides : R.child[t][q] # NIL => R.parent[R.child[t][q]] = q
    BY <1>12
  <2> QED
    BY <2>1, <2>2, <2>3, <2>4, <2>5 DEF Tied
<1> QED
  BY <1>3, <1>14

HeightsCarried(h, z, y) == [n \in TreeNodes |-> h[Moves(y, z, n)]]

LEMMA RenameEven ==
    ASSUME NEW T, NEW L \in SUBSET TreeKeys, NEW z \in L, NEW y \in TreeKeys \ L,
           \A n \in L : \A s \in Sides : T.child[s][n] \in L \cup {NIL},
           NEW R, NEW K, Alike(T, R, L, K, z, y),
           NEW h, NEW p \in L \cup {NIL}, NEW q, Even(T, L, h, p, q)
    PROVE  Even(R, K, HeightsCarried(h, z, y), Moves(z, y, p), q)
<1>1. /\ h \in [TreeNodes -> Nat] /\ h[NIL] = 0
      /\ \A n \in L : \A t \in Sides : h[n] = h[T.child[t][n]] + Weight(T, n) + Owed(n, t, p, q)
  BY DEF Even
<1>2. /\ \A n \in L : Moves(z, y, n) \in K
      /\ Moves(z, y, NIL) = NIL
      /\ \A n \in L \cup {NIL} : Moves(y, z, Moves(z, y, n)) = n
      /\ \A i \in K : \E n \in L : i = Moves(z, y, n)
      /\ \A n \in L \cup {NIL} : R.color[Moves(z, y, n)] = T.color[n]
      /\ \A n \in L : \A s \in Sides :
           R.child[s][Moves(z, y, n)] = Moves(z, y, T.child[s][n])
      /\ \A n \in L \cup {NIL} : Moves(z, y, n) \in TreeNodes
  BY DEF Alike
<1>3. PICK k : k = HeightsCarried(h, z, y)
  OBVIOUS
<1>4. \A n \in TreeNodes : Moves(y, z, n) \in TreeNodes
  BY DEF Moves, TreeNodes
<1>5. k \in [TreeNodes -> Nat]
  BY <1>1, <1>3, <1>4 DEF HeightsCarried
<1>6. \A n \in L \cup {NIL} : k[Moves(z, y, n)] = h[n]
  BY <1>2, <1>3 DEF HeightsCarried
<1>7. k[NIL] = 0
  BY <1>1, <1>2, <1>6
<1>8. ASSUME NEW i \in K, NEW t \in Sides
      PROVE  k[i] = k[R.child[t][i]] + Weight(R, i) + Owed(i, t, Moves(z, y, p), q)
  <2>1. PICK n \in L : i = Moves(z, y, n)
    BY <1>2
  <2>2. k[i] = h[n] /\ k[R.child[t][i]] = h[T.child[t][n]]
    BY <1>2, <1>6, <2>1
  <2>3. Weight(R, i) = Weight(T, n)
    BY <1>2, <2>1 DEF Weight
  <2>4. i = Moves(z, y, p) <=> n = p
    BY <1>2, <2>1
  <2>5. Owed(i, t, Moves(z, y, p), q) = Owed(n, t, p, q)
    BY <2>4 DEF Owed
  <2> QED
    BY <1>1, <2>2, <2>3, <2>5
<1>9. Even(R, K, k, Moves(z, y, p), q)
  BY <1>5, <1>7, <1>8 DEF Even
<1> QED
  BY <1>3, <1>9

LEMMA RenameRest ==
    ASSUME NEW T, NEW L \in SUBSET TreeKeys, NEW M, NEW v, Rest(T, L, M, v),
           NEW z \in L, NEW y \in TreeKeys \ L, y \in M,
           NEW R, Renamed(T, R, z, y), NEW K, Exchanged(L, K, z, y)
    PROVE  Rest(R, K, M, v)
<1>1. NIL \in TreeNodes \ {y} /\ NIL # z /\ NULL # z
  BY TreeAssumption DEF TreeNodes
<1>2. K \subseteq M /\ R.value = v
  BY DEF Rest, Exchanged, Renamed
<1>3. R.color[NIL] = "BLACK" /\ \A s \in Sides : R.child[s][NIL] = NULL
  BY <1>1 DEF Rest, Renamed, Moves
<1>4. ASSUME NEW n \in TreeKeys \ M, NEW s \in Sides PROVE R.child[s][n] = NIL
  <2>1. n \in TreeNodes \ {y}
    BY DEF TreeNodes
  <2>2. T.child[s][n] = NIL
    BY DEF Rest
  <2> QED
    BY <1>1, <2>1, <2>2 DEF Renamed, Moves
<1> QED
  BY <1>2, <1>3, <1>4 DEF Rest

(* The colours of the renamed tree. *)
LEMMA RenameColors ==
    ASSUME NEW T, NEW L \in SUBSET TreeKeys, NEW z \in L, NEW y \in TreeKeys \ L,
           \A n \in L : \A s \in Sides : T.child[s][n] \in L \cup {NIL},
           T.root \in L \cup {NIL},
           NEW R, R.root = Moves(z, y, T.root), NEW K, Alike(T, R, L, K, z, y)
    PROVE  /\ R.color[R.root] = T.color[T.root]
           /\ \A i \in K : \E n \in L :
                /\ i = Moves(z, y, n) /\ R.color[i] = T.color[n]
                /\ \A t \in Sides : /\ R.color[R.child[t][i]] = T.color[T.child[t][n]]
                                    /\ R.child[t][i] = Moves(z, y, T.child[t][n])
<1>1. R.color[R.root] = T.color[T.root]
  BY DEF Alike
<1>2. ASSUME NEW i \in K
      PROVE  \E n \in L :
                /\ i = Moves(z, y, n) /\ R.color[i] = T.color[n]
                /\ \A t \in Sides : /\ R.color[R.child[t][i]] = T.color[T.child[t][n]]
                                    /\ R.child[t][i] = Moves(z, y, T.child[t][n])
  <2>1. PICK n \in L : i = Moves(z, y, n)
    BY DEF Alike
  <2>2. R.color[i] = T.color[n]
    BY <2>1 DEF Alike
  <2>3. ASSUME NEW t \in Sides
        PROVE  /\ R.color[R.child[t][i]] = T.color[T.child[t][n]]
               /\ R.child[t][i] = Moves(z, y, T.child[t][n])
    <3>1. R.child[t][i] = Moves(z, y, T.child[t][n]) /\ T.child[t][n] \in L \cup {NIL}
      BY <2>1 DEF Alike
    <3> QED
      BY <3>1 DEF Alike
  <2> QED
    BY <2>1, <2>2, <2>3
<1> QED
  BY <1>1, <1>2

LEMMA RenameBalanced ==
    ASSUME NEW T, NEW L, NEW M, NEW v, NEW b, NEW h, Balanced(T, L, M, v, b, h),
           NEW z \in L, NEW y \in TreeKeys \ L, y \in M, Orderly(T, L, b, z, y),
           NEW R, Renamed(T, R, z, y), NEW K, Exchanged(L, K, z, y)
    PROVE  Balanced(R, K, M, v, Carried(b, z, y), HeightsCarried(h, z, y))
<1>1. /\ Tied(T, L, b) /\ Even(T, L, h, NIL, "left") /\ Rest(T, L, M, v)
      /\ \A n \in L : T.color[n] = "RED" => \A t \in Sides : T.color[T.child[t][n]] = "BLACK"
      /\ T.color[T.root] = "BLACK" /\ L \in SUBSET TreeKeys
      /\ \A n \in L : \A s \in Sides : T.child[s][n] \in L \cup {NIL}
      /\ T.root \in L \cup {NIL}
  BY DEF Balanced, Tied
<1>2. R.root = Moves(z, y, T.root)
  BY DEF Renamed
<1>3. Alike(T, R, L, K, z, y)
  BY <1>1, RenameLinks
<1>4. Tied(R, K, Carried(b, z, y)) /\ Rest(R, K, M, v)
  BY <1>1, RenameTied, RenameRest
<1>5. Even(R, K, HeightsCarried(h, z, y), NIL, "left")
  <2>1. Moves(z, y, NIL) = NIL
    BY <1>3 DEF Alike
  <2>2. Even(R, K, HeightsCarried(h, z, y), Moves(z, y, NIL), "left")
    BY <1>1, <1>3, RenameEven
  <2> QED
    BY <2>1, <2>2
<1>6. /\ R.color[R.root] = T.color[T.root]
      /\ \A i \in K : \E n \in L :
           /\ i = Moves(z, y, n) /\ R.color[i] = T.color[n]
           /\ \A t \in Sides : /\ R.color[R.child[t][i]] = T.color[T.child[t][n]]
                               /\ R.child[t][i] = Moves(z, y, T.child[t][n])
  BY <1>1, <1>2, <1>3, RenameColors
<1>7. \A n \in K : R.color[n] = "RED" => \A t \in Sides : R.color[R.child[t][n]] = "BLACK"
  BY <1>1, <1>6
<1>8. R.color[R.root] = "BLACK"
  BY <1>1, <1>6
<1> QED
  BY <1>4, <1>5, <1>7, <1>8 DEF Balanced

LEMMA RenameSinks ==
    ASSUME NEW T, NEW L, NEW M, NEW v, NEW b, NEW h, NEW x, Sinking(T, L, M, v, b, h, x),
           NEW z \in L, x # z, NEW y \in TreeKeys \ L, y \in M, Orderly(T, L, b, z, y),
           NEW R, Renamed(T, R, z, y), NEW K, Exchanged(L, K, z, y)
    PROVE  Sinking(R, K, M, v, Carried(b, z, y), HeightsCarried(h, z, y), x)
<1>1. /\ Tied(T, L, b) /\ Rest(T, L, M, v) /\ x \in L \cup {NIL}
      /\ \A n \in L : n # x /\ T.color[n] = "RED" =>
           \A t \in Sides : T.child[t][n] # x => T.color[T.child[t][n]] = "BLACK"
      /\ T.root # x => T.color[T.root] = "BLACK"
      /\ L \in SUBSET TreeKeys
      /\ \A n \in L : \A s \in Sides : T.child[s][n] \in L \cup {NIL}
      /\ T.root \in L \cup {NIL}
  BY DEF Sinking, Tied
<1>2. R.root = Moves(z, y, T.root)
  BY DEF Renamed
<1>3. Alike(T, R, L, K, z, y)
  BY <1>1, RenameLinks
<1>4. Tied(R, K, Carried(b, z, y)) /\ Rest(R, K, M, v)
  BY <1>1, RenameTied, RenameRest
<1>5. Moves(z, y, x) = x
  BY DEF Moves
<1>6. \A n \in L \cup {NIL} : Moves(z, y, n) = x <=> n = x
  <2>1. \A n \in L \cup {NIL} : Moves(y, z, Moves(z, y, n)) = n
    BY <1>3 DEF Alike
  <2> QED
    BY <1>1, <1>5, <2>1
<1>7. x \in K \cup {NIL}
  <2>1. x \in L => Moves(z, y, x) \in K
    BY <1>3 DEF Alike
  <2> QED
    BY <1>1, <1>5, <2>1
<1>8. \/ x = R.root /\ Even(R, K, HeightsCarried(h, z, y), NIL, "left")
      \/ \E p \in K : \E s \in Sides :
           /\ R.parent[x] = p /\ SideOf(R, x) = s /\ R.child[s][p] = x
           /\ Even(R, K, HeightsCarried(h, z, y), p, s)
  <2>1. CASE x = T.root /\ Even(T, L, h, NIL, "left")
    <3>1. Moves(z, y, NIL) = NIL
      BY <1>3 DEF Alike
    <3>2. Even(R, K, HeightsCarried(h, z, y), Moves(z, y, NIL), "left")
      BY <1>1, <1>3, <2>1, RenameEven
    <3> QED
      BY <1>2, <1>5, <2>1, <3>1, <3>2
  <2>2. ASSUME NEW p \in L, NEW s \in Sides,
               T.parent[x] = p, SideOf(T, x) = s, T.child[s][p] = x, Even(T, L, h, p, s)
        PROVE  \E i \in K : \E t \in Sides :
                 /\ R.parent[x] = i /\ SideOf(R, x) = t /\ R.child[t][i] = x
                 /\ Even(R, K, HeightsCarried(h, z, y), i, t)
    <3>1. PICK i : i = Moves(z, y, p)
      OBVIOUS
    <3>2. i \in K /\ \A t \in Sides : R.child[t][i] = Moves(z, y, T.child[t][p])
      BY <1>3, <3>1 DEF Alike
    <3>3. R.parent[x] = i
      <4>1. R.parent[Moves(z, y, x)] = Moves(z, y, T.parent[x])
        BY <1>1, <1>3 DEF Alike
      <4> QED
        BY <1>5, <2>2, <3>1, <4>1
    <3>4. \A t \in Sides : R.child[t][i] = x <=> T.child[t][p] = x
      BY <1>1, <1>6, <3>2
    <3>5. SideOf(R, x) = s
      BY <2>2, <3>3, <3>4 DEF SideOf, Sides
    <3>6. Even(R, K, HeightsCarried(h, z, y), i, s)
      BY <1>1, <1>3, <2>2, <3>1, RenameEven
    <3> QED
      BY <2>2, <3>2, <3>3, <3>4, <3>5, <3>6
  <2> QED
    BY <2>1, <2>2 DEF Sinking
<1>9. /\ R.color[R.root] = T.color[T.root]
      /\ \A i \in K : \E n \in L :
           /\ i = Moves(z, y, n) /\ R.color[i] = T.color[n]
           /\ \A t \in Sides : /\ R.color[R.child[t][i]] = T.color[T.child[t][n]]
                               /\ R.child[t][i] = Moves(z, y, T.child[t][n])
  <2>1. /\ L \in SUBSET TreeKeys /\ T.root \in L \cup {NIL}
        /\ \A n \in L : \A s \in Sides : T.child[s][n] \in L \cup {NIL}
    BY <1>1
  <2> QED
    BY <1>2, <1>3, <2>1, RenameColors
<1>10. ASSUME NEW i \in K, i # x, R.color[i] = "RED", NEW t \in Sides, R.child[t][i] # x
       PROVE  R.color[R.child[t][i]] = "BLACK"
  <2>1. PICK n \in L :
           /\ i = Moves(z, y, n) /\ R.color[i] = T.color[n]
           /\ R.color[R.child[t][i]] = T.color[T.child[t][n]]
           /\ R.child[t][i] = Moves(z, y, T.child[t][n])
    BY <1>9
  <2>2. n # x /\ T.child[t][n] # x
    BY <1>5, <1>10, <2>1
  <2> QED
    BY <1>1, <1>10, <2>1, <2>2
<1>11. R.root # x => R.color[R.root] = "BLACK"
  BY <1>1, <1>2, <1>5, <1>9
<1> QED
  BY <1>4, <1>7, <1>8, <1>10, <1>11 DEF Sinking

-----------------------------------------------------------------------------
(* rbtree_delete, whole: choose, unlink, rename, repair, free.               *)

LEMMA FreeBalanced ==
    ASSUME NEW T, NEW L, NEW M, NEW v, NEW b, NEW h, Balanced(T, L, M, v, b, h),
           NEW z \in TreeKeys \ L, M \ {z} = L
    PROVE  Balanced(Free(T, z), L, L, [v EXCEPT ![z] = NULL], b, h)
<1>1. /\ Tied(T, L, b) /\ Even(T, L, h, NIL, "left") /\ Rest(T, L, M, v)
      /\ \A n \in L : T.color[n] = "RED" => \A t \in Sides : T.color[T.child[t][n]] = "BLACK"
      /\ T.color[T.root] = "BLACK"
  BY DEF Balanced
<1>2. /\ T \in Trees /\ L \in SUBSET TreeKeys /\ z \in TreeNodes /\ NIL \in TreeNodes /\ NIL # z
      /\ T.root \in L \cup {NIL}
  BY <1>1, TreeAssumption DEF Tied, TreeNodes
<1>3. PICK R : R = Free(T, z)
  OBVIOUS
<1>4. /\ R.root = T.root
      /\ R.child = [T.child EXCEPT !["left"][z] = NIL, !["right"][z] = NIL]
      /\ R.parent = [T.parent EXCEPT ![z] = NIL, ![NIL] = NIL]
      /\ R.color = [T.color EXCEPT ![z] = "BLACK"]
      /\ R.value = [T.value EXCEPT ![z] = NULL]
  BY <1>2, <1>3 DEF Free, Trees
<1>5. R \in Trees
  BY <1>2, <1>3, ZenonT(30) DEF Free, Trees, Sides
<1>6. /\ \A n \in TreeNodes \ {z} : \A s \in Sides : R.child[s][n] = T.child[s][n]
      /\ \A n \in TreeNodes \ {z} : R.color[n] = T.color[n]
      /\ \A n \in TreeNodes \ {z, NIL} : R.parent[n] = T.parent[n]
      /\ \A s \in Sides : R.child[s][z] = NIL
  BY <1>2, <1>4 DEF Trees, Sides
<1>7. \A n \in L : n \in TreeNodes \ {z} /\ n \in TreeNodes \ {z, NIL}
  BY <1>2, TreeAssumption DEF TreeNodes
<1>8. Tied(R, L, b)
  <2>1. \A n \in L : \A s \in Sides : R.child[s][n] = T.child[s][n]
    BY <1>6, <1>7
  <2>2. \A n \in L : R.parent[n] = T.parent[n]
    BY <1>6, <1>7
  <2>3. /\ b \in [TreeNodes -> SUBSET TreeKeys] /\ b[NIL] = {} /\ b[R.root] = L
        /\ R.root \in L \cup {NIL}
    BY <1>1, <1>4 DEF Tied
  <2>4. \A n \in L : \A s \in Sides : T.child[s][n] \in L \cup {NIL}
    BY <1>1 DEF Tied
  <2>5. \A n \in L : b[n] = {n} \cup b[R.child["left"][n]] \cup b[R.child["right"][n]]
    BY <1>1, <2>1 DEF Tied, Sides
  <2>6. \A n \in L : \A s \in Sides : \A m \in b[R.child[s][n]] : Before(s, m, n)
    BY <1>1, <2>1 DEF Tied
  <2>7. \A n \in L : \A s \in Sides : R.child[s][n] # NIL => R.parent[R.child[s][n]] = n
    BY <1>1, <2>1, <2>2, <2>4 DEF Tied
  <2>8. R.root # NIL => R.parent[R.root] = NIL
    BY <1>1, <1>4, <2>2, <2>3 DEF Tied
  <2> QED
    BY <1>2, <1>5, <2>1, <2>3, <2>4, <2>5, <2>6, <2>7, <2>8 DEF Tied
<1>9. /\ h \in [TreeNodes -> Nat] /\ h[NIL] = 0
      /\ \A n \in L : \A t \in Sides : h[n] = h[T.child[t][n]] + Weight(T, n) + Owed(n, t, NIL, "left")
  BY <1>1 DEF Even
<1>10. Even(R, L, h, NIL, "left")
  <2> SUFFICES ASSUME NEW n \in L, NEW t \in Sides
               PROVE  h[n] = h[R.child[t][n]] + Weight(R, n) + Owed(n, t, NIL, "left")
    BY <1>9 DEF Even
  <2>1. Weight(R, n) = Weight(T, n) /\ R.child[t][n] = T.child[t][n]
    BY <1>6, <1>7 DEF Weight
  <2> QED
    BY <1>9, <2>1
<1>11. Rest(R, L, L, [v EXCEPT ![z] = NULL])
  <2>1. R.value = [v EXCEPT ![z] = NULL]
    BY <1>1, <1>4 DEF Rest
  <2>2. R.color[NIL] = "BLACK" /\ \A s \in Sides : R.child[s][NIL] = NULL
    BY <1>1, <1>2, <1>6 DEF Rest
  <2>3. ASSUME NEW n \in TreeKeys \ L, NEW s \in Sides PROVE R.child[s][n] = NIL
    <3>1. CASE n = z
      BY <1>6, <3>1
    <3>2. CASE n # z
      <4>1. n \in TreeNodes \ {z} /\ n \in TreeKeys \ M
        BY <3>2 DEF TreeNodes
      <4>2. T.child[s][n] = NIL
        BY <1>1, <4>1 DEF Rest
      <4> QED
        BY <1>6, <4>1, <4>2
    <3> QED
      BY <3>1, <3>2
  <2> QED
    BY <2>1, <2>2, <2>3 DEF Rest
<1>12. ASSUME NEW n \in L, R.color[n] = "RED", NEW t \in Sides
       PROVE  R.color[R.child[t][n]] = "BLACK"
  <2>1. R.child[t][n] = T.child[t][n] /\ T.color[n] = "RED"
    BY <1>6, <1>7, <1>12
  <2>2. T.child[t][n] \in TreeNodes \ {z}
    <3>1. T.child[t][n] \in L \cup {NIL}
      BY <1>1 DEF Tied
    <3> QED
      BY <1>2, <1>7, <3>1
  <2> QED
    BY <1>1, <1>6, <2>1, <2>2
<1>13. R.color[R.root] = "BLACK"
  <2>1. T.root \in TreeNodes \ {z}
    BY <1>2, <1>7
  <2> QED
    BY <1>1, <1>4, <1>6, <2>1
<1>14. Balanced(R, L, L, [v EXCEPT ![z] = NULL], b, h)
  BY <1>8, <1>10, <1>11, <1>12, <1>13 DEF Balanced
<1> QED
  BY <1>3, <1>14

(* The node to unlink: z itself, or the next key. *)
Chosen(T, z, y, x) ==
    /\ y = IF NIL \in {T.child[s][z] : s \in Sides} THEN z
           ELSE rbtree_mini(T, T.child["right"][z])
    /\ x = IF T.child["left"][y] # NIL THEN T.child["left"][y] ELSE T.child["right"][y]

LEMMA ChosenFits ==
    ASSUME NEW T, NEW L, NEW b, Tied(T, L, b), NEW v, Rest(T, L, L, v), NEW z \in L,
           NEW y, NEW x, Chosen(T, z, y, x)
    PROVE  /\ y \in L /\ OnlyChild(T, y, x) /\ x # z
           /\ y # z => /\ y \in b[T.child["right"][z]]
                       /\ \A m \in b[T.child["right"][z]] : m = y \/ m > y
<1>0. "left" \in Sides /\ "right" \in Sides /\ Other("left") = "right" /\ Other("right") = "left"
  BY DEF Sides, Other
<1>1. x = IF T.child["left"][y] # NIL THEN T.child["left"][y] ELSE T.child["right"][y]
  BY DEF Chosen
<1>2. CASE NIL \in {T.child[s][z] : s \in Sides}
  <2>1. y = z
    BY <1>2 DEF Chosen
  <2>2. T.child["left"][z] = NIL \/ T.child["right"][z] = NIL
    BY <1>2 DEF Sides
  <2>3. OnlyChild(T, y, x)
    BY <1>0, <1>1, <2>1, <2>2 DEF OnlyChild
  <2> QED
    BY <2>1, <2>3, OnlyBelow
<1>3. CASE NIL \notin {T.child[s][z] : s \in Sides}
  <2> DEFINE r == T.child["right"][z]
  <2>1. r \in L
    <3>1. r # NIL
      BY <1>0, <1>3
    <3>2. r \in L \cup {NIL}
      BY <1>0 DEF Tied
    <3> QED
      BY <3>1, <3>2
  <2>2. y = rbtree_mini(T, r)
    BY <1>3 DEF Chosen
  <2>3. z \notin b[r]
    BY <1>0, Own
  <2> HIDE DEF r
  <2>4. /\ y \in b[r] /\ y \in L /\ T.child["left"][y] = NIL
        /\ \A m \in b[r] : m = y \/ m > y
    BY <2>1, <2>2, MiniFinds
  <2>5. OnlyChild(T, y, x)
    BY <1>0, <1>1, <2>4 DEF OnlyChild
  <2>6. x # z
    <3>1. x \in L \cup {NIL} /\ b[y] = {y} \cup b[x]
      BY <2>4, <2>5, OnlyBelow
    <3>2. x \in L => x \in b[x]
      BY Own
    <3>3. b[y] \subseteq b[r]
      BY <2>1, <2>4, Down
    <3>4. z # NIL
      BY Own
    <3> QED
      BY <2>3, <3>1, <3>2, <3>3, <3>4
  <2> QED
    BY <2>4, <2>5, <2>6 DEF r
<1> QED
  BY <1>2, <1>3

(* The next key fits where z was, once it is unlinked. *)
LEMMA NextFits ==
    ASSUME NEW T, NEW L, NEW b, Tied(T, L, b), NEW z \in L, NEW y \in L, y # z,
           y \in b[T.child["right"][z]], \A m \in b[T.child["right"][z]] : m = y \/ m > y,
           NEW x, OnlyChild(T, y, x), NEW R, Unlinked(T, R, L, y, x)
    PROVE  Orderly(R, L \ {y}, Without(b, y), z, y)
<1> SUFFICES ASSUME NEW n \in L \ {y}, NEW s \in Sides, NEW m \in Without(b, y)[R.child[s][n]]
             PROVE  Before(s, Moves(z, y, m), Moves(z, y, n))
  BY DEF Orderly
<1>0. "left" \in Sides /\ "right" \in Sides
  BY DEF Sides
<1>1. m \in b[T.child[s][n]] /\ m # y
  <2>1. R.child[s][n] = IF T.child[s][n] = y THEN x ELSE T.child[s][n]
    BY DEF Unlinked, PointsTo
  <2>2. x \in TreeNodes /\ b[y] = {y} \cup b[x]
    BY OnlyBelow
  <2>3. T.child[s][n] \in TreeNodes
    BY DEF Tied, TreeNodes
  <2> QED
    BY <2>1, <2>2, <2>3 DEF Without
<1>2. Before(s, m, n) /\ n \in Int /\ z \in Int /\ y \in Int /\ m \in Int
  <2>1. b[T.child[s][n]] \subseteq b[n] /\ b[n] \in SUBSET TreeKeys
    BY Own
  <2>2. m \in Int
    BY <1>1, <2>1, TreeAssumption
  <2>3. \A q \in b[T.child[s][n]] : Before(s, q, n)
    BY Own
  <2> QED
    BY <1>1, <2>2, <2>3, Own
<1>3. CASE m = z
  <2>1. n # z
    BY <1>2, <1>3 DEF Before
  <2>2. T.child[s][n] \in L
    BY <1>1, Own
  <2>3. b[z] \subseteq b[T.child[s][n]]
    BY <1>1, <1>3, <2>2, Down
  <2>4. y \in b[z]
    BY <1>0, Own
  <2>5. Before(s, y, n)
    <3>1. \A q \in b[T.child[s][n]] : Before(s, q, n)
      BY Own
    <3> QED
      BY <2>3, <2>4, <3>1
  <2> QED
    BY <1>3, <2>1, <2>5 DEF Moves
<1>4. CASE m # z /\ n = z
  <2>1. Before("right", y, z)
    BY <1>0, Own
  <2>2. Before(s, m, y)
    <3>1. CASE s = "left"
      BY <1>2, <1>4, <2>1, <3>1 DEF Before
    <3>2. CASE s = "right"
      BY <1>1, <1>2, <1>4, <3>2 DEF Before
    <3> QED
      BY <3>1, <3>2 DEF Sides
  <2> QED
    BY <1>4, <2>2 DEF Moves
<1>5. CASE m # z /\ n # z
  BY <1>2, <1>5 DEF Moves
<1> QED
  BY <1>3, <1>4, <1>5

(* rbtree_delete takes the key from a red-black tree that has it. *)
LEMMA DeleteBalances ==
    ASSUME NEW T, NEW L, NEW v, NEW b, NEW h, Balanced(T, L, L, v, b, h), NEW z \in L
    PROVE  \E bb, hh : Balanced(rbtree_delete(T, z), L \ {z}, L \ {z},
                                [v EXCEPT ![z] = NULL], bb, hh)
<1>1. Tied(T, L, b) /\ Rest(T, L, L, v) /\ T \in Trees /\ L \in SUBSET TreeKeys
  BY DEF Balanced, Tied
<1>2. PICK y, x : Chosen(T, z, y, x)
  BY DEF Chosen
<1>3. /\ y \in L /\ OnlyChild(T, y, x) /\ x # z
      /\ y # z => /\ y \in b[T.child["right"][z]]
                  /\ \A m \in b[T.child["right"][z]] : m = y \/ m > y
  BY <1>1, <1>2, ChosenFits
<1>4. PICK U : U = [Replace(T, y, x) EXCEPT !.parent[x] = T.parent[y]]
  OBVIOUS
<1>5. Unlinked(T, U, L, y, x)
  <2>1. x \in TreeNodes
    BY <1>1, <1>3, OnlyBelow
  <2> QED
    BY <1>1, <1>3, <1>4, <2>1, UnlinkFields
<1>6. PICK S : S = IF y = z THEN U ELSE Rename(U, z, y)
  OBVIOUS
<1>7. rbtree_delete(T, z) = Free(IF T.color[y] = "BLACK" THEN DeleteFixup(S, x) ELSE S, z)
  <2>1. /\ y = IF NIL \in {T.child[s][z] : s \in Sides} THEN z
               ELSE rbtree_mini(T, T.child["right"][z])
        /\ x = IF T.child["left"][y] # NIL THEN T.child["left"][y] ELSE T.child["right"][y]
    BY <1>2 DEF Chosen
  <2> QED
    BY <1>4, <1>6, <2>1, Zenon DEF rbtree_delete
<1>8. PICK K : K = L \ {z}
  OBVIOUS
<1>9. U \in Trees /\ K \in SUBSET TreeKeys /\ K # TreeKeys
  BY <1>1, <1>5, <1>8 DEF Unlinked, SameButLinks
<1>10. y # z => /\ Orderly(U, L \ {y}, Without(b, y), z, y)
                /\ Renamed(U, S, z, y) /\ Exchanged(L \ {y}, K, z, y)
  <2> SUFFICES ASSUME y # z
               PROVE  /\ Orderly(U, L \ {y}, Without(b, y), z, y)
                      /\ Renamed(U, S, z, y) /\ Exchanged(L \ {y}, K, z, y)
    OBVIOUS
  <2>1. Orderly(U, L \ {y}, Without(b, y), z, y)
    BY <1>1, <1>3, <1>5, NextFits
  <2>2. Renamed(U, S, z, y)
    <3>1. z \in TreeKeys /\ y \in TreeKeys
      BY <1>1, <1>3
    <3> QED
      BY <1>6, <1>9, <3>1, RenameFields
  <2>3. Exchanged(L \ {y}, K, z, y)
    BY <1>3, <1>8 DEF Exchanged
  <2> QED
    BY <2>1, <2>2, <2>3
<1>11. z \in L \ {y} \/ y = z
  OBVIOUS
<1>12. y \in TreeKeys \ (L \ {y}) /\ y \in L
  BY <1>1, <1>3
<1>13. PICK F : F = IF T.color[y] = "BLACK" THEN DeleteFixup(S, x) ELSE S
  OBVIOUS
<1>14. \E bb, hh : Balanced(F, K, L, v, bb, hh)
  <2>1. CASE T.color[y] = "BLACK"
    <3>1. PICK J, c : J = L \ {y} /\ c = Without(b, y)
      OBVIOUS
    <3>2. Sinking(U, J, L, v, c, h, x)
      BY <1>3, <1>5, <2>1, <3>1, UnlinkBlack
    <3>3. \E bb, hh : Sinking(S, K, L, v, bb, hh, x)
      <4>1. CASE y = z
        BY <1>6, <1>8, <3>1, <3>2, <4>1
      <4>2. CASE y # z
        <5>1. Orderly(U, J, c, z, y) /\ Renamed(U, S, z, y) /\ Exchanged(J, K, z, y)
          BY <1>10, <3>1, <4>2
        <5>2. z \in J /\ y \in TreeKeys \ J
          BY <1>12, <3>1, <4>2
        <5> QED
          BY <1>3, <3>2, <5>1, <5>2, RenameSinks
      <4> QED
        BY <4>1, <4>2
    <3>4. PICK bb, hh : Sinking(S, K, L, v, bb, hh, x)
      BY <3>3
    <3>5. F = DeleteFixup(S, x)
      BY <1>13, <2>1
    <3> QED
      BY <1>9, <3>4, <3>5, DeleteFixupBalances
  <2>2. CASE T.color[y] # "BLACK"
    <3>1. PICK J, c : J = L \ {y} /\ c = Without(b, y)
      OBVIOUS
    <3>2. Balanced(U, J, L, v, c, h)
      BY <1>3, <1>5, <2>2, <3>1, UnlinkRed
    <3>3. F = S
      BY <1>13, <2>2
    <3>4. CASE y = z
      BY <1>6, <1>8, <3>1, <3>2, <3>3, <3>4
    <3>5. CASE y # z
      <4>1. Orderly(U, J, c, z, y) /\ Renamed(U, S, z, y) /\ Exchanged(J, K, z, y)
        BY <1>10, <3>1, <3>5
      <4>2. z \in J /\ y \in TreeKeys \ J
        BY <1>12, <3>1, <3>5
      <4> QED
        BY <1>3, <3>2, <3>3, <4>1, <4>2, RenameBalanced
    <3> QED
      BY <3>4, <3>5
  <2> QED
    BY <2>1, <2>2
<1>15. PICK bb, hh : Balanced(F, K, L, v, bb, hh)
  BY <1>14
<1>16. Balanced(Free(F, z), K, K, [v EXCEPT ![z] = NULL], bb, hh)
  <2>1. z \in TreeKeys \ K /\ L \ {z} = K
    BY <1>1, <1>8
  <2> QED
    BY <1>15, <2>1, FreeBalanced
<1> QED
  BY <1>7, <1>8, <1>13, <1>16

-----------------------------------------------------------------------------
(* Below and BlackHeight are the b and the h of a red-black tree.           *)

BelowIn(T, n) ==
    LET set[m \in TreeNodes] ==
            IF m = NIL THEN {}
            ELSE {m} \cup set[T.child["left"][m]] \cup set[T.child["right"][m]]
    IN set[n]

HeightIn(T, n) ==
    LET height[m \in TreeNodes] ==
            IF m = NIL THEN 0
            ELSE height[T.child["left"][m]] + (IF T.color[m] = "BLACK" THEN 1 ELSE 0)
    IN height[n]

LEMMA BelowIs ==
    ASSUME NEW T, NEW L, NEW b, Tied(T, L, b), NEW v, Rest(T, L, L, v), NEW n \in L \cup {NIL}
    PROVE  BelowIn(T, n) = b[n]
<1> DEFINE Fills(f) == f = [m \in TreeNodes |->
                              IF m = NIL THEN {}
                              ELSE {m} \cup f[T.child["left"][m]] \cup f[T.child["right"][m]]]
           set == CHOOSE f : Fills(f)
           g == [m \in TreeNodes |-> IF m \in L \cup {NIL} THEN b[m] ELSE {m}]
<1>1. BelowIn(T, n) = set[n]
  BY DEF BelowIn
<1>2. /\ NIL \in TreeNodes /\ L \subseteq TreeNodes /\ NIL \notin L /\ b[NIL] = {}
      /\ \A m \in L : \A s \in Sides : T.child[s][m] \in L \cup {NIL}
  BY TreeAssumption DEF Tied, TreeNodes
<1>3. ASSUME NEW m \in TreeNodes
      PROVE  g[m] = IF m = NIL THEN {}
                    ELSE {m} \cup g[T.child["left"][m]] \cup g[T.child["right"][m]]
  <2>1. \A q \in L \cup {NIL} : g[q] = b[q]
    BY <1>2
  <2>2. \A q \in TreeNodes \ (L \cup {NIL}) : g[q] = {q}
    OBVIOUS
  <2> HIDE DEF g
  <2>3. CASE m \in L
    <3>1. T.child["left"][m] \in L \cup {NIL} /\ T.child["right"][m] \in L \cup {NIL}
      BY <1>2, <2>3 DEF Sides
    <3>2. b[m] = {m} \cup b[T.child["left"][m]] \cup b[T.child["right"][m]]
      BY <2>3 DEF Tied
    <3> QED
      BY <1>2, <2>1, <2>3, <3>1, <3>2
  <2>4. CASE m = NIL
    BY <1>2, <2>1, <2>4
  <2>5. CASE m \notin L \cup {NIL}
    <3>1. T.child["left"][m] = NIL /\ T.child["right"][m] = NIL
      BY <2>5 DEF Rest, TreeNodes, Sides
    <3> QED
      BY <1>2, <2>1, <2>2, <2>5, <3>1
  <2> QED
    BY <2>3, <2>4, <2>5
<1>4. Fills(g)
  <2>1. g = [m \in TreeNodes |-> g[m]]
    OBVIOUS
  <2> HIDE DEF g
  <2> QED
    BY <1>3, <2>1
<1>5. Fills(set)
  <2> HIDE DEF Fills
  <2> QED
    BY <1>4
<1> HIDE DEF set, g
<1>6. \A m \in TreeNodes : set[m] = IF m = NIL THEN {}
                                   ELSE {m} \cup set[T.child["left"][m]] \cup set[T.child["right"][m]]
  BY <1>5, Zenon
<1> HIDE DEF Fills
<1>7. set[NIL] = b[NIL]
  BY <1>2, <1>6
<1> DEFINE Bad == {m \in L : set[m] # b[m]}
<1>8. Bad = {}
  <2> SUFFICES ASSUME Bad # {} PROVE FALSE
    OBVIOUS
  <2>1. PICK m \in Bad : \A s \in Sides : T.child[s][m] \notin Bad
    <3>1. Bad \in SUBSET L
      OBVIOUS
    <3> HIDE DEF Bad
    <3> QED
      BY <3>1, Lowest
  <2>2. \A s \in Sides : set[T.child[s][m]] = b[T.child[s][m]]
    BY <1>2, <1>7, <2>1
  <2>3. b[m] = {m} \cup b[T.child["left"][m]] \cup b[T.child["right"][m]]
    BY DEF Tied
  <2>4. set[m] = {m} \cup set[T.child["left"][m]] \cup set[T.child["right"][m]]
    BY <1>2, <1>6
  <2> QED
    BY <2>2, <2>3, <2>4 DEF Sides
<1> QED
  BY <1>1, <1>7, <1>8

LEMMA HeightIs ==
    ASSUME NEW T, NEW L, NEW b, Tied(T, L, b), NEW h, Even(T, L, h, NIL, "left"),
           NEW v, Rest(T, L, L, v), NEW n \in L \cup {NIL}
    PROVE  HeightIn(T, n) = h[n]
<1> DEFINE Fills(f) == f = [m \in TreeNodes |->
                              IF m = NIL THEN 0
                              ELSE f[T.child["left"][m]] + (IF T.color[m] = "BLACK" THEN 1 ELSE 0)]
           height == CHOOSE f : Fills(f)
           g == [m \in TreeNodes |-> IF m \in L \cup {NIL} THEN h[m] ELSE Weight(T, m)]
<1>1. HeightIn(T, n) = height[n]
  BY DEF HeightIn
<1>2. /\ NIL \in TreeNodes /\ L \subseteq TreeNodes /\ NIL \notin L /\ h[NIL] = 0
      /\ \A m \in L : \A s \in Sides : T.child[s][m] \in L \cup {NIL}
      /\ "left" \in Sides
  BY TreeAssumption DEF Tied, TreeNodes, Even, Sides
<1>3. \A m \in L : h[m] = h[T.child["left"][m]] + Weight(T, m)
  BY <1>2, Level
<1>4. ASSUME NEW m \in TreeNodes
      PROVE  g[m] = IF m = NIL THEN 0
                    ELSE g[T.child["left"][m]] + (IF T.color[m] = "BLACK" THEN 1 ELSE 0)
  <2>1. \A q \in L \cup {NIL} : g[q] = h[q]
    BY <1>2
  <2>2. \A q \in TreeNodes \ (L \cup {NIL}) : g[q] = Weight(T, q)
    OBVIOUS
  <2> HIDE DEF g
  <2>3. CASE m \in L
    <3>1. T.child["left"][m] \in L \cup {NIL}
      BY <1>2, <2>3
    <3> QED
      BY <1>2, <1>3, <2>1, <2>3, <3>1 DEF Weight
  <2>4. CASE m = NIL
    BY <1>2, <2>1, <2>4
  <2>5. CASE m \notin L \cup {NIL}
    <3>1. T.child["left"][m] = NIL
      BY <2>5 DEF Rest, TreeNodes, Sides
    <3>2. g[NIL] = 0
      BY <1>2, <2>1
    <3> QED
      BY <2>2, <2>5, <3>1, <3>2 DEF Weight
  <2> QED
    BY <2>3, <2>4, <2>5
<1>5. Fills(g)
  <2>1. g = [m \in TreeNodes |-> g[m]]
    OBVIOUS
  <2> HIDE DEF g
  <2> QED
    BY <1>4, <2>1
<1>6. Fills(height)
  <2> HIDE DEF Fills
  <2> QED
    BY <1>5
<1> HIDE DEF height, g
<1>7. \A m \in TreeNodes : height[m] = IF m = NIL THEN 0
                                      ELSE height[T.child["left"][m]] + Weight(T, m)
  BY <1>6 DEF Weight
<1> HIDE DEF Fills
<1>8. height[NIL] = h[NIL]
  BY <1>2, <1>7
<1> DEFINE Bad == {m \in L : height[m] # h[m]}
<1>9. Bad = {}
  <2> SUFFICES ASSUME Bad # {} PROVE FALSE
    OBVIOUS
  <2>1. PICK m \in Bad : \A s \in Sides : T.child[s][m] \notin Bad
    <3>1. Bad \in SUBSET L
      OBVIOUS
    <3> HIDE DEF Bad
    <3> QED
      BY <3>1, Lowest
  <2>2. height[T.child["left"][m]] = h[T.child["left"][m]]
    BY <1>2, <1>8, <2>1
  <2>3. h[m] = h[T.child["left"][m]] + Weight(T, m)
    BY <1>3
  <2>4. height[m] = height[T.child["left"][m]] + Weight(T, m)
    BY <1>2, <1>7
  <2> QED
    BY <2>2, <2>3, <2>4
<1> QED
  BY <1>1, <1>8, <1>9

(* kvs_rbtree_mod changes a value and no link. *)
LEMMA ValueBalances ==
    ASSUME NEW T, NEW L, NEW v, NEW b, NEW h, Balanced(T, L, L, v, b, h),
           NEW k \in L, NEW val \in Values \cup {NULL}
    PROVE  Balanced([T EXCEPT !.value[k] = val], L, L, [v EXCEPT ![k] = val], b, h)
<1>1. Tied(T, L, b) /\ Even(T, L, h, NIL, "left") /\ Rest(T, L, L, v) /\ T \in Trees /\ k \in TreeKeys
  BY DEF Balanced, Tied
<1>2. PICK R : R = [T EXCEPT !.value[k] = val]
  OBVIOUS
<1>3. /\ R \in Trees /\ R.root = T.root /\ R.child = T.child /\ R.parent = T.parent
      /\ R.color = T.color /\ R.value = [T.value EXCEPT ![k] = val]
  BY <1>1, <1>2 DEF Trees
<1>4. Tied(R, L, b)
  BY <1>1, <1>3 DEF Tied
<1>5. Even(R, L, h, NIL, "left")
  <2>1. \A n : Weight(R, n) = Weight(T, n)
    BY <1>3 DEF Weight
  <2> QED
    BY <1>1, <1>3, <2>1 DEF Even
<1>6. Rest(R, L, L, [v EXCEPT ![k] = val])
  BY <1>1, <1>3 DEF Rest
<1>7. Balanced(R, L, L, [v EXCEPT ![k] = val], b, h)
  BY <1>3, <1>4, <1>5, <1>6 DEF Balanced
<1> QED
  BY <1>2, <1>7

-----------------------------------------------------------------------------
(* The inductive invariant: some set of keys makes the tree a red-black     *)
(* tree, count is its size, and each of its keys has a value unless         *)
(* kvs_rbtree_mod has run out of memory.                                    *)

Stands(L, b, h) ==
    /\ Balanced(tree, L, L, tree.value, b, h)
    /\ tree_count = Cardinality(L)
    /\ tree_oom \/ \A k \in L : tree.value[k] \in Values
    /\ tree_oom \in BOOLEAN /\ tree_down \in BOOLEAN

TreeSound == \E L, b, h : Stands(L, b, h)

LEMMA HasIs ==
    ASSUME NEW L, NEW b, NEW h, Stands(L, b, h), NEW k \in TreeKeys
    PROVE  Has(k) <=> k \in L
<1>1. Tied(tree, L, b) /\ Rest(tree, L, L, tree.value)
  BY DEF Stands, Balanced
<1>2. rbtree_search(tree, k) = IF k \in L THEN k ELSE NIL
  BY <1>1, SearchFinds
<1> QED
  BY <1>2, TreeAssumption DEF Has

LEMMA StandsFinite ==
    ASSUME NEW L, NEW b, NEW h, Stands(L, b, h)
    PROVE  L \in SUBSET TreeKeys /\ IsFiniteSet(L) /\ Cardinality(L) \in Nat /\ tree \in Trees
<1>1. L \in SUBSET TreeKeys /\ tree \in Trees
  BY DEF Stands, Balanced, Tied
<1> QED
  BY <1>1, TreeAssumption, FS_Subset, FS_CardinalityType

(* In the empty tree of kvs_rbtree_create. *)
LEMMA InitStands == ASSUME TreeInit PROVE TreeSound
<1> DEFINE b == [n \in TreeNodes |-> {}]
           h == [n \in TreeNodes |-> 0]
<1>1. /\ NIL \in TreeNodes /\ NIL \notin TreeKeys /\ "BLACK" \in {"RED", "BLACK"}
      /\ NULL \in Values \cup {NULL} /\ NIL \in TreeNodes \cup {NULL} /\ NULL \in TreeNodes \cup {NULL}
      /\ \A n \in TreeKeys : n \in TreeNodes /\ n # NIL
  BY TreeAssumption DEF TreeNodes
<1>2. /\ tree.root = NIL
      /\ tree.child = [s \in Sides |-> [n \in TreeNodes |-> IF n = NIL THEN NULL ELSE NIL]]
      /\ tree.parent = [n \in TreeNodes |-> NIL] /\ tree.color = [n \in TreeNodes |-> "BLACK"]
      /\ tree.value = [n \in TreeKeys |-> NULL] /\ tree \in Trees
  BY <1>1 DEF TreeInit, Trees
<1>3. /\ \A s \in Sides : tree.child[s][NIL] = NULL
      /\ \A s \in Sides : \A n \in TreeKeys : tree.child[s][n] = NIL
      /\ tree.color[NIL] = "BLACK"
  BY <1>1, <1>2
<1>4. /\ b \in [TreeNodes -> SUBSET TreeKeys] /\ b[NIL] = {}
      /\ h \in [TreeNodes -> Nat] /\ h[NIL] = 0
  BY <1>1
<1> HIDE DEF b, h
<1>5. Tied(tree, {}, b)
  BY <1>2, <1>4 DEF Tied
<1>6. Even(tree, {}, h, NIL, "left") /\ Rest(tree, {}, {}, tree.value)
  BY <1>3, <1>4 DEF Even, Rest
<1>7. Balanced(tree, {}, {}, tree.value, b, h)
  BY <1>2, <1>3, <1>5, <1>6 DEF Balanced
<1>8. tree_count = Cardinality({}) /\ tree_oom = FALSE /\ tree_down = FALSE
  BY FS_EmptySet DEF TreeInit
<1>9. Stands({}, b, h)
  BY <1>7, <1>8 DEF Stands
<1> QED
  BY <1>9 DEF TreeSound

LEMMA StoreStands ==
    ASSUME NEW L, NEW b, NEW h, Stands(L, b, h), NEW k \in TreeKeys, NEW v \in Values,
           TreeSetStores(k, v)
    PROVE  /\ k \notin L /\ tree'.value = [tree.value EXCEPT ![k] = v]
           /\ \E bb, hh : Stands(L \cup {k}, bb, hh)'
<1>1. /\ ~Has(k) /\ tree' = rbtree_insert(tree, k, v) /\ tree_count' = tree_count + 1
      /\ tree_oom' = tree_oom /\ tree_down' = tree_down
  BY DEF TreeSetStores
<1>2. k \notin L /\ L \in SUBSET TreeKeys /\ IsFiniteSet(L) /\ tree \in Trees
  BY <1>1, HasIs, StandsFinite
<1>3. PICK bb, hh : Balanced(tree', L \cup {k}, L \cup {k}, [tree.value EXCEPT ![k] = v], bb, hh)
  <2>1. Balanced(tree, L, L, tree.value, b, h)
    BY DEF Stands
  <2> QED
    BY <1>1, <1>2, <2>1, InsertBalances
<1>4. tree'.value = [tree.value EXCEPT ![k] = v]
  BY <1>3 DEF Balanced, Rest
<1>5. Cardinality(L \cup {k}) = Cardinality(L) + 1
  BY <1>2, FS_AddElement
<1>6. tree_oom \/ \A q \in L \cup {k} : tree'.value[q] \in Values
  <2>1. tree.value \in [TreeKeys -> Values \cup {NULL}]
    BY <1>2 DEF Trees
  <2> QED
    BY <1>2, <1>4, <2>1 DEF Stands
<1>7. Stands(L \cup {k}, bb, hh)'
  BY <1>1, <1>3, <1>4, <1>5, <1>6 DEF Stands
<1> QED
  BY <1>2, <1>4, <1>7

LEMMA UnlinkStands ==
    ASSUME NEW L, NEW b, NEW h, Stands(L, b, h), NEW k \in TreeKeys, TreeDelUnlinks(k)
    PROVE  /\ k \in L /\ tree'.value = [tree.value EXCEPT ![k] = NULL]
           /\ \E bb, hh : Stands(L \ {k}, bb, hh)'
<1>1. /\ Has(k) /\ tree' = rbtree_delete(tree, k) /\ tree_count' = tree_count - 1
      /\ tree_oom' = tree_oom /\ tree_down' = tree_down
  BY DEF TreeDelUnlinks
<1>2. k \in L /\ L \in SUBSET TreeKeys /\ IsFiniteSet(L) /\ tree \in Trees
  BY <1>1, HasIs, StandsFinite
<1>3. PICK bb, hh : Balanced(tree', L \ {k}, L \ {k}, [tree.value EXCEPT ![k] = NULL], bb, hh)
  <2>1. Balanced(tree, L, L, tree.value, b, h)
    BY DEF Stands
  <2> QED
    BY <1>1, <1>2, <2>1, DeleteBalances
<1>4. tree'.value = [tree.value EXCEPT ![k] = NULL]
  BY <1>3 DEF Balanced, Rest
<1>5. Cardinality(L \ {k}) = Cardinality(L) - 1
  BY <1>2, FS_RemoveElement
<1>6. tree_oom \/ \A q \in L \ {k} : tree'.value[q] \in Values
  <2>1. tree.value \in [TreeKeys -> Values \cup {NULL}]
    BY <1>2 DEF Trees
  <2> QED
    BY <1>2, <1>4, <2>1 DEF Stands
<1>7. Stands(L \ {k}, bb, hh)'
  BY <1>1, <1>3, <1>4, <1>5, <1>6 DEF Stands
<1> QED
  BY <1>2, <1>4, <1>7

LEMMA ModStands ==
    ASSUME NEW L, NEW b, NEW h, Stands(L, b, h), NEW k \in TreeKeys, NEW v \in Values \cup {NULL},
           Has(k), tree' = [tree EXCEPT !.value[k] = v],
           UNCHANGED <<tree_count, tree_down>>,
           \/ v \in Values /\ tree_oom' = tree_oom
           \/ tree_oom' = TRUE
    PROVE  /\ k \in L /\ tree'.value = [tree.value EXCEPT ![k] = v]
           /\ \E bb, hh : Stands(L, bb, hh)'
<1>1. k \in L /\ L \in SUBSET TreeKeys /\ tree \in Trees
  BY HasIs, StandsFinite
<1>2. Balanced(tree', L, L, [tree.value EXCEPT ![k] = v], b, h)
  <2>1. Balanced(tree, L, L, tree.value, b, h)
    BY DEF Stands
  <2> QED
    BY <1>1, <2>1, ValueBalances
<1>3. tree'.value = [tree.value EXCEPT ![k] = v]
  BY <1>2 DEF Balanced, Rest
<1>4. tree_oom' \/ \A q \in L : tree'.value[q] \in Values
  <2>1. tree.value \in [TreeKeys -> Values \cup {NULL}]
    BY <1>1 DEF Trees
  <2> QED
    BY <1>1, <1>3, <2>1 DEF Stands
<1>5. tree_oom' \in BOOLEAN
  BY DEF Stands
<1>6. Stands(L, b, h)'
  BY <1>2, <1>3, <1>4, <1>5 DEF Stands
<1> QED
  BY <1>1, <1>3, <1>6

LEMMA StutterStands ==
    ASSUME NEW L, NEW b, NEW h, Stands(L, b, h), UNCHANGED <<tree, tree_count, tree_oom>>,
           tree_down' \in BOOLEAN
    PROVE  Stands(L, b, h)'
  BY DEF Stands

LEMMA TreeStepStands ==
    ASSUME TreeSound, [TreeNext]_treeVars
    PROVE  TreeSound'
<1>1. PICK L, b, h : Stands(L, b, h)
  BY DEF TreeSound
<1>2. CASE UNCHANGED treeVars
  BY <1>1, <1>2 DEF Stands, treeVars, TreeSound
<1>3. ASSUME NEW k \in TreeKeys, NEW v \in Offered[k], kvs_rbtree_set(k, v) PROVE TreeSound'
  <2>0. v \in Values
    BY TreeAssumption
  <2>1. CASE TreeSetStores(k, v)
    BY <1>1, <2>0, <2>1, StoreStands DEF TreeSound
  <2>2. CASE TreeSetExists(k) \/ TreeSetOutOfMemory(k) \/ TreeSetCrashes(k)
    <3>1. UNCHANGED <<tree, tree_count, tree_oom>> /\ tree_down' \in BOOLEAN
      BY <1>1, <2>2 DEF TreeSetExists, TreeSetOutOfMemory, TreeSetCrashes, Stands
    <3> QED
      BY <1>1, <3>1, StutterStands DEF TreeSound
  <2> QED
    BY <1>3, <2>1, <2>2 DEF kvs_rbtree_set
<1>4. ASSUME NEW k \in TreeKeys, NEW v \in Offered[k], kvs_rbtree_mod(k, v) PROVE TreeSound'
  <2>0. v \in Values \cup {NULL} /\ v \in Values
    BY TreeAssumption
  <2>1. CASE TreeModReplaces(k, v)
    <3>1. /\ Has(k) /\ tree' = [tree EXCEPT !.value[k] = v]
          /\ UNCHANGED <<tree_count, tree_down>> /\ tree_oom' = tree_oom
      BY <2>1 DEF TreeModReplaces
    <3> QED
      BY <1>1, <2>0, <3>1, ModStands DEF TreeSound
  <2>2. CASE TreeModOutOfMemory(k)
    <3>1. /\ Has(k) /\ tree' = [tree EXCEPT !.value[k] = NULL]
          /\ UNCHANGED <<tree_count, tree_down>> /\ tree_oom' = TRUE
      BY <2>2 DEF TreeModOutOfMemory
    <3>2. NULL \in Values \cup {NULL}
      OBVIOUS
    <3> QED
      BY <1>1, <3>1, <3>2, ModStands DEF TreeSound
  <2>3. CASE TreeModNoExist(k)
    <3>1. UNCHANGED <<tree, tree_count, tree_oom>> /\ tree_down' \in BOOLEAN
      BY <1>1, <2>3 DEF TreeModNoExist, Stands
    <3> QED
      BY <1>1, <3>1, StutterStands DEF TreeSound
  <2> QED
    BY <1>4, <2>1, <2>2, <2>3 DEF kvs_rbtree_mod
<1>5. ASSUME NEW k \in TreeKeys, kvs_rbtree_del(k) PROVE TreeSound'
  <2>1. CASE TreeDelUnlinks(k)
    BY <1>1, <2>1, UnlinkStands DEF TreeSound
  <2>2. CASE TreeDelNoExist(k)
    <3>1. UNCHANGED <<tree, tree_count, tree_oom>> /\ tree_down' \in BOOLEAN
      BY <1>1, <2>2 DEF TreeDelNoExist, Stands
    <3> QED
      BY <1>1, <3>1, StutterStands DEF TreeSound
  <2> QED
    BY <1>5, <2>1, <2>2 DEF kvs_rbtree_del
<1>6. ASSUME NEW k \in TreeKeys, kvs_rbtree_get(k) \/ kvs_rbtree_exist(k) PROVE TreeSound'
  <2>1. UNCHANGED <<tree, tree_count, tree_oom>> /\ tree_down' \in BOOLEAN
    BY <1>1, <1>6 DEF kvs_rbtree_get, kvs_rbtree_exist, Stands
  <2> QED
    BY <1>1, <2>1, StutterStands DEF TreeSound
<1> QED
  BY <1>2, <1>3, <1>4, <1>5, <1>6 DEF TreeNext

LEMMA TreeAlwaysSound == TreeSpec => []TreeSound
<1>1. TreeInit => TreeSound
  BY InitStands
<1>2. TreeSound /\ [TreeNext]_treeVars => TreeSound'
  BY TreeStepStands
<1> QED
  BY <1>1, <1>2, PTL DEF TreeSpec

(* What the definitions of KvsRbtree say of a tree that stands. *)
LEMMA StandsShows ==
    ASSUME NEW L, NEW b, NEW h, Stands(L, b, h)
    PROVE  /\ Linked = L
           /\ \A n \in L \cup {NIL} : Below(n) = b[n] /\ BlackHeight(n) = h[n]
           /\ \A n \in L : \A s \in Sides : tree.child[s][n] \in L \cup {NIL}
<1>1. /\ Tied(tree, L, b) /\ Even(tree, L, h, NIL, "left") /\ Rest(tree, L, L, tree.value)
  BY DEF Stands, Balanced
<1>2. \A n : Below(n) = BelowIn(tree, n) /\ BlackHeight(n) = HeightIn(tree, n)
  BY Zenon DEF Below, BelowIn, BlackHeight, HeightIn
<1>3. \A n \in L \cup {NIL} : BelowIn(tree, n) = b[n] /\ HeightIn(tree, n) = h[n]
  BY <1>1, BelowIs, HeightIs
<1>4. tree.root \in L \cup {NIL} /\ b[tree.root] = L
  BY <1>1 DEF Tied
<1>5. Linked = L
  BY <1>2, <1>3, <1>4 DEF Linked
<1>6. \A n \in L : \A s \in Sides : tree.child[s][n] \in L \cup {NIL}
  BY <1>1 DEF Tied
<1> QED
  BY <1>2, <1>3, <1>5, <1>6

(* The fields of the tree have their types; nil is black and its children  *)
(* are never written.                                                      *)
THEOREM TreeTypes == TreeSpec => []TreeTypeOK
<1>1. TreeSound => TreeTypeOK
  <2> SUFFICES ASSUME TreeSound PROVE TreeTypeOK
    OBVIOUS
  <2>1. PICK L, b, h : Stands(L, b, h)
    BY DEF TreeSound
  <2>2. /\ Tied(tree, L, b) /\ Rest(tree, L, L, tree.value)
        /\ tree_oom \in BOOLEAN /\ tree_down \in BOOLEAN
    BY <2>1 DEF Stands, Balanced
  <2>3. tree \in Trees /\ tree.color[NIL] = "BLACK" /\ \A s \in Sides : tree.child[s][NIL] = NULL
    BY <2>2 DEF Tied, Rest
  <2>4. \A n \in TreeKeys : \A s \in Sides : tree.child[s][n] \in TreeNodes
    BY <2>2, ChildNodes
  <2> QED
    BY <2>2, <2>3, <2>4 DEF TreeTypeOK
<1> QED
  BY <1>1, TreeAlwaysSound, PTL

(* Rotations, fixups and the swap of rbtree_delete keep a search tree       *)
(* whose parent pointers are the inverse of its children.                   *)
THEOREM TreeSearchOrder == TreeSpec => []TreeOrdered
<1>1. TreeSound => TreeOrdered
  <2> SUFFICES ASSUME TreeSound PROVE TreeOrdered
    OBVIOUS
  <2>1. PICK L, b, h : Stands(L, b, h)
    BY DEF TreeSound
  <2>2. Tied(tree, L, b)
    BY <2>1 DEF Stands, Balanced
  <2>3. /\ Linked = L
        /\ \A n \in L \cup {NIL} : Below(n) = b[n]
        /\ \A n \in L : \A s \in Sides : tree.child[s][n] \in L \cup {NIL}
    BY <2>1, StandsShows
  <2>4. tree.root # NIL => tree.parent[tree.root] = NIL
    BY <2>2 DEF Tied
  <2>5. ASSUME NEW n \in L, NEW s \in Sides
        PROVE  /\ tree.child[s][n] # NIL => tree.parent[tree.child[s][n]] = n
               /\ \A m \in Below(tree.child[s][n]) : IF s = "left" THEN m < n ELSE m > n
    <3>1. tree.child[s][n] # NIL => tree.parent[tree.child[s][n]] = n
      BY <2>2 DEF Tied
    <3>2. Below(tree.child[s][n]) = b[tree.child[s][n]]
      BY <2>3
    <3>3. \A m \in b[tree.child[s][n]] : Before(s, m, n)
      BY <2>2 DEF Tied
    <3> QED
      BY <3>1, <3>2, <3>3 DEF Before
  <2> QED
    BY <2>3, <2>4, <2>5 DEF TreeOrdered
<1> QED
  BY <1>1, TreeAlwaysSound, PTL

(* rbtree_insert_fixup and rbtree_delete_fixup restore the red-black rules: *)
(* a black root, no red child of a red node, and as many black nodes on     *)
(* either side of every node.                                               *)
THEOREM TreeRules == TreeSpec => []TreeRedBlack
<1>1. TreeSound => TreeRedBlack
  <2> SUFFICES ASSUME TreeSound PROVE TreeRedBlack
    OBVIOUS
  <2>1. PICK L, b, h : Stands(L, b, h)
    BY DEF TreeSound
  <2>2. /\ Tied(tree, L, b) /\ Even(tree, L, h, NIL, "left")
        /\ \A n \in L : tree.color[n] = "RED" =>
             \A t \in Sides : tree.color[tree.child[t][n]] = "BLACK"
        /\ tree.color[tree.root] = "BLACK"
    BY <2>1 DEF Stands, Balanced
  <2>3. /\ Linked = L
        /\ \A n \in L \cup {NIL} : BlackHeight(n) = h[n]
        /\ \A n \in L : \A s \in Sides : tree.child[s][n] \in L \cup {NIL}
    BY <2>1, StandsShows
  <2>4. ASSUME NEW n \in L
        PROVE  BlackHeight(tree.child["left"][n]) = BlackHeight(tree.child["right"][n])
    <3>1. "left" \in Sides /\ "right" \in Sides
      BY DEF Sides
    <3>2. /\ h[n] = h[tree.child["left"][n]] + Weight(tree, n)
          /\ h[n] = h[tree.child["right"][n]] + Weight(tree, n)
          /\ h[tree.child["left"][n]] \in Nat /\ h[tree.child["right"][n]] \in Nat
      BY <2>2, <3>1, Level
    <3>3. Weight(tree, n) \in Nat
      BY DEF Weight
    <3>4. h[tree.child["left"][n]] = h[tree.child["right"][n]]
      BY <3>2, <3>3
    <3> QED
      BY <2>3, <3>1, <3>4
  <2> QED
    BY <2>2, <2>3, <2>4 DEF TreeRedBlack
<1> QED
  BY <1>1, TreeAlwaysSound, PTL

(* count is the number of nodes that hang from the root. *)
THEOREM TreeCounts == TreeSpec => []TreeCountExact
<1>1. TreeSound => TreeCountExact
  BY StandsShows DEF TreeSound, Stands, TreeCountExact
<1> QED
  BY <1>1, TreeAlwaysSound, PTL

-----------------------------------------------------------------------------
(* The tree implements the map.                                             *)

TableOf(L, v) == [k \in TreeKeys |-> IF k \in L THEN v[k] ELSE NULL]

LEMMA TableIs ==
    ASSUME NEW L, NEW b, NEW h, Stands(L, b, h)
    PROVE  TreeTable = TableOf(L, tree.value)
<1>1. Linked = L
  BY StandsShows
<1> QED
  BY <1>1 DEF TreeTable, TableOf

LEMMA TableIsThen ==
    ASSUME NEW L, NEW b, NEW h, Stands(L, b, h)'
    PROVE  TreeTable' = TableOf(L, tree'.value)
<1>1. /\ Tied(tree', L, b) /\ Rest(tree', L, L, tree'.value)
  BY DEF Stands, Balanced
<1>2. tree'.root \in L \cup {NIL} /\ b[tree'.root] = L
  BY <1>1 DEF Tied
<1>3. BelowIn(tree', tree'.root) = L
  BY <1>1, <1>2, BelowIs
<1>4. Linked' = BelowIn(tree', tree'.root)
  BY Zenon DEF Linked, Below, BelowIn
<1> QED
  BY <1>3, <1>4 DEF TreeTable, TableOf

LEMMA TableKeeps ==
    ASSUME UNCHANGED tree
    PROVE  TreeTable' = TreeTable
<1>1. Linked' = Linked
  BY DEF Linked, Below
<1> QED
  BY <1>1 DEF TreeTable

LEMMA TreeStepImplements ==
    ASSUME TreeSound, [TreeNext]_treeVars, treeVars' # treeVars, ~(tree_oom' \/ tree_down')
    PROVE  TreeMap!Next
<1>1. PICK L, b, h : Stands(L, b, h)
  BY DEF TreeSound
<1>2. L \in SUBSET TreeKeys /\ tree \in Trees /\ TreeTable = TableOf(L, tree.value)
  BY <1>1, StandsFinite, TableIs
<1>3. tree.value \in [TreeKeys -> Values \cup {NULL}] /\ NULL \notin Values
  BY <1>2, ValuesAssumption DEF Trees
<1>4. PICK k \in TreeKeys :
        \/ \E v \in Offered[k] : kvs_rbtree_set(k, v) \/ kvs_rbtree_mod(k, v)
        \/ kvs_rbtree_get(k) \/ kvs_rbtree_del(k) \/ kvs_rbtree_exist(k)
  BY DEF TreeNext
<1>5. tree_oom' = tree_oom => (TreeTable[k] # NULL <=> k \in L)
  <2> SUFFICES ASSUME tree_oom' = tree_oom PROVE TreeTable[k] # NULL <=> k \in L
    OBVIOUS
  <2>1. ~tree_oom
    OBVIOUS
  <2>2. k \in L => tree.value[k] \in Values
    BY <1>1, <2>1 DEF Stands
  <2> QED
    BY <1>2, <1>3, <2>2 DEF TableOf
<1>6. Has(k) <=> k \in L
  BY <1>1, HasIs
<1>7. \A v \in Offered[k] : v \in Values
  BY TreeAssumption
<1>8. ASSUME NEW v \in Offered[k], kvs_rbtree_set(k, v) PROVE TreeMap!Next
  <2>1. CASE TreeSetExists(k)
    <3>1. TreeTable[k] # NULL /\ TreeTable' = TreeTable
      BY <1>5, <1>6, <2>1, TableKeeps DEF TreeSetExists
    <3>2. tree_ret' = [op |-> "set", key |-> k, code |-> 1]
      BY <2>1 DEF TreeSetExists, Answers, Call
    <3>3. TreeMap!Set(k, v)
      BY <3>1, <3>2 DEF TreeMap!Set, TreeMap!Full, TreeMap!Unlimited, TreeMap!Returns
    <3> QED
      BY <1>7, <3>3 DEF TreeMap!Next
  <2>2. CASE TreeSetStores(k, v)
    <3>1. k \notin L /\ tree'.value = [tree.value EXCEPT ![k] = v]
      BY <1>1, <1>7, <2>2, StoreStands
    <3>2. PICK bb, hh : Stands(L \cup {k}, bb, hh)'
      BY <1>1, <1>7, <2>2, StoreStands
    <3>3. TreeTable' = TableOf(L \cup {k}, tree'.value)
      BY <3>2, TableIsThen
    <3>4. TreeTable' = [TreeTable EXCEPT ![k] = v]
      BY <1>2, <1>3, <3>1, <3>3 DEF TableOf
    <3>5. TreeTable[k] = NULL
      BY <1>5, <2>2, <3>1 DEF TreeSetStores
    <3>6. tree_ret' = [op |-> "set", key |-> k, code |-> 0]
      BY <2>2 DEF TreeSetStores, Answers, Call
    <3>7. TreeMap!Set(k, v)
      BY <3>4, <3>5, <3>6 DEF TreeMap!Set, TreeMap!Full, TreeMap!Unlimited, TreeMap!Returns
    <3> QED
      BY <1>7, <3>7 DEF TreeMap!Next
  <2>3. CASE TreeSetOutOfMemory(k)
    <3>1. TreeTable[k] = NULL /\ TreeTable' = TreeTable
      BY <1>5, <1>6, <2>3, TableKeeps DEF TreeSetOutOfMemory
    <3>2. tree_ret' = [op |-> "set", key |-> k, code |-> -1]
      BY <2>3 DEF TreeSetOutOfMemory, Answers, Call
    <3>3. TreeMap!SetOutOfMemory(k)
      BY <3>1, <3>2
      DEF TreeMap!SetOutOfMemory, TreeMap!Full, TreeMap!Unlimited, TreeMap!Returns
    <3> QED
      BY <3>3 DEF TreeMap!Next
  <2>4. CASE TreeSetCrashes(k)
    BY <2>4 DEF TreeSetCrashes
  <2> QED
    BY <1>8, <2>1, <2>2, <2>3, <2>4 DEF kvs_rbtree_set
<1>9. ASSUME NEW v \in Offered[k], kvs_rbtree_mod(k, v) PROVE TreeMap!Next
  <2>1. CASE TreeModNoExist(k)
    <3>1. TreeTable[k] = NULL /\ TreeTable' = TreeTable
      BY <1>5, <1>6, <2>1, TableKeeps DEF TreeModNoExist
    <3>2. tree_ret' = [op |-> "mod", key |-> k, code |-> 1]
      BY <2>1 DEF TreeModNoExist, Answers, Call
    <3>3. TreeMap!Mod(k, v)
      BY <3>1, <3>2 DEF TreeMap!Mod, TreeMap!Returns
    <3> QED
      BY <1>7, <3>3 DEF TreeMap!Next
  <2>2. CASE TreeModReplaces(k, v)
    <3>1. /\ Has(k) /\ tree' = [tree EXCEPT !.value[k] = v]
          /\ UNCHANGED <<tree_count, tree_down>> /\ tree_oom' = tree_oom
          /\ tree_ret' = [op |-> "mod", key |-> k, code |-> 0]
      BY <2>2 DEF TreeModReplaces, Answers, Call
    <3>2. /\ k \in L /\ tree'.value = [tree.value EXCEPT ![k] = v]
          /\ \E bb, hh : Stands(L, bb, hh)'
      BY <1>1, <1>7, <3>1, ModStands
    <3>3. TreeTable' = TableOf(L, tree'.value)
      BY <3>2, TableIsThen
    <3>4. TreeTable' = [TreeTable EXCEPT ![k] = v]
      BY <1>2, <1>3, <3>2, <3>3 DEF TableOf
    <3>5. TreeTable[k] # NULL
      BY <1>5, <3>1, <3>2
    <3>6. TreeMap!Mod(k, v)
      BY <3>1, <3>4, <3>5 DEF TreeMap!Mod, TreeMap!Returns
    <3> QED
      BY <1>7, <3>6 DEF TreeMap!Next
  <2>3. CASE TreeModOutOfMemory(k)
    BY <2>3 DEF TreeModOutOfMemory
  <2> QED
    BY <1>9, <2>1, <2>2, <2>3 DEF kvs_rbtree_mod
<1>10. CASE kvs_rbtree_get(k)
  <2>1. TreeTable' = TreeTable
    BY <1>10, TableKeeps DEF kvs_rbtree_get
  <2>2. tree_ret' = [op |-> "get", key |-> k, code |-> TreeTable[k]]
    BY <1>2, <1>6, <1>10 DEF kvs_rbtree_get, Answers, Call, TableOf
  <2>3. TreeTable[k] \in Values \cup {NULL}
    BY <1>2, <1>3 DEF TableOf
  <2>4. TreeMap!Get(k)
    BY <2>1, <2>2, <2>3 DEF TreeMap!Get, TreeMap!Returns
  <2> QED
    BY <2>4 DEF TreeMap!Next
<1>11. CASE kvs_rbtree_exist(k)
  <2>1. TreeTable' = TreeTable
    BY <1>11, TableKeeps DEF kvs_rbtree_exist
  <2>2. tree_ret' = [op |-> "exist", key |-> k, code |-> IF TreeTable[k] # NULL THEN 0 ELSE 1]
    BY <1>5, <1>6, <1>11 DEF kvs_rbtree_exist, Answers, Call
  <2>3. TreeMap!Exist(k)
    BY <2>1, <2>2 DEF TreeMap!Exist, TreeMap!Returns
  <2> QED
    BY <2>3 DEF TreeMap!Next
<1>12. CASE kvs_rbtree_del(k)
  <2>1. CASE TreeDelNoExist(k)
    <3>1. TreeTable[k] = NULL /\ TreeTable' = TreeTable
      BY <1>5, <1>6, <2>1, TableKeeps DEF TreeDelNoExist
    <3>2. tree_ret' = [op |-> "del", key |-> k, code |-> 1]
      BY <2>1 DEF TreeDelNoExist, Answers, Call
    <3>3. TreeMap!Del(k)
      BY <3>1, <3>2 DEF TreeMap!Del, TreeMap!Returns
    <3> QED
      BY <3>3 DEF TreeMap!Next
  <2>2. CASE TreeDelUnlinks(k)
    <3>1. k \in L /\ tree'.value = [tree.value EXCEPT ![k] = NULL]
      BY <1>1, <2>2, UnlinkStands
    <3>2. PICK bb, hh : Stands(L \ {k}, bb, hh)'
      BY <1>1, <2>2, UnlinkStands
    <3>3. TreeTable' = TableOf(L \ {k}, tree'.value)
      BY <3>2, TableIsThen
    <3>4. TreeTable' = [TreeTable EXCEPT ![k] = NULL]
      BY <1>2, <1>3, <3>1, <3>3 DEF TableOf
    <3>5. TreeTable[k] # NULL
      BY <1>5, <2>2, <3>1 DEF TreeDelUnlinks
    <3>6. tree_ret' = [op |-> "del", key |-> k, code |-> 0]
      BY <2>2 DEF TreeDelUnlinks, Answers, Call
    <3>7. TreeMap!Del(k)
      BY <3>4, <3>5, <3>6 DEF TreeMap!Del, TreeMap!Returns
    <3> QED
      BY <3>7 DEF TreeMap!Next
  <2> QED
    BY <1>12, <2>1, <2>2 DEF kvs_rbtree_del
<1> QED
  BY <1>4, <1>8, <1>9, <1>10, <1>11, <1>12

(* The red-black tree implements the map: every call of kvs_rbtree_*       *)
(* changes the map and answers as it should, up to a MOD that runs out of  *)
(* memory and to a crash.                                                  *)
THEOREM TreeIsMap == TreeSpec => TreeImplementsMap
<1>1. TreeInit => TreeMap!Init
  <2> SUFFICES ASSUME TreeInit PROVE TreeMap!Init
    OBVIOUS
  <2>1. PICK L, b, h : Stands(L, b, h)
    BY InitStands DEF TreeSound
  <2>2. TreeTable = TableOf(L, tree.value)
    BY <2>1, TableIs
  <2>3. \A k \in TreeKeys : tree.value[k] = NULL
    BY DEF TreeInit
  <2>4. TreeTable = [k \in TreeKeys |-> NULL]
    BY <2>2, <2>3 DEF TableOf
  <2> QED
    BY <2>4 DEF TreeInit, TreeMap!Init
<1>2. TreeSound /\ [TreeNext]_treeVars
        => [treeVars' # treeVars /\ ~(tree_oom' \/ tree_down') => TreeMap!Next]_(TreeMap!vars)
  BY TreeStepImplements
<1> QED
  BY <1>1, <1>2, TreeAlwaysSound, PTL DEF TreeSpec, TreeImplementsMap

=============================================================================

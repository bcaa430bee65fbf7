------------------------------ MODULE KvsRbtree ------------------------------
(***************************************************************************)
(* kvs_rbtree.cpp: the red-black tree with its sentinel nil.  Every        *)
(* function runs under global_rbtree_rwlock, so a call is one action.      *)
(*                                                                         *)
(* A node is named by the key it holds.  rbtree_delete swaps the keys and  *)
(* the values of two nodes and unlinks one: here that renames a node.      *)
(* The mirrored halves of the code are one operator with a side.           *)
(***************************************************************************)
EXTENDS Kvstore, FiniteSets

CONSTANTS
    TreeKeys,   \* numbers, in the order of strcmp
    Offered,    \* the values that clients store under each key
    NIL         \* T->nil

ASSUME TreeAssumption ==
    /\ IsFiniteSet(TreeKeys) /\ TreeKeys \subseteq Int
    /\ NIL \notin TreeKeys /\ NULL \notin TreeKeys \cup {NIL}
    /\ Offered \in [TreeKeys -> SUBSET Values]

VARIABLES
    tree,       \* the root, and the children, parent, colour and value of each node
    tree_count, \* inst->count
    tree_ret,   \* the last call
    tree_oom,   \* history: kvs_rbtree_mod ran out of memory
    tree_down   \* the process has crashed

treeVars == <<tree, tree_count, tree_ret, tree_oom, tree_down>>

TreeNodes == TreeKeys \cup {NIL}
Sides == {"left", "right"}
Other(s) == IF s = "left" THEN "right" ELSE "left"

(* kvs_rbtree_create sets the colour of nil and nothing else of it: its    *)
(* children stay uninitialised (NULL here, which is not a node).           *)
TreeInit ==
    /\ tree = [root |-> NIL,
               child |-> [s \in Sides |-> [n \in TreeNodes |-> IF n = NIL THEN NULL ELSE NIL]],
               parent |-> [n \in TreeNodes |-> NIL],
               color |-> [n \in TreeNodes |-> "BLACK"],
               value |-> [n \in TreeKeys |-> NULL]]
    /\ tree_count = 0
    /\ tree_ret = NULL
    /\ tree_oom = FALSE
    /\ tree_down = FALSE

-----------------------------------------------------------------------------
(* rbtree_search and the walks down the tree. *)
SideFor(k, n) == IF k < n THEN "left" ELSE "right"

rbtree_search(T, k) ==
    LET from[n \in TreeNodes] ==
            IF n \in {NIL, k} THEN n ELSE from[T.child[SideFor(k, n)][n]]
    IN from[T.root]

rbtree_mini(T, x) ==
    LET from[n \in TreeKeys] == IF T.child["left"][n] = NIL THEN n ELSE from[T.child["left"][n]]
    IN from[x]

(* The last node of the way down to where k belongs, T->nil in a new tree. *)
Above(T, k) ==
    LET from[n \in TreeKeys] ==
            LET c == T.child[SideFor(k, n)][n] IN IF c = NIL THEN n ELSE from[c]
    IN IF T.root = NIL THEN NIL ELSE from[T.root]

SideOf(T, n) == IF T.child["left"][T.parent[n]] = n THEN "left" ELSE "right"

(* The parent of n, or the root pointer, points to m instead. *)
Replace(T, n, m) ==
    IF T.parent[n] = NIL
    THEN [T EXCEPT !.root = m]
    ELSE [T EXCEPT !.child[SideOf(T, n)][T.parent[n]] = m]

(* Mutant: the subtree that changes sides keeps its parent. *)
RotateOrphans(T, x, s) ==
    LET y == T.child[Other(s)][x]
        lifted == Replace(T, x, y)
    IN [lifted EXCEPT !.child[Other(s)][x] = T.child[s][y],
                      !.child[s][y] = x,
                      !.parent[x] = y,
                      !.parent[y] = T.parent[x]]

(* rbtree_left_rotate for s = "left", rbtree_right_rotate for "right". *)
Rotate(T, x, s) ==
    LET y == T.child[Other(s)][x]
        inner == T.child[s][y]
        lifted == Replace(T, x, y)
    IN [lifted EXCEPT !.child[Other(s)][x] = inner,
                      !.child[s][y] = x,
                      !.parent = [n \in TreeNodes |->
                          IF n = x THEN y
                          ELSE IF n = y THEN T.parent[x]
                          ELSE IF n = inner /\ n # NIL THEN x
                          ELSE T.parent[n]]]

(* Mutant: the new node is painted and nothing is repaired. *)
NoInsertFixup(T, z) == [T EXCEPT !.color[T.root] = "BLACK"]

(* rbtree_insert_fixup goes on while z and its parent are red; one turn,    *)
(* and the node it leaves z at.                                             *)
InsertTurn(T, z) ==
    LET p == T.parent[z]
        g == T.parent[p]
        s == SideOf(T, p)
        uncle == T.child[Other(s)][g]
        bent == T.child[Other(s)][p] = z
        straight == IF bent THEN Rotate(T, p, s) ELSE T
        low == IF bent THEN p ELSE z
        mid == straight.parent[low]
        top == straight.parent[mid]
    IN IF T.color[uncle] = "RED"
       THEN [tree |-> [T EXCEPT !.color[p] = "BLACK", !.color[uncle] = "BLACK",
                                !.color[g] = "RED"],
             at |-> g]
       ELSE [tree |-> Rotate([straight EXCEPT !.color[mid] = "BLACK", !.color[top] = "RED"],
                             top, Other(s)),
             at |-> low]

InsertGoesOn(now) == now.tree.color[now.tree.parent[now.at]] = "RED"

(* The loops climb, so neither has more turns than there are keys. *)
InsertFixup(T, z) ==
    LET after[i \in 0..Cardinality(TreeKeys)] ==
            IF i = 0 THEN [tree |-> T, at |-> z]
            ELSE LET now == after[i - 1]
                 IN IF InsertGoesOn(now) THEN InsertTurn(now.tree, now.at) ELSE now
        last == after[Cardinality(TreeKeys)].tree
    IN [last EXCEPT !.color[last.root] = "BLACK"]

rbtree_insert(T, k, v) ==
    LET y == Above(T, k)
        hung == IF y = NIL THEN [T EXCEPT !.root = k]
                ELSE [T EXCEPT !.child[SideFor(k, y)][y] = k]
    IN InsertFixup([hung EXCEPT !.child["left"][k] = NIL, !.child["right"][k] = NIL,
                                !.parent[k] = y, !.color[k] = "RED", !.value[k] = v], k)

-----------------------------------------------------------------------------
(* rbtree_delete_fixup.  The sibling of x is below p on the other side; if  *)
(* it is red it goes above p, and x gets a black sibling.                   *)
LiftRed(T, p, s) ==
    LET w == T.child[Other(s)][p]
    IN IF T.color[w] = "RED"
       THEN Rotate([T EXCEPT !.color[w] = "BLACK", !.color[p] = "RED"], p, s)
       ELSE T

(* The far child of a black sibling is made red, *)
LiftNear(T, p, s) ==
    LET w == T.child[Other(s)][p]
    IN IF T.color[T.child[Other(s)][w]] = "BLACK"
       THEN Rotate([T EXCEPT !.color[T.child[s][w]] = "BLACK", !.color[w] = "RED"], w, Other(s))
       ELSE T

(* and the sibling goes above p. *)
LiftFar(T, p, s) ==
    LET w == T.child[Other(s)][p]
    IN Rotate([T EXCEPT !.color[w] = T.color[p], !.color[p] = "BLACK",
                        !.color[T.child[Other(s)][w]] = "BLACK"], p, s)

DeleteTurn(T, x) ==
    LET p == T.parent[x]
        s == SideOf(T, x)
        T1 == LiftRed(T, p, s)
        w == T1.child[Other(s)][p]
        T2 == LiftFar(LiftNear(T1, p, s), p, s)
    IN IF \A t \in Sides : T1.color[T1.child[t][w]] = "BLACK"
       THEN [tree |-> [T1 EXCEPT !.color[w] = "RED"], at |-> p]
       ELSE [tree |-> T2, at |-> T2.root]

DeleteGoesOn(now) == now.at # now.tree.root /\ now.tree.color[now.at] = "BLACK"

DeleteFixup(T, x) ==
    LET after[i \in 0..Cardinality(TreeKeys)] ==
            IF i = 0 THEN [tree |-> T, at |-> x]
            ELSE LET now == after[i - 1]
                 IN IF DeleteGoesOn(now) THEN DeleteTurn(now.tree, now.at) ELSE now
        last == after[Cardinality(TreeKeys)]
    IN [last.tree EXCEPT !.color[last.at] = "BLACK"]

(* Mutant: the values of the two nodes are not swapped. *)
RenameKeyOnly(T, z, y) ==
    LET Now(n) == IF n = z THEN y ELSE n
        Moved(f) == [n \in DOMAIN f |-> IF n = y THEN Now(f[z]) ELSE Now(f[n])]
    IN [T EXCEPT !.root = Now(T.root),
                 !.child = [s \in Sides |-> Moved(T.child[s])],
                 !.parent = Moved(T.parent),
                 !.color[y] = T.color[z],
                 !.value[y] = T.value[z]]

(* The node that held z holds y from now on. *)
Rename(T, z, y) ==
    LET Now(n) == IF n = z THEN y ELSE n
        Moved(f) == [n \in DOMAIN f |-> IF n = y THEN Now(f[z]) ELSE Now(f[n])]
    IN [T EXCEPT !.root = Now(T.root),
                 !.child = [s \in Sides |-> Moved(T.child[s])],
                 !.parent = Moved(T.parent),
                 !.color[y] = T.color[z]]

(* free: the fields of a node that is gone mean nothing, and are cleared;  *)
(* so is the parent of nil, which only rbtree_delete_fixup reads.          *)
Free(T, k) ==
    [T EXCEPT !.child["left"][k] = NIL, !.child["right"][k] = NIL,
              !.parent[k] = NIL, !.parent[NIL] = NIL,
              !.color[k] = "BLACK", !.value[k] = NULL]

(* The node to unlink is z, or its successor when z has two children; its  *)
(* only child, or nil, takes its place.                                    *)
rbtree_delete(T, z) ==
    LET y == IF NIL \in {T.child[s][z] : s \in Sides} THEN z
             ELSE rbtree_mini(T, T.child["right"][z])
        x == IF T.child["left"][y] # NIL THEN T.child["left"][y] ELSE T.child["right"][y]
        unlinked == [Replace(T, y, x) EXCEPT !.parent[x] = T.parent[y]]
        swapped == IF y = z THEN unlinked ELSE Rename(unlinked, z, y)
    IN Free(IF T.color[y] = "BLACK" THEN DeleteFixup(swapped, x) ELSE swapped, z)

-----------------------------------------------------------------------------
Has(k) == rbtree_search(tree, k) # NIL
Answers(op, k, code) == tree_ret' = Call(op, k, code)

TreeSetExists(k) ==
    /\ ~tree_down /\ Has(k)
    /\ Answers("set", k, 1)
    /\ UNCHANGED <<tree, tree_count, tree_oom, tree_down>>

TreeSetStores(k, v) ==
    /\ ~tree_down /\ ~Has(k)
    /\ tree' = rbtree_insert(tree, k, v)
    /\ tree_count' = tree_count + 1
    /\ Answers("set", k, 0)
    /\ UNCHANGED <<tree_oom, tree_down>>

(* No memory for the copy of the key or of the value. *)
TreeSetOutOfMemory(k) ==
    /\ ~tree_down /\ ~Has(k)
    /\ Answers("set", k, -1)
    /\ UNCHANGED <<tree, tree_count, tree_oom, tree_down>>

(* No memory for the node: the NULL is used. *)
TreeSetCrashes(k) ==
    /\ ~tree_down /\ ~Has(k)
    /\ tree_down' = TRUE
    /\ Answers("set", k, NULL)
    /\ UNCHANGED <<tree, tree_count, tree_oom>>

kvs_rbtree_set(k, v) ==
    TreeSetExists(k) \/ TreeSetStores(k, v) \/ TreeSetOutOfMemory(k) \/ TreeSetCrashes(k)

kvs_rbtree_get(k) ==
    /\ ~tree_down
    /\ Answers("get", k, IF Has(k) THEN tree.value[k] ELSE NULL)
    /\ UNCHANGED <<tree, tree_count, tree_oom, tree_down>>

TreeDelNoExist(k) ==
    /\ ~tree_down /\ ~Has(k)
    /\ Answers("del", k, 1)
    /\ UNCHANGED <<tree, tree_count, tree_oom, tree_down>>

(* Mutant: the count is not decremented. *)
TreeDelUncounted(k) ==
    /\ ~tree_down /\ Has(k)
    /\ tree' = rbtree_delete(tree, k)
    /\ Answers("del", k, 0)
    /\ UNCHANGED <<tree_count, tree_oom, tree_down>>

TreeDelUnlinks(k) ==
    /\ ~tree_down /\ Has(k)
    /\ tree' = rbtree_delete(tree, k)
    /\ tree_count' = tree_count - 1
    /\ Answers("del", k, 0)
    /\ UNCHANGED <<tree_oom, tree_down>>

kvs_rbtree_del(k) == TreeDelNoExist(k) \/ TreeDelUnlinks(k)

TreeModNoExist(k) ==
    /\ ~tree_down /\ ~Has(k)
    /\ Answers("mod", k, 1)
    /\ UNCHANGED <<tree, tree_count, tree_oom, tree_down>>

TreeModReplaces(k, v) ==
    /\ ~tree_down /\ Has(k)
    /\ tree' = [tree EXCEPT !.value[k] = v]
    /\ Answers("mod", k, 0)
    /\ UNCHANGED <<tree_count, tree_oom, tree_down>>

(* Mutant: the pointer to the freed value stays, as in the other engines. *)
TreeModDangles(k) ==
    /\ ~tree_down /\ Has(k)
    /\ tree' = [tree EXCEPT !.value[k] = Freed]
    /\ Answers("mod", k, -1)
    /\ tree_oom' = TRUE
    /\ UNCHANGED <<tree_count, tree_down>>

(* The old value is freed, and the NULL of kvs_malloc takes its place. *)
TreeModOutOfMemory(k) ==
    /\ ~tree_down /\ Has(k)
    /\ tree' = [tree EXCEPT !.value[k] = NULL]
    /\ Answers("mod", k, -1)
    /\ tree_oom' = TRUE
    /\ UNCHANGED <<tree_count, tree_down>>

kvs_rbtree_mod(k, v) == TreeModNoExist(k) \/ TreeModReplaces(k, v) \/ TreeModOutOfMemory(k)

kvs_rbtree_exist(k) ==
    /\ ~tree_down
    /\ Answers("exist", k, IF Has(k) THEN 0 ELSE 1)
    /\ UNCHANGED <<tree, tree_count, tree_oom, tree_down>>

TreeNext ==
    \E k \in TreeKeys :
        \/ \E v \in Offered[k] : kvs_rbtree_set(k, v) \/ kvs_rbtree_mod(k, v)
        \/ kvs_rbtree_get(k) \/ kvs_rbtree_del(k) \/ kvs_rbtree_exist(k)

TreeSpec == TreeInit /\ [][TreeNext]_treeVars

-----------------------------------------------------------------------------
(* What hangs below a node, and the number of black nodes on its left. *)
Below(n) ==
    LET set[m \in TreeNodes] ==
            IF m = NIL THEN {}
            ELSE {m} \cup set[tree.child["left"][m]] \cup set[tree.child["right"][m]]
    IN set[n]

BlackHeight(n) ==
    LET height[m \in TreeNodes] ==
            IF m = NIL THEN 0
            ELSE height[tree.child["left"][m]] + (IF tree.color[m] = "BLACK" THEN 1 ELSE 0)
    IN height[n]

Linked == Below(tree.root)

Trees ==
    [root : TreeNodes,
     child : [Sides -> [TreeNodes -> TreeNodes \cup {NULL}]],
     parent : [TreeNodes -> TreeNodes],
     color : [TreeNodes -> {"RED", "BLACK"}],
     value : [TreeKeys -> Values \cup {NULL}]]

(* Types of the tree; nil is black and its children are never written. *)
TreeTypeOK ==
    /\ tree \in Trees
    /\ \A s \in Sides : tree.child[s][NIL] = NULL
    /\ \A n \in TreeKeys : \A s \in Sides : tree.child[s][n] \in TreeNodes
    /\ tree.color[NIL] = "BLACK"
    /\ tree_oom \in BOOLEAN /\ tree_down \in BOOLEAN

(* A search tree whose parent pointers are the inverse of its children:    *)
(* rotations and the swap of rbtree_delete lose no subtree.                *)
TreeOrdered ==
    /\ tree.root # NIL => tree.parent[tree.root] = NIL
    /\ \A n \in Linked : \A s \in Sides :
         LET c == tree.child[s][n] IN
         /\ c # NIL => tree.parent[c] = n
         /\ \A m \in Below(c) : IF s = "left" THEN m < n ELSE m > n

(* The red-black rules, which keep the tree balanced. *)
TreeRedBlack ==
    /\ tree.color[tree.root] = "BLACK"
    /\ \A n \in Linked :
         /\ tree.color[n] = "RED" =>
                \A s \in Sides : tree.color[tree.child[s][n]] = "BLACK"
         /\ BlackHeight(tree.child["left"][n]) = BlackHeight(tree.child["right"][n])

(* count, which the statistics report, is the number of nodes. *)
TreeCountExact == tree_count = Cardinality(Linked)

(* The tree is a map, up to a MOD that runs out of memory and to a crash. *)
TreeTable == [k \in TreeKeys |-> IF k \in Linked THEN tree.value[k] ELSE NULL]

TreeMap == INSTANCE KvMap WITH
    Keys <- TreeKeys,
    Capacity <- -1,
    FullCode <- -1,
    MissCodes <- {1},
    map <- TreeTable,
    ret <- tree_ret

TreeImplementsMap ==
    TreeMap!Init /\ [][treeVars' # treeVars /\ ~(tree_oom' \/ tree_down') => TreeMap!Next]_(TreeMap!vars)

=============================================================================

------------------------------ MODULE KvEngines ------------------------------
(***************************************************************************)
(* The three storage engines of kvs_handler.cpp.  Each has a table, a      *)
(* rwlock and commands of its own (kvs_array_* for SET, rbtree for RSET,   *)
(* hash for HSET), and no call touches two of them: what the engines do    *)
(* together is what each does by itself, so a behaviour uses one of them.  *)
(***************************************************************************)
EXTENDS KvsArray, KvsHash, KvsRbtree

VARIABLE engine     \* the engine whose calls the behaviour is about

vars == <<engine, arrayVars, hashVars, treeVars>>

(* init_kvengine creates the three. *)
Init ==
    /\ engine \in {"array", "hash", "rbtree"}
    /\ ArrayInit /\ HashInit /\ TreeInit

Next ==
    /\ UNCHANGED engine
    /\ \/ engine = "array" /\ ArrayNext /\ UNCHANGED <<hashVars, treeVars>>
       \/ engine = "hash" /\ HashNext /\ UNCHANGED <<arrayVars, treeVars>>
       \/ engine = "rbtree" /\ TreeNext /\ UNCHANGED <<arrayVars, hashVars>>

Spec == Init /\ [][Next]_vars

=============================================================================

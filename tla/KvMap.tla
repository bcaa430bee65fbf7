-------------------------------- MODULE KvMap --------------------------------
(***************************************************************************)
(* What a storage engine promises: a map from keys to values, and for each *)
(* call its return code.  The codes are those of the comments in           *)
(* kvs_array.cpp, kvs_hash.cpp and kvs_rbtree.cpp but for two answers      *)
(* where an engine departs from its comment; these are parameters.         *)
(***************************************************************************)
EXTENDS Integers, FiniteSets

CONSTANTS
    Keys, Values, NULL,
    Capacity,       \* with so many keys no SET succeeds; Unlimited for none
    FullCode,       \* what SET then answers
    MissCodes       \* what DEL may answer for a key that has no value

VARIABLES
    map,    \* the value of each key, NULL when it has none
    ret     \* the last call and what it returned

vars == <<map, ret>>

Returns(op, k, code) == ret' = [op |-> op, key |-> k, code |-> code]

Init ==
    /\ map = [k \in Keys |-> NULL]
    /\ ret = NULL

Unlimited == -1
Full == Capacity # Unlimited /\ Cardinality({k \in Keys : map[k] # NULL}) = Capacity

(* A full engine does not look for the key. *)
SetFull(k) ==
    /\ Full
    /\ Returns("set", k, FullCode)
    /\ UNCHANGED map

(* 0: OK, 1: EXIST *)
Set(k, v) ==
    /\ ~Full
    /\ \/ /\ Returns("set", k, 0)
          /\ map[k] = NULL
          /\ map' = [map EXCEPT ![k] = v]
       \/ /\ Returns("set", k, 1)
          /\ map[k] # NULL
          /\ UNCHANGED map

(* -1: ERROR, there is no memory for a new key *)
SetOutOfMemory(k) ==
    /\ ~Full
    /\ map[k] = NULL
    /\ Returns("set", k, -1)
    /\ UNCHANGED map

(* 0: OK, 1: NO EXIST *)
Mod(k, v) ==
    \/ /\ Returns("mod", k, 0)
       /\ map[k] # NULL
       /\ map' = [map EXCEPT ![k] = v]
    \/ /\ Returns("mod", k, 1)
       /\ map[k] = NULL
       /\ UNCHANGED map

Del(k) ==
    \/ /\ Returns("del", k, 0)
       /\ map[k] # NULL
       /\ map' = [map EXCEPT ![k] = NULL]
    \/ /\ \E code \in MissCodes : Returns("del", k, code)
       /\ map[k] = NULL
       /\ UNCHANGED map

(* NULL: NO EXIST *)
Get(k) ==
    \E v \in Values \cup {NULL} :
        /\ Returns("get", k, v)
        /\ map[k] = v
        /\ UNCHANGED map

(* 0: EXIST, 1: NO EXIST *)
Exist(k) ==
    \/ /\ Returns("exist", k, 0)
       /\ map[k] # NULL
       /\ UNCHANGED map
    \/ /\ Returns("exist", k, 1)
       /\ map[k] = NULL
       /\ UNCHANGED map

Next ==
    \E k \in Keys :
        \/ \E v \in Values : Set(k, v) \/ Mod(k, v)
        \/ SetFull(k) \/ SetOutOfMemory(k) \/ Del(k) \/ Get(k) \/ Exist(k)

Spec == Init /\ [][Next]_vars

=============================================================================

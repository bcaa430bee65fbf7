------------------------------ MODULE KvsArray ------------------------------
(***************************************************************************)
(* kvs_array.cpp: a table of slots searched from the first to the last.    *)
(* Every function runs under global_array_rwlock, so a call is one action. *)
(* Any kvs_malloc may fail.                                                *)
(*                                                                         *)
(* kvs_array_create does not clear the table it allocates; a block of its  *)
(* size comes zeroed from the kernel, which is what Init says.             *)
(***************************************************************************)
EXTENDS Kvstore, FiniteSets

CONSTANTS
    ArrayKeys,
    KVS_ARRAY_SIZE

ASSUME ArrayAssumption == KVS_ARRAY_SIZE \in Nat /\ NULL \notin ArrayKeys

VARIABLES
    array_table,    \* inst->table: a key and a value for each slot
    array_total,    \* inst->total
    array_ret,      \* the last call
    array_oom       \* history: kvs_array_mod ran out of memory

arrayVars == <<array_table, array_total, array_ret, array_oom>>

Slots == 1..KVS_ARRAY_SIZE
Empty == [key |-> NULL, value |-> NULL]

ArrayInit ==
    /\ array_table = [i \in Slots |-> Empty]
    /\ array_total = 0
    /\ array_ret = NULL
    /\ array_oom = FALSE

(* The slots the loops find: the first that holds the key, the first that  *)
(* is free.                                                                *)
IsFirst(i, S) == i \in S /\ \A j \in S : i <= j
SlotsOf(k) == {i \in Slots : array_table[i].key = k}
Stored(k) == SlotsOf(k) # {}
FirstOf(k) == CHOOSE i \in Slots : IsFirst(i, SlotsOf(k))

(* kvs_array_get_internal: the value of the first slot with the key. *)
get_internal(k) == IF Stored(k) THEN array_table[FirstOf(k)].value ELSE NULL

Full == array_total = KVS_ARRAY_SIZE

-----------------------------------------------------------------------------
(* The array is full. *)
SetFull(k) ==
    /\ Full
    /\ array_ret' = Call("set", k, -1)
    /\ UNCHANGED <<array_table, array_total, array_oom>>

SetExists(k) ==
    /\ ~Full
    /\ get_internal(k) # NULL
    /\ array_ret' = Call("set", k, 1)
    /\ UNCHANGED <<array_table, array_total, array_oom>>

(* No memory for the key, or for the value: then the copy of the key leaks. *)
SetOutOfMemory(k) ==
    /\ ~Full
    /\ get_internal(k) = NULL
    /\ array_ret' = Call("set", k, -1)
    /\ UNCHANGED <<array_table, array_total, array_oom>>

(* Mutant: SET does not look for the key first. *)
SetStoresAgain(k, v) ==
    /\ ~Full
    /\ Stored(NULL)
    /\ array_table' = [array_table EXCEPT ![FirstOf(NULL)] = [key |-> k, value |-> v]]
    /\ array_total' = array_total + 1
    /\ array_ret' = Call("set", k, 0)
    /\ UNCHANGED array_oom

(* The first free slot; 2 if the loop finds none. *)
SetStores(k, v) ==
    /\ ~Full
    /\ get_internal(k) = NULL
    /\ IF Stored(NULL)
       THEN /\ array_table' = [array_table EXCEPT ![FirstOf(NULL)] = [key |-> k, value |-> v]]
            /\ array_total' = array_total + 1
            /\ array_ret' = Call("set", k, 0)
       ELSE /\ array_ret' = Call("set", k, 2)
            /\ UNCHANGED <<array_table, array_total>>
    /\ UNCHANGED array_oom

kvs_array_set(k, v) ==
    SetFull(k) \/ SetExists(k) \/ SetOutOfMemory(k) \/ SetStores(k, v)

kvs_array_get(k) ==
    /\ array_ret' = Call("get", k, get_internal(k))
    /\ UNCHANGED <<array_table, array_total, array_oom>>

ModNoExist(k) ==
    /\ ~Stored(k)
    /\ array_ret' = Call("mod", k, 1)
    /\ UNCHANGED <<array_table, array_total, array_oom>>

ModReplaces(k, v) ==
    /\ Stored(k)
    /\ array_table' = [array_table EXCEPT ![FirstOf(k)] = [key |-> k, value |-> v]]
    /\ array_ret' = Call("mod", k, 0)
    /\ UNCHANGED <<array_total, array_oom>>

(* The old value is freed before the new one is allocated. *)
ModOutOfMemory(k) ==
    /\ Stored(k)
    /\ array_table' = [array_table EXCEPT ![FirstOf(k)] = [key |-> k, value |-> Freed]]
    /\ array_ret' = Call("mod", k, -2)
    /\ array_oom' = TRUE
    /\ UNCHANGED array_total

kvs_array_mod(k, v) == ModNoExist(k) \/ ModReplaces(k, v) \/ ModOutOfMemory(k)

DelNoExist(k) ==
    /\ ~Stored(k)
    /\ array_ret' = Call("del", k, 1)
    /\ UNCHANGED <<array_table, array_total, array_oom>>

(* Mutant: DEL frees the key and leaves the value. *)
DelFreesKey(k) ==
    /\ Stored(k)
    /\ array_table' = [array_table EXCEPT ![FirstOf(k)].key = NULL]
    /\ array_total' = array_total - 1
    /\ array_ret' = Call("del", k, 0)
    /\ UNCHANGED array_oom

DelFrees(k) ==
    /\ Stored(k)
    /\ array_table' = [array_table EXCEPT ![FirstOf(k)] = Empty]
    /\ array_total' = array_total - 1
    /\ array_ret' = Call("del", k, 0)
    /\ UNCHANGED array_oom

kvs_array_del(k) == DelNoExist(k) \/ DelFrees(k)

kvs_array_exist(k) ==
    /\ array_ret' = Call("exist", k, IF get_internal(k) # NULL THEN 0 ELSE 1)
    /\ UNCHANGED <<array_table, array_total, array_oom>>

ArrayNext ==
    \E k \in ArrayKeys :
        \/ \E v \in Values : kvs_array_set(k, v) \/ kvs_array_mod(k, v)
        \/ kvs_array_get(k) \/ kvs_array_del(k) \/ kvs_array_exist(k)

ArraySpec == ArrayInit /\ [][ArrayNext]_arrayVars

-----------------------------------------------------------------------------
(* Types of the table and of the answers. *)
ArrayTypeOK ==
    /\ array_table \in [Slots -> [key : ArrayKeys \cup {NULL}, value : Values \cup {NULL, Freed}]]
    /\ array_total \in 0..KVS_ARRAY_SIZE
    /\ array_oom \in BOOLEAN

(* total is the number of slots in use: the test for a full array and the  *)
(* loop that looks for a free slot agree, and 2 is never returned.         *)
Used == {i \in Slots : array_table[i].key # NULL}

ArrayCountExact == array_total = Cardinality(Used)

(* A key has one slot, so that DEL leaves none and MOD misses none. *)
ArrayUniqueKeys ==
    \A i, j \in Used : array_table[i].key = array_table[j].key => i = j

(* A slot has a key exactly when it has a value: SET and EXIST take a      *)
(* non-NULL value for the presence of the key.                             *)
ArrayNoHalfSlot ==
    \A i \in Slots : array_table[i].key = NULL <=> array_table[i].value = NULL

(* Only a MOD that ran out of memory leaves a pointer to freed memory. *)
ArrayNoDangling == ~array_oom => \A i \in Slots : array_table[i].value # Freed

(* The table is consistent, after every call of kvs_array_*. *)
ArrayInvariant ==
    /\ ArrayTypeOK
    /\ ArrayCountExact
    /\ ArrayUniqueKeys
    /\ ArrayNoHalfSlot
    /\ ArrayNoDangling

(* The table is a map of at most KVS_ARRAY_SIZE keys, up to a MOD that     *)
(* runs out of memory.  A full array answers -1, to any key.               *)
ArrayMap == INSTANCE KvMap WITH
    Keys <- ArrayKeys,
    Capacity <- KVS_ARRAY_SIZE,
    FullCode <- -1,
    MissCodes <- {1},
    map <- [k \in ArrayKeys |-> get_internal(k)],
    ret <- array_ret

ArrayImplementsMap ==
    ArrayMap!Init /\ [][arrayVars' # arrayVars /\ ~array_oom' => ArrayMap!Next]_(ArrayMap!vars)

=============================================================================

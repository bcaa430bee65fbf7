------------------------------- MODULE KvsHash -------------------------------
(***************************************************************************)
(* kvs_hash.cpp: chains of nodes, the newest first.  Every function runs   *)
(* under global_hash_rwlock, so a call is one action.  Any kvs_malloc may  *)
(* fail.                                                                   *)
(*                                                                         *)
(* Two calls end the process: one that uses the NULL of a failed           *)
(* _create_node, and one whose slot lies outside the table, where what     *)
(* happens is undefined and the model stops.                               *)
(***************************************************************************)
EXTENDS Kvstore, Sequences, FiniteSets, SequencesExt

CONSTANTS
    HashKeys,
    KeySum,         \* the sum of the (signed) characters of a key
    KVS_HASH_SIZE

ASSUME HashAssumption ==
    /\ KVS_HASH_SIZE \in Nat \ {0}
    /\ KeySum \in [HashKeys -> Int]
    /\ IsFiniteSet(HashKeys)

VARIABLES
    hash_nodes,     \* hash->nodes: the chain of each slot
    hash_count,     \* hash->count
    hash_ret,       \* the last call
    hash_oom,       \* history: kvs_hash_mod ran out of memory
    hash_down       \* the process has crashed

hashVars == <<hash_nodes, hash_count, hash_ret, hash_oom, hash_down>>

HashSlots == 0..KVS_HASH_SIZE - 1

HashInit ==
    /\ hash_nodes = [i \in HashSlots |-> << >>]
    /\ hash_count = 0
    /\ hash_ret = NULL
    /\ hash_oom = FALSE
    /\ hash_down = FALSE

_hash(k) == Rem(KeySum[k], KVS_HASH_SIZE)
InTable(k) == _hash(k) \in HashSlots
Chain(k) == hash_nodes[_hash(k)]

(* The place of a key in its chain, 0 when it has none. *)
Position(k) ==
    LET found == {i \in DOMAIN Chain(k) : Chain(k)[i].key = k}
    IN IF found = {} THEN 0 ELSE CHOOSE i \in found : \A j \in found : i <= j

OnChain(k) == InTable(k) /\ Position(k) # 0
Value(k) == IF OnChain(k) THEN Chain(k)[Position(k)].value ELSE NULL

Serves(k) == ~hash_down /\ InTable(k)

-----------------------------------------------------------------------------
OutsideTable(op, k) ==
    /\ ~hash_down /\ ~InTable(k)
    /\ hash_down' = TRUE
    /\ hash_ret' = Call(op, k, NULL)
    /\ UNCHANGED <<hash_nodes, hash_count, hash_oom>>

HashSetExists(k) ==
    /\ Serves(k)
    /\ Position(k) # 0
    /\ hash_ret' = Call("set", k, 1)
    /\ UNCHANGED <<hash_nodes, hash_count, hash_oom, hash_down>>

(* Mutant: SET does not look for the key. *)
HashSetStoresAgain(k, v) ==
    /\ Serves(k)
    /\ hash_nodes' = [hash_nodes EXCEPT ![_hash(k)] = <<[key |-> k, value |-> v]>> \o @]
    /\ hash_count' = hash_count + 1
    /\ hash_ret' = Call("set", k, 0)
    /\ UNCHANGED <<hash_oom, hash_down>>

HashSetStores(k, v) ==
    /\ Serves(k)
    /\ Position(k) = 0
    /\ hash_nodes' = [hash_nodes EXCEPT ![_hash(k)] = <<[key |-> k, value |-> v]>> \o @]
    /\ hash_count' = hash_count + 1
    /\ hash_ret' = Call("set", k, 0)
    /\ UNCHANGED <<hash_oom, hash_down>>

(* _create_node returns NULL, which is used as a node. *)
HashSetOutOfMemory(k) ==
    /\ Serves(k)
    /\ Position(k) = 0
    /\ hash_down' = TRUE
    /\ hash_ret' = Call("set", k, NULL)
    /\ UNCHANGED <<hash_nodes, hash_count, hash_oom>>

kvs_hash_set(k, v) ==
    HashSetExists(k) \/ HashSetStores(k, v) \/ HashSetOutOfMemory(k)

kvs_hash_get(k) ==
    /\ Serves(k)
    /\ hash_ret' = Call("get", k, Value(k))
    /\ UNCHANGED <<hash_nodes, hash_count, hash_oom, hash_down>>

HashModNoExist(k) ==
    /\ Serves(k)
    /\ Position(k) = 0
    /\ hash_ret' = Call("mod", k, 1)
    /\ UNCHANGED <<hash_nodes, hash_count, hash_oom, hash_down>>

HashModReplaces(k, v) ==
    /\ Serves(k)
    /\ Position(k) # 0
    /\ hash_nodes' = [hash_nodes EXCEPT ![_hash(k)][Position(k)].value = v]
    /\ hash_ret' = Call("mod", k, 0)
    /\ UNCHANGED <<hash_count, hash_oom, hash_down>>

(* The old value is freed before the new one is allocated. *)
HashModOutOfMemory(k) ==
    /\ Serves(k)
    /\ Position(k) # 0
    /\ hash_nodes' = [hash_nodes EXCEPT ![_hash(k)][Position(k)].value = Freed]
    /\ hash_ret' = Call("mod", k, -1)
    /\ hash_oom' = TRUE
    /\ UNCHANGED <<hash_count, hash_down>>

kvs_hash_mod(k, v) ==
    HashModNoExist(k) \/ HashModReplaces(k, v) \/ HashModOutOfMemory(k)

(* Mutant: a DEL that finds nothing is counted. *)
HashDelMissCounted(k) ==
    /\ Serves(k)
    /\ Position(k) = 0
    /\ hash_count' = hash_count - 1
    /\ hash_ret' = Call("del", k, IF Chain(k) = << >> THEN 1 ELSE -1)
    /\ UNCHANGED <<hash_nodes, hash_oom, hash_down>>

(* 1 when the chain is empty, -1 when the key is not on it. *)
HashDelNoExist(k) ==
    /\ Serves(k)
    /\ Position(k) = 0
    /\ hash_ret' = Call("del", k, IF Chain(k) = << >> THEN 1 ELSE -1)
    /\ UNCHANGED <<hash_nodes, hash_count, hash_oom, hash_down>>

(* Mutants: the nodes before the key go too; the count is not decremented. *)
HashDelUnlinksPrefix(k) ==
    /\ Serves(k)
    /\ Position(k) # 0
    /\ hash_nodes' = [hash_nodes EXCEPT ![_hash(k)] =
                          SubSeq(@, Position(k) + 1, Len(@))]
    /\ hash_count' = hash_count - 1
    /\ hash_ret' = Call("del", k, 0)
    /\ UNCHANGED <<hash_oom, hash_down>>

HashDelUncounted(k) ==
    /\ Serves(k)
    /\ Position(k) # 0
    /\ hash_nodes' = [hash_nodes EXCEPT ![_hash(k)] = RemoveAt(@, Position(k))]
    /\ hash_ret' = Call("del", k, 0)
    /\ UNCHANGED <<hash_count, hash_oom, hash_down>>

(* The head, or a node after it: both are unlinked. *)
HashDelUnlinks(k) ==
    /\ Serves(k)
    /\ Position(k) # 0
    /\ hash_nodes' = [hash_nodes EXCEPT ![_hash(k)] = RemoveAt(@, Position(k))]
    /\ hash_count' = hash_count - 1
    /\ hash_ret' = Call("del", k, 0)
    /\ UNCHANGED <<hash_oom, hash_down>>

kvs_hash_del(k) == HashDelNoExist(k) \/ HashDelUnlinks(k)

kvs_hash_exist(k) ==
    /\ Serves(k)
    /\ hash_ret' = Call("exist", k, IF Value(k) # NULL THEN 0 ELSE 1)
    /\ UNCHANGED <<hash_nodes, hash_count, hash_oom, hash_down>>

HashNext ==
    \E k \in HashKeys :
        \/ \E v \in Values : kvs_hash_set(k, v) \/ kvs_hash_mod(k, v)
        \/ kvs_hash_get(k) \/ kvs_hash_del(k) \/ kvs_hash_exist(k)
        \/ \E op \in {"set", "get", "mod", "del", "exist"} : OutsideTable(op, k)

HashSpec == HashInit /\ [][HashNext]_hashVars

-----------------------------------------------------------------------------
Nodes == [key : HashKeys, value : Values \cup {Freed}]

(* Types of the table. *)
HashTypeOK ==
    /\ hash_nodes \in [HashSlots -> Seq(Nodes)]
    /\ hash_count \in Nat
    /\ hash_oom \in BOOLEAN /\ hash_down \in BOOLEAN

(* count, which the statistics report, is the number of keys that can be   *)
(* found in the table.                                                     *)
HashCountExact == hash_count = Cardinality({k \in HashKeys : OnChain(k)})

(* A node sits in the slot of its key, and a key has one node: what _hash  *)
(* and strcmp find is all there is.                                        *)
HashUniqueKeys ==
    \A i \in HashSlots : \A n \in DOMAIN hash_nodes[i] :
        LET k == hash_nodes[i][n].key IN _hash(k) = i /\ Position(k) = n

(* A value that was freed stays in the table only after a MOD that ran out *)
(* of memory (kvs_hash_mod frees the old value first).                     *)
HashNoDangling ==
    ~hash_oom => \A i \in HashSlots : \A n \in DOMAIN hash_nodes[i] :
                     hash_nodes[i][n].value # Freed

(* The inductive invariant. *)
HashInvariant == HashTypeOK /\ HashCountExact /\ HashUniqueKeys /\ HashNoDangling

(* The table is a map, up to a MOD that runs out of memory and to a crash; *)
(* DEL answers 1 or -1 for a key that is not there.                        *)
HashMap == INSTANCE KvMap WITH
    Keys <- HashKeys,
    Capacity <- -1,
    FullCode <- -1,
    MissCodes <- {1, -1},
    map <- [k \in HashKeys |-> Value(k)],
    ret <- hash_ret

HashImplementsMap ==
    HashMap!Init /\ [][hashVars' # hashVars /\ ~(hash_oom' \/ hash_down') => HashMap!Next]_(HashMap!vars)

=============================================================================

---------------------------- MODULE KvTablesProofs ----------------------------
(***************************************************************************)
(* Proofs about the array engine and the hash engine, for every number of  *)
(* slots, every finite set of keys with any sums of their characters, and  *)
(* every set of values.                                                    *)
(***************************************************************************)
EXTENDS KvsArray, KvsHash, FiniteSetTheorems, WellFoundedInduction, TLAPS

(* A loop over the slots of the array or over a chain finds the first one   *)
(* that fits: a set of numbers that is not empty has a least one.           *)
LEMMA LeastExists ==
    ASSUME NEW S \in SUBSET Nat, S # {}
    PROVE  \E i \in S : \A j \in S : i <= j
<1>1. \E R : /\ IsWellFoundedOn(R, Nat)
             /\ \A p \in Nat \X Nat : p[1] < p[2] => p \in R
    BY NatLessThanWellFounded, Zenon DEF OpToRel
<1>2. PICK R : /\ IsWellFoundedOn(R, Nat)
               /\ \A p \in Nat \X Nat : p[1] < p[2] => p \in R
    BY <1>1
<1>3. PICK i \in S : \A j \in S : <<j, i>> \notin R
    BY <1>2, WFMin
<1>4. \A j \in S : ~(j < i)
    BY <1>2, <1>3
<1> QED
    BY <1>3, <1>4

-----------------------------------------------------------------------------
(* The array engine.                                                        *)

LEMMA FirstExists ==
    ASSUME NEW S \in SUBSET Slots, S # {}
    PROVE  \E i \in Slots : IsFirst(i, S)
<1>1. S \subseteq Nat
    BY ArrayAssumption DEF Slots
<1>2. PICK i \in S : \A j \in S : i <= j
    BY <1>1, LeastExists
<1>3. \A j \in S : ~(j < i)
    BY <1>1, <1>2
<1> QED
    BY <1>1, <1>2, <1>3 DEF IsFirst, Slots

LEMMA FirstOfHolds ==
    ASSUME NEW k, Stored(k)
    PROVE  FirstOf(k) \in Slots /\ array_table[FirstOf(k)].key = k
<1>1. \E i \in Slots : IsFirst(i, SlotsOf(k))
    BY FirstExists DEF Stored, SlotsOf
<1> QED
    BY <1>1 DEF FirstOf, IsFirst, SlotsOf

(* The slots are finitely many. *)
LEMMA UsedFinite ==
    /\ IsFiniteSet(Slots) /\ Cardinality(Slots) = KVS_ARRAY_SIZE
    /\ IsFiniteSet(Used) /\ Cardinality(Used) \in Nat
<1>1. IsFiniteSet(Slots) /\ Cardinality(Slots) = KVS_ARRAY_SIZE
    BY FS_Interval, ArrayAssumption DEF Slots
<1>2. Used \in SUBSET Slots
    BY DEF Used
<1> QED
    BY <1>1, <1>2, FS_Subset, FS_CardinalityType

(* A key without a value has no slot: kvs_array_set may take the NULL of   *)
(* kvs_array_get_internal for a missing key.                               *)
LEMMA NotStored ==
    ASSUME ArrayInvariant, NEW k \in ArrayKeys, get_internal(k) = NULL
    PROVE  ~Stored(k)
<1> SUFFICES ASSUME Stored(k) PROVE FALSE
    OBVIOUS
<1>1. FirstOf(k) \in Slots /\ array_table[FirstOf(k)].key = k
    BY FirstOfHolds
<1>2. array_table[FirstOf(k)].value = NULL
    BY DEF get_internal
<1> QED
    BY <1>1, <1>2, ArrayAssumption DEF ArrayInvariant, ArrayNoHalfSlot

(* An array that is not full has a free slot: kvs_array_set never falls    *)
(* through its loop, and never returns 2.                                  *)
LEMMA FreeSlot ==
    ASSUME ArrayInvariant, ~Full
    PROVE  Stored(NULL)
<1> SUFFICES ASSUME ~Stored(NULL) PROVE FALSE
    OBVIOUS
<1>1. Used = Slots
    BY DEF Stored, SlotsOf, Used
<1> QED
    BY <1>1, UsedFinite DEF ArrayInvariant, ArrayCountExact, Full

(* The three ways a call changes the table. *)
LEMMA StorePreserves ==
    ASSUME ArrayInvariant, ~Full, NEW k \in ArrayKeys, NEW v \in Values,
           get_internal(k) = NULL,
           array_table' = [array_table EXCEPT ![FirstOf(NULL)] = [key |-> k, value |-> v]],
           array_total' = array_total + 1,
           array_oom' = array_oom
    PROVE  ArrayInvariant'
<1> DEFINE i == FirstOf(NULL)
<1>1. i \in Slots /\ array_table[i].key = NULL
    BY FreeSlot, FirstOfHolds
<1>2. ~Stored(k)
    BY NotStored
<1> HIDE DEF i
<1>3. array_table' = [array_table EXCEPT ![i] = [key |-> k, value |-> v]]
    BY DEF i
<1>4. ArrayTypeOK'
    BY <1>1, <1>3, ArrayAssumption DEF ArrayInvariant, ArrayTypeOK, Full
<1>5. ArrayCountExact'
  <2>1. Used' = Used \cup {i} /\ i \notin Used
    BY <1>1, <1>3, ArrayAssumption DEF Used, ArrayInvariant, ArrayTypeOK
  <2> QED
    BY <2>1, UsedFinite, FS_AddElement DEF ArrayInvariant, ArrayCountExact
<1>6. ArrayUniqueKeys'
    BY <1>1, <1>2, <1>3 DEF ArrayInvariant, ArrayTypeOK, ArrayUniqueKeys, Used, Stored, SlotsOf
<1>7. ArrayNoHalfSlot'
    BY <1>1, <1>3, ArrayAssumption, ValuesAssumption
    DEF ArrayInvariant, ArrayTypeOK, ArrayNoHalfSlot
<1>8. ArrayNoDangling'
    BY <1>1, <1>3, ValuesAssumption DEF ArrayInvariant, ArrayTypeOK, ArrayNoDangling
<1> QED
    BY <1>4, <1>5, <1>6, <1>7, <1>8 DEF ArrayInvariant

LEMMA ReplacePreserves ==
    ASSUME ArrayInvariant, NEW k \in ArrayKeys, Stored(k), NEW v \in Values \cup {Freed},
           array_table' = [array_table EXCEPT ![FirstOf(k)] = [key |-> k, value |-> v]],
           array_total' = array_total,
           array_oom' \in BOOLEAN,
           array_oom' = FALSE => array_oom = FALSE /\ v # Freed
    PROVE  ArrayInvariant'
<1> DEFINE i == FirstOf(k)
<1>1. i \in Slots /\ array_table[i].key = k
    BY FirstOfHolds
<1> HIDE DEF i
<1>2. array_table' = [array_table EXCEPT ![i] = [key |-> k, value |-> v]]
    BY DEF i
<1>3. ArrayTypeOK'
  <2>1. [key |-> k, value |-> v]
            \in [key : ArrayKeys \cup {NULL}, value : Values \cup {NULL, Freed}]
    OBVIOUS
  <2> QED
    BY <1>1, <1>2, <2>1, ZenonT(60) DEF ArrayInvariant, ArrayTypeOK
<1>4. \A j \in Slots : array_table'[j].key = array_table[j].key
    BY <1>1, <1>2 DEF ArrayInvariant, ArrayTypeOK
<1>5. Used' = Used
    BY <1>4 DEF Used
<1>6. ArrayCountExact'
    BY <1>5 DEF ArrayInvariant, ArrayCountExact
<1>7. ArrayUniqueKeys'
    BY <1>4, <1>5 DEF ArrayInvariant, ArrayUniqueKeys, Used
<1>8. ArrayNoHalfSlot'
    BY <1>1, <1>2, ArrayAssumption, ValuesAssumption
    DEF ArrayInvariant, ArrayTypeOK, ArrayNoHalfSlot
<1>9. ArrayNoDangling'
    BY <1>1, <1>2 DEF ArrayInvariant, ArrayTypeOK, ArrayNoDangling
<1> QED
    BY <1>3, <1>6, <1>7, <1>8, <1>9 DEF ArrayInvariant

LEMMA FreePreserves ==
    ASSUME ArrayInvariant, NEW k \in ArrayKeys, Stored(k),
           array_table' = [array_table EXCEPT ![FirstOf(k)] = Empty],
           array_total' = array_total - 1,
           array_oom' = array_oom
    PROVE  ArrayInvariant'
<1> DEFINE i == FirstOf(k)
<1>1. i \in Slots /\ array_table[i].key = k
    BY FirstOfHolds
<1> HIDE DEF i
<1>2. array_table' = [array_table EXCEPT ![i] = Empty]
    BY DEF i
<1>3. Used' = Used \ {i} /\ i \in Used
    BY <1>1, <1>2, ArrayAssumption DEF Used, Empty, ArrayInvariant, ArrayTypeOK
<1>4. ArrayCountExact'
    BY <1>3, UsedFinite, FS_RemoveElement DEF ArrayInvariant, ArrayCountExact
<1>5. array_total' \in 0..KVS_ARRAY_SIZE
  <2>1. IsFiniteSet(Used \ {i}) /\ Cardinality(Used \ {i}) = Cardinality(Used) - 1
    BY <1>3, UsedFinite, FS_RemoveElement
  <2>2. Cardinality(Used \ {i}) \in Nat
    BY <2>1, FS_CardinalityType
  <2> QED
    BY <2>1, <2>2, ArrayAssumption DEF ArrayInvariant, ArrayTypeOK, ArrayCountExact
<1>6. ArrayTypeOK'
  <2>1. array_table' \in [Slots -> [key : ArrayKeys \cup {NULL}, value : Values \cup {NULL, Freed}]]
    <3>1. Empty \in [key : ArrayKeys \cup {NULL}, value : Values \cup {NULL, Freed}]
      BY DEF Empty
    <3> QED
      BY <1>1, <1>2, <3>1 DEF ArrayInvariant, ArrayTypeOK
  <2>2. array_oom' \in BOOLEAN
    BY DEF ArrayInvariant, ArrayTypeOK
  <2> QED
    BY <1>5, <2>1, <2>2 DEF ArrayTypeOK
<1>7. ArrayUniqueKeys'
    BY <1>2, <1>3 DEF ArrayInvariant, ArrayTypeOK, ArrayUniqueKeys, Used
<1>8. ArrayNoHalfSlot'
    BY <1>1, <1>2 DEF ArrayInvariant, ArrayTypeOK, ArrayNoHalfSlot, Empty
<1>9. ArrayNoDangling'
    BY <1>1, <1>2, ValuesAssumption DEF ArrayInvariant, ArrayTypeOK, ArrayNoDangling, Empty
<1> QED
    BY <1>4, <1>6, <1>7, <1>8, <1>9 DEF ArrayInvariant

(* Every call keeps the invariant, and so does the search of GET. *)
LEMMA ArrayStep ==
    ASSUME ArrayInvariant, [ArrayNext]_arrayVars
    PROVE  ArrayInvariant'
<1>1. ASSUME UNCHANGED <<array_table, array_total, array_oom>>
      PROVE  ArrayInvariant'
    BY <1>1 DEF ArrayInvariant, ArrayTypeOK, ArrayCountExact, ArrayUniqueKeys, ArrayNoHalfSlot,
                ArrayNoDangling, Used
<1>2. ASSUME NEW k \in ArrayKeys, NEW v \in Values, SetStores(k, v) PROVE ArrayInvariant'
    BY <1>2, FreeSlot, StorePreserves DEF SetStores
<1>3. ASSUME NEW k \in ArrayKeys, NEW v \in Values, ModReplaces(k, v) PROVE ArrayInvariant'
  <2>1. array_oom \in BOOLEAN /\ v # Freed
    BY ValuesAssumption DEF ArrayInvariant, ArrayTypeOK
  <2> QED
    BY <1>3, <2>1, ReplacePreserves DEF ModReplaces
<1>4. ASSUME NEW k \in ArrayKeys, ModOutOfMemory(k) PROVE ArrayInvariant'
    BY <1>4, ReplacePreserves DEF ModOutOfMemory
<1>5. ASSUME NEW k \in ArrayKeys, DelFrees(k) PROVE ArrayInvariant'
    BY <1>5, FreePreserves DEF DelFrees
<1>6. CASE UNCHANGED arrayVars
    BY <1>1, <1>6 DEF arrayVars
<1>7. CASE ArrayNext
  <2>1. PICK k \in ArrayKeys :
            \/ \E v \in Values : kvs_array_set(k, v) \/ kvs_array_mod(k, v)
            \/ kvs_array_get(k) \/ kvs_array_del(k) \/ kvs_array_exist(k)
    BY <1>7 DEF ArrayNext
  <2>2. ASSUME NEW v \in Values, kvs_array_set(k, v) PROVE ArrayInvariant'
    BY <1>1, <1>2, <2>2 DEF kvs_array_set, SetFull, SetExists, SetOutOfMemory
  <2>3. ASSUME NEW v \in Values, kvs_array_mod(k, v) PROVE ArrayInvariant'
    BY <1>1, <1>3, <1>4, <2>3 DEF kvs_array_mod, ModNoExist
  <2>4. CASE kvs_array_get(k) \/ kvs_array_exist(k)
    BY <1>1, <2>4 DEF kvs_array_get, kvs_array_exist
  <2>5. CASE kvs_array_del(k)
    BY <1>1, <1>5, <2>5 DEF kvs_array_del, DelNoExist
  <2> QED
    BY <2>1, <2>2, <2>3, <2>4, <2>5
<1> QED
    BY <1>6, <1>7

(* The invariant of the array, whose parts the following theorems name. *)
THEOREM ArrayIsConsistent == ArraySpec => []ArrayInvariant
<1>1. ArrayInit => ArrayInvariant
  <2> SUFFICES ASSUME ArrayInit PROVE ArrayInvariant
    OBVIOUS
  <2>1. Used = {}
    BY DEF ArrayInit, Used, Empty
  <2>2. ArrayCountExact
    BY <2>1, FS_EmptySet DEF ArrayInit, ArrayCountExact
  <2>3. ArrayTypeOK
    <3>1. Empty \in [key : ArrayKeys \cup {NULL}, value : Values \cup {NULL, Freed}]
      BY DEF Empty
    <3>2. array_table \in [Slots -> [key : ArrayKeys \cup {NULL}, value : Values \cup {NULL, Freed}]]
      BY <3>1 DEF ArrayInit
    <3>3. array_total \in 0..KVS_ARRAY_SIZE
      BY ArrayAssumption DEF ArrayInit
    <3>4. array_oom \in BOOLEAN
      BY DEF ArrayInit
    <3> QED
      BY <3>2, <3>3, <3>4 DEF ArrayTypeOK
  <2> QED
    BY <2>1, <2>2, <2>3, ValuesAssumption
    DEF ArrayInit, ArrayInvariant, ArrayUniqueKeys, ArrayNoHalfSlot, ArrayNoDangling, Empty
<1>2. ArrayInvariant /\ [ArrayNext]_arrayVars => ArrayInvariant'
    BY ArrayStep
<1> QED
    BY <1>1, <1>2, PTL DEF ArraySpec

(* Types of the table and of the total (kvs_array.cpp: total stays within  *)
(* the table).                                                             *)
THEOREM ArrayTypes == ArraySpec => []ArrayTypeOK
<1>1. ArrayInvariant => ArrayTypeOK
    BY DEF ArrayInvariant
<1> QED
    BY <1>1, ArrayIsConsistent, PTL

(* total is the number of used slots, after every SET and DEL. *)
THEOREM ArrayCounts == ArraySpec => []ArrayCountExact
<1>1. ArrayInvariant => ArrayCountExact
    BY DEF ArrayInvariant
<1> QED
    BY <1>1, ArrayIsConsistent, PTL

(* A slot has a key exactly when it has a value: what SET and EXIST take   *)
(* for the presence of a key.                                              *)
THEOREM ArraySlotsWhole == ArraySpec => []ArrayNoHalfSlot
<1>1. ArrayInvariant => ArrayNoHalfSlot
    BY DEF ArrayInvariant
<1> QED
    BY <1>1, ArrayIsConsistent, PTL

(* A key has at most one slot, after every SET. *)
THEOREM ArrayKeysUnique == ArraySpec => []ArrayUniqueKeys
<1>1. ArrayInvariant => ArrayUniqueKeys
    BY DEF ArrayInvariant
<1> QED
    BY <1>1, ArrayIsConsistent, PTL

-----------------------------------------------------------------------------
(* What the search returns: the value of the slot that has the key, NULL   *)
(* when none has it.                                                       *)
ArrayFinds ==
    \A k \in ArrayKeys :
        /\ \A i \in Slots : array_table[i].key = k => get_internal(k) = array_table[i].value
        /\ (\A i \in Slots : array_table[i].key # k) => get_internal(k) = NULL

LEMMA ArraySearchFinds == ArrayInvariant => ArrayFinds
<1> SUFFICES ASSUME ArrayInvariant, NEW k \in ArrayKeys
             PROVE  /\ \A i \in Slots : array_table[i].key = k =>
                                            get_internal(k) = array_table[i].value
                    /\ (\A i \in Slots : array_table[i].key # k) => get_internal(k) = NULL
    BY DEF ArrayFinds
<1>1. ASSUME NEW i \in Slots, array_table[i].key = k
      PROVE  get_internal(k) = array_table[i].value
  <2>1. Stored(k)
    BY <1>1 DEF Stored, SlotsOf
  <2>2. FirstOf(k) \in Slots /\ array_table[FirstOf(k)].key = k
    BY <2>1, FirstOfHolds
  <2>3. FirstOf(k) = i
    BY <1>1, <2>2, ArrayAssumption DEF ArrayInvariant, ArrayUniqueKeys, Used
  <2> QED
    BY <2>1, <2>3 DEF get_internal
<1>2. (\A i \in Slots : array_table[i].key # k) => get_internal(k) = NULL
    BY DEF get_internal, Stored, SlotsOf
<1> QED
    BY <1>1, <1>2

(* What a call does to the map the array stands for. *)
LEMMA SearchAfterStore ==
    ASSUME ArrayInvariant, ArrayInvariant', NEW k \in ArrayKeys, NEW v \in Values,
           NEW i \in Slots, array_table[i].key \in {k, NULL},
           get_internal(k) # NULL => array_table[i].key = k,
           array_table' = [array_table EXCEPT ![i] = [key |-> k, value |-> v]]
    PROVE  [x \in ArrayKeys |-> get_internal(x)]' =
               [[x \in ArrayKeys |-> get_internal(x)] EXCEPT ![k] = v]
<1>1. ArrayFinds /\ ArrayFinds'
    BY ArraySearchFinds, PTL
<1>2. \A j \in Slots : array_table'[j] = IF j = i THEN [key |-> k, value |-> v] ELSE array_table[j]
    BY DEF ArrayInvariant, ArrayTypeOK
<1>3. get_internal(k)' = v
    BY <1>1, <1>2 DEF ArrayFinds
<1>4. ASSUME NEW x \in ArrayKeys, x # k PROVE get_internal(x)' = get_internal(x)
  <2>1. CASE \E j \in Slots : array_table[j].key = x
    <3>1. PICK j \in Slots : array_table[j].key = x
      BY <2>1
    <3>2. j # i
      BY <1>4, <3>1, ArrayAssumption
    <3> QED
      BY <1>1, <1>2, <3>1, <3>2 DEF ArrayFinds
  <2>2. CASE \A j \in Slots : array_table[j].key # x
    <3>1. \A j \in Slots : array_table'[j].key # x
      BY <1>2, <1>4, <2>2
    <3> QED
      BY <1>1, <2>2, <3>1 DEF ArrayFinds
  <2> QED
    BY <2>1, <2>2
<1> QED
    BY <1>3, <1>4

LEMMA SearchAfterFree ==
    ASSUME ArrayInvariant, ArrayInvariant', NEW k \in ArrayKeys, Stored(k),
           array_table' = [array_table EXCEPT ![FirstOf(k)] = Empty]
    PROVE  [x \in ArrayKeys |-> get_internal(x)]' =
               [[x \in ArrayKeys |-> get_internal(x)] EXCEPT ![k] = NULL]
<1> DEFINE i == FirstOf(k)
<1>1. ArrayFinds /\ ArrayFinds'
    BY ArraySearchFinds, PTL
<1>2. i \in Slots /\ array_table[i].key = k
    BY FirstOfHolds
<1>3. \A j \in Slots : array_table'[j] = IF j = i THEN Empty ELSE array_table[j]
    BY <1>2 DEF ArrayInvariant, ArrayTypeOK
<1> HIDE DEF i
<1>4. \A j \in Slots : j # i => array_table[j].key # k
    BY <1>2, ArrayAssumption DEF ArrayInvariant, ArrayUniqueKeys, Used
<1>5. get_internal(k)' = NULL
  <2>1. \A j \in Slots : array_table'[j].key # k
    BY <1>3, <1>4, ArrayAssumption DEF Empty
  <2> QED
    BY <1>1, <2>1 DEF ArrayFinds
<1>6. ASSUME NEW x \in ArrayKeys, x # k PROVE get_internal(x)' = get_internal(x)
  <2>1. CASE \E j \in Slots : array_table[j].key = x
    <3>1. PICK j \in Slots : array_table[j].key = x
      BY <2>1
    <3>2. j # i
      BY <1>2, <1>6, <3>1
    <3> QED
      BY <1>1, <1>3, <3>1, <3>2 DEF ArrayFinds
  <2>2. CASE \A j \in Slots : array_table[j].key # x
    <3>1. \A j \in Slots : array_table'[j].key # x
      BY <1>3, <2>2, ArrayAssumption DEF Empty
    <3> QED
      BY <1>1, <2>2, <3>1 DEF ArrayFinds
  <2> QED
    BY <2>1, <2>2
<1> QED
    BY <1>5, <1>6

LEMMA SearchUnchanged ==
    ASSUME UNCHANGED array_table
    PROVE  /\ [x \in ArrayKeys |-> get_internal(x)]' = [x \in ArrayKeys |-> get_internal(x)]
           /\ \A x \in ArrayKeys : get_internal(x)' = get_internal(x)
BY DEF get_internal, Stored, FirstOf, SlotsOf

(* A stored key has a value, and the search finds it. *)
LEMMA StoredHasValue ==
    ASSUME ArrayInvariant, NEW k \in ArrayKeys
    PROVE  /\ Stored(k) <=> get_internal(k) # NULL
           /\ ~array_oom => get_internal(k) \in Values \cup {NULL}
<1>1. CASE Stored(k)
  <2>1. FirstOf(k) \in Slots /\ array_table[FirstOf(k)].key = k
    BY <1>1, FirstOfHolds
  <2>2. get_internal(k) = array_table[FirstOf(k)].value
    BY <1>1 DEF get_internal
  <2>3. get_internal(k) \in Values \cup {NULL, Freed}
    BY <2>1, <2>2 DEF ArrayInvariant, ArrayTypeOK
  <2> QED
    BY <1>1, <2>1, <2>2, <2>3, ArrayAssumption DEF ArrayInvariant, ArrayNoHalfSlot, ArrayNoDangling
<1>2. CASE ~Stored(k)
    BY <1>2 DEF get_internal
<1> QED
    BY <1>1, <1>2

(* The test for a full array and the number of keys of the map agree: the  *)
(* slots in use are one-to-one with the keys that have a value.            *)
LEMMA FullIsFull ==
    ASSUME ArrayInvariant
    PROVE  ArrayMap!Full <=> Full
<1> DEFINE V == {k \in ArrayKeys : get_internal(k) # NULL}
           f == [i \in Used |-> array_table[i].key]
<1>1. \A i \in Used : array_table[i].key \in ArrayKeys /\ i \in Slots
    BY DEF ArrayInvariant, ArrayTypeOK, Used
<1>2. \A i \in Used : Stored(array_table[i].key)
    BY <1>1 DEF Stored, SlotsOf
<1>3. f \in [Used -> V]
    BY <1>1, <1>2, StoredHasValue
<1>4. \A i, j \in Used : f[i] = f[j] => i = j
    BY DEF ArrayInvariant, ArrayUniqueKeys
<1>5. \A k \in V : \E i \in Used : f[i] = k
  <2> TAKE k \in V
  <2>1. FirstOf(k) \in Slots /\ array_table[FirstOf(k)].key = k
    BY StoredHasValue, FirstOfHolds
  <2>2. FirstOf(k) \in Used
    BY <2>1, ArrayAssumption DEF Used
  <2> QED
    BY <2>1, <2>2
<1>6. f \in Bijection(Used, V)
  <2> HIDE DEF f, V
  <2> QED
    BY <1>3, <1>4, <1>5 DEF Bijection, Injection, Surjection, IsInjective
<1>7. Cardinality(V) = Cardinality(Used)
  <2> HIDE DEF f, V
  <2> QED
    BY <1>6, UsedFinite, FS_Bijection DEF ExistsBijection
<1>8. V = {k \in ArrayKeys : [x \in ArrayKeys |-> get_internal(x)][k] # NULL}
    OBVIOUS
<1>9. Cardinality({k \in ArrayKeys : [x \in ArrayKeys |-> get_internal(x)][k] # NULL}) = array_total
    BY <1>7, <1>8 DEF ArrayInvariant, ArrayCountExact
<1>10. \A S : ArrayMap!Cardinality(S) = Cardinality(S)
    BY DEF ArrayMap!Cardinality, Cardinality
<1> HIDE DEF f, V
<1> QED
    BY <1>9, <1>10, ArrayAssumption DEF Full, ArrayMap!Full, ArrayMap!Unlimited

LEMMA ArrayStepImplements ==
    ASSUME ArrayInvariant, ArrayInvariant', [ArrayNext]_arrayVars,
           arrayVars' # arrayVars, ~array_oom'
    PROVE  ArrayMap!Next
<1>1. PICK k \in ArrayKeys :
          \/ \E v \in Values : kvs_array_set(k, v) \/ kvs_array_mod(k, v)
          \/ kvs_array_get(k) \/ kvs_array_del(k) \/ kvs_array_exist(k)
    BY DEF ArrayNext
<1>2. ASSUME NEW v \in Values, kvs_array_set(k, v) PROVE ArrayMap!Next
  <2>0. CASE SetFull(k)
    <3>1. ArrayMap!SetFull(k)
      BY <2>0, FullIsFull, SearchUnchanged
      DEF SetFull, Call, ArrayMap!SetFull, ArrayMap!Returns
    <3> QED
      BY <3>1 DEF ArrayMap!Next
  <2>1. CASE SetOutOfMemory(k)
    <3>1. ArrayMap!SetOutOfMemory(k)
      BY <2>1, FullIsFull, SearchUnchanged
      DEF SetOutOfMemory, Call, ArrayMap!SetOutOfMemory, ArrayMap!Returns
    <3> QED
      BY <3>1 DEF ArrayMap!Next
  <2>2. CASE SetExists(k)
    <3>1. ArrayMap!Set(k, v)
      BY <2>2, FullIsFull, SearchUnchanged DEF SetExists, Call, ArrayMap!Set, ArrayMap!Returns
    <3> QED
      BY <3>1 DEF ArrayMap!Next
  <2>3. CASE SetStores(k, v)
    <3>1. FirstOf(NULL) \in Slots /\ array_table[FirstOf(NULL)].key = NULL
      BY <2>3, FreeSlot, FirstOfHolds DEF SetStores
    <3>2. [x \in ArrayKeys |-> get_internal(x)]' =
              [[x \in ArrayKeys |-> get_internal(x)] EXCEPT ![k] = v]
      BY <2>3, <3>1, FreeSlot, SearchAfterStore DEF SetStores
    <3>3. ArrayMap!Set(k, v)
      BY <2>3, <3>2, FreeSlot, FullIsFull DEF SetStores, Call, ArrayMap!Set, ArrayMap!Returns
    <3> QED
      BY <3>3 DEF ArrayMap!Next
  <2> QED
    BY <1>2, <2>0, <2>1, <2>2, <2>3 DEF kvs_array_set
<1>3. ASSUME NEW v \in Values, kvs_array_mod(k, v) PROVE ArrayMap!Next
  <2>1. CASE ModNoExist(k)
    <3>1. ArrayMap!Mod(k, v)
      BY <2>1, SearchUnchanged, StoredHasValue
      DEF ModNoExist, Call, ArrayMap!Mod, ArrayMap!Returns
    <3> QED
      BY <3>1 DEF ArrayMap!Next
  <2>2. CASE ModReplaces(k, v)
    <3>1. FirstOf(k) \in Slots /\ array_table[FirstOf(k)].key = k
      BY <2>2, FirstOfHolds DEF ModReplaces
    <3>2. [x \in ArrayKeys |-> get_internal(x)]' =
              [[x \in ArrayKeys |-> get_internal(x)] EXCEPT ![k] = v]
      BY <2>2, <3>1, SearchAfterStore DEF ModReplaces
    <3>3. ArrayMap!Mod(k, v)
      BY <2>2, <3>2, StoredHasValue DEF ModReplaces, Call, ArrayMap!Mod, ArrayMap!Returns
    <3> QED
      BY <3>3 DEF ArrayMap!Next
  <2>3. CASE ModOutOfMemory(k)
    BY <2>3 DEF ModOutOfMemory
  <2> QED
    BY <1>3, <2>1, <2>2, <2>3 DEF kvs_array_mod
<1>4. CASE kvs_array_get(k)
  <2>1. get_internal(k) \in Values \cup {NULL}
    BY <1>4, StoredHasValue DEF kvs_array_get
  <2>2. ArrayMap!Get(k)
    BY <1>4, <2>1, SearchUnchanged DEF kvs_array_get, Call, ArrayMap!Get, ArrayMap!Returns
  <2> QED
    BY <2>2 DEF ArrayMap!Next
<1>5. CASE kvs_array_exist(k)
  <2>1. ArrayMap!Exist(k)
    BY <1>5, SearchUnchanged DEF kvs_array_exist, Call, ArrayMap!Exist, ArrayMap!Returns
  <2> QED
    BY <2>1 DEF ArrayMap!Next
<1>6. CASE kvs_array_del(k)
  <2>1. CASE DelNoExist(k)
    <3>1. ArrayMap!Del(k)
      BY <2>1, SearchUnchanged, StoredHasValue
      DEF DelNoExist, Call, ArrayMap!Del, ArrayMap!Returns
    <3> QED
      BY <3>1 DEF ArrayMap!Next
  <2>2. CASE DelFrees(k)
    <3>1. [x \in ArrayKeys |-> get_internal(x)]' =
              [[x \in ArrayKeys |-> get_internal(x)] EXCEPT ![k] = NULL]
      BY <2>2, SearchAfterFree DEF DelFrees
    <3>2. ArrayMap!Del(k)
      BY <2>2, <3>1, StoredHasValue DEF DelFrees, Call, ArrayMap!Del, ArrayMap!Returns
    <3> QED
      BY <3>2 DEF ArrayMap!Next
  <2> QED
    BY <1>6, <2>1, <2>2 DEF kvs_array_del
<1> QED
    BY <1>1, <1>2, <1>3, <1>4, <1>5, <1>6

(* The array implements a map of at most KVS_ARRAY_SIZE keys: every call   *)
(* of kvs_array_* changes the map and answers as it should, with -1 to     *)
(* every SET when the map is full, up to a MOD that runs out of memory.    *)
THEOREM ArrayIsMap == ArraySpec => ArrayImplementsMap
<1>1. ArrayInit => ArrayMap!Init
  <2> SUFFICES ASSUME ArrayInit PROVE ArrayMap!Init
    OBVIOUS
  <2>1. \A k \in ArrayKeys : get_internal(k) = NULL
    BY ArrayAssumption DEF ArrayInit, get_internal, Stored, SlotsOf, Empty
  <2> QED
    BY <2>1 DEF ArrayInit, ArrayMap!Init
<1>2. ArrayInvariant /\ ArrayInvariant' /\ [ArrayNext]_arrayVars
        => [arrayVars' # arrayVars /\ ~array_oom' => ArrayMap!Next]_(ArrayMap!vars)
    BY ArrayStepImplements
<1> QED
    BY <1>1, <1>2, ArrayIsConsistent, PTL DEF ArraySpec, ArrayImplementsMap

-----------------------------------------------------------------------------
(* The hash engine.                                                         *)

(* A new head: every other node is one place further. *)
LEMMA HeadAdded ==
    ASSUME NEW s \in Seq(Nodes), NEW node \in Nodes
    PROVE  /\ <<node>> \o s \in Seq(Nodes)
           /\ DOMAIN (<<node>> \o s) = 1..Len(s) + 1
           /\ \A n \in 1..Len(s) + 1 : (<<node>> \o s)[n] = IF n = 1 THEN node ELSE s[n - 1]
    OBVIOUS

(* A node less: those behind it are one place nearer. *)
LEMMA NodeRemoved ==
    ASSUME NEW s \in Seq(Nodes), NEW p \in DOMAIN s
    PROVE  /\ RemoveAt(s, p) \in Seq(Nodes)
           /\ DOMAIN RemoveAt(s, p) = 1..Len(s) - 1
           /\ \A n \in 1..Len(s) - 1 :
                 RemoveAt(s, p)[n] = IF n < p THEN s[n] ELSE s[n + 1]
<1> DEFINE front == SubSeq(s, 1, p - 1)
           back == SubSeq(s, p + 1, Len(s))
<1>1. /\ front \in Seq(Nodes) /\ Len(front) = p - 1
      /\ \A n \in 1..p - 1 : front[n] = s[n]
    OBVIOUS
<1>2. /\ back \in Seq(Nodes) /\ Len(back) = Len(s) - p
      /\ \A n \in 1..Len(s) - p : back[n] = s[p + n]
    OBVIOUS
<1> HIDE DEF front, back
<1>3. RemoveAt(s, p) = front \o back
    BY DEF RemoveAt, front, back
<1>4. /\ front \o back \in Seq(Nodes) /\ Len(front \o back) = Len(s) - 1
      /\ \A n \in 1..Len(s) - 1 :
            (front \o back)[n] = IF n < p THEN front[n] ELSE back[n - p + 1]
  <2>1. /\ front \o back \in Seq(Nodes) /\ Len(front \o back) = Len(front) + Len(back)
        /\ \A n \in 1..Len(front) + Len(back) :
              (front \o back)[n] = IF n <= Len(front) THEN front[n] ELSE back[n - Len(front)]
    BY <1>1, <1>2, SMTT(30)
  <2>2. Len(s) \in Nat /\ p \in 1..Len(s)
    OBVIOUS
  <2>3. Len(front) + Len(back) = Len(s) - 1
    BY <1>1, <1>2, <2>2
  <2>4. ASSUME NEW n \in 1..Len(s) - 1
        PROVE  (front \o back)[n] = IF n < p THEN front[n] ELSE back[n - p + 1]
    <3>1. (front \o back)[n] = IF n <= Len(front) THEN front[n] ELSE back[n - Len(front)]
      BY <2>1, <2>3
    <3>2. (n <= p - 1 <=> n < p) /\ n - (p - 1) = n - p + 1
      BY <2>2
    <3> QED
      BY <1>1, <3>1, <3>2
  <2> QED
    BY <2>1, <2>3, <2>4
<1>5. \A n \in 1..Len(s) - 1 : n < p => front[n] = s[n]
    BY <1>1
<1>6. \A n \in 1..Len(s) - 1 : ~(n < p) => back[n - p + 1] = s[n + 1]
    BY <1>2
<1> QED
    BY <1>3, <1>4, <1>5, <1>6

-----------------------------------------------------------------------------
(* What a search in a chain finds.                                          *)

Placed ==
    \A i \in HashSlots : \A n \in DOMAIN hash_nodes[i] : _hash(hash_nodes[i][n].key) = i

Once ==
    \A i \in HashSlots : \A n, m \in DOMAIN hash_nodes[i] :
        hash_nodes[i][n].key = hash_nodes[i][m].key => n = m

ChainTypes == hash_nodes \in [HashSlots -> Seq(Nodes)]

Found(k) == \E n \in DOMAIN Chain(k) : Chain(k)[n].key = k

LEMMA SearchFinds ==
    ASSUME ChainTypes, NEW k \in HashKeys, InTable(k)
    PROVE  /\ Position(k) # 0 <=> Found(k)
           /\ Position(k) # 0 => Position(k) \in DOMAIN Chain(k) /\ Chain(k)[Position(k)].key = k
<1> DEFINE found == {i \in DOMAIN Chain(k) : Chain(k)[i].key = k}
<1>1. Chain(k) \in Seq(Nodes)
    BY DEF ChainTypes, Chain, InTable
<1>2. found \in SUBSET Nat /\ 0 \notin found
    BY <1>1
<1>3. CASE found = {}
    BY <1>3 DEF Position, Found
<1>4. CASE found # {}
  <2>1. \E i \in found : \A j \in found : i <= j
    BY <1>2, <1>4, LeastExists
  <2>2. Position(k) = CHOOSE i \in found : \A j \in found : i <= j
    BY <1>4 DEF Position
  <2>3. Position(k) \in found
    BY <2>1, <2>2
  <2> QED
    BY <1>2, <2>3 DEF Found
<1> QED
    BY <1>3, <1>4

(* One node for each key, in its own slot: HashUniqueKeys without CHOOSE.  *)
LEMMA UniqueIsOnce ==
    ASSUME ChainTypes
    PROVE  HashUniqueKeys <=> Placed /\ Once
<1>1. ASSUME NEW i \in HashSlots, NEW n \in DOMAIN hash_nodes[i]
      PROVE  hash_nodes[i][n].key \in HashKeys
  <2>1. hash_nodes[i][n] \in Nodes
    BY <1>1 DEF ChainTypes
  <2> QED
    BY <2>1 DEF Nodes
<1>2. ASSUME HashUniqueKeys PROVE Placed /\ Once
  <2>1. Placed
    BY <1>2 DEF HashUniqueKeys, Placed
  <2>2. ASSUME NEW i \in HashSlots, NEW n \in DOMAIN hash_nodes[i],
               NEW m \in DOMAIN hash_nodes[i], hash_nodes[i][n].key = hash_nodes[i][m].key
        PROVE  n = m
    <3>1. Position(hash_nodes[i][n].key) = n /\ Position(hash_nodes[i][m].key) = m
      BY <1>2 DEF HashUniqueKeys
    <3> QED
      BY <2>2, <3>1
  <2> QED
    BY <2>1, <2>2 DEF Once
<1>3. ASSUME Placed, Once PROVE HashUniqueKeys
  <2> SUFFICES ASSUME NEW i \in HashSlots, NEW n \in DOMAIN hash_nodes[i]
               PROVE  /\ _hash(hash_nodes[i][n].key) = i
                      /\ Position(hash_nodes[i][n].key) = n
    BY DEF HashUniqueKeys
  <2> DEFINE k == hash_nodes[i][n].key
  <2>1. k \in HashKeys /\ _hash(k) = i /\ Chain(k) = hash_nodes[i] /\ InTable(k)
    BY <1>1, <1>3 DEF Placed, Chain, InTable
  <2>2. Found(k)
    BY <2>1 DEF Found
  <2>3. Position(k) \in DOMAIN hash_nodes[i] /\ hash_nodes[i][Position(k)].key = k
    <3> HIDE DEF k
    <3> QED
      BY <2>1, <2>2, SearchFinds
  <2> QED
    BY <1>3, <2>1, <2>3 DEF Once
<1> QED
    BY <1>2, <1>3

(* The key of a node is found at that node. *)
LEMMA FoundAt ==
    ASSUME ChainTypes, Once, NEW k \in HashKeys, InTable(k),
           NEW n \in DOMAIN Chain(k), Chain(k)[n].key = k
    PROVE  OnChain(k) /\ Position(k) = n /\ Value(k) = Chain(k)[n].value
<1>1. Position(k) \in DOMAIN Chain(k) /\ Chain(k)[Position(k)].key = k /\ Position(k) # 0
    BY SearchFinds DEF Found
<1>2. Position(k) = n
    BY <1>1 DEF Once, Chain, InTable
<1> QED
    BY <1>1, <1>2 DEF OnChain, Value

(* Finding a key, said of the chains alone. *)
Finds ==
    \A k \in HashKeys :
        /\ OnChain(k) <=> InTable(k) /\ Found(k)
        /\ ~OnChain(k) => Value(k) = NULL
        /\ InTable(k) => \A n \in DOMAIN Chain(k) :
                             Chain(k)[n].key = k => Value(k) = Chain(k)[n].value

LEMMA SearchIsExact == ChainTypes /\ Once => Finds
<1> SUFFICES ASSUME ChainTypes, Once, NEW k \in HashKeys
             PROVE  /\ OnChain(k) <=> InTable(k) /\ Found(k)
                    /\ ~OnChain(k) => Value(k) = NULL
                    /\ InTable(k) => \A n \in DOMAIN Chain(k) :
                                         Chain(k)[n].key = k => Value(k) = Chain(k)[n].value
    BY DEF Finds
<1>1. OnChain(k) <=> InTable(k) /\ Found(k)
    BY SearchFinds DEF OnChain
<1>2. ~OnChain(k) => Value(k) = NULL
    BY DEF Value
<1> QED
    BY <1>1, <1>2, FoundAt

-----------------------------------------------------------------------------
(* The three ways a chain changes.                                          *)

HeadStored(k, v) ==
    hash_nodes' = [hash_nodes EXCEPT ![_hash(k)] = <<[key |-> k, value |-> v]>> \o @]
ValueReplaced(k, v) ==
    hash_nodes' = [hash_nodes EXCEPT ![_hash(k)][Position(k)].value = v]
NodeUnlinked(k) ==
    hash_nodes' = [hash_nodes EXCEPT ![_hash(k)] = RemoveAt(@, Position(k))]

ChainsOK == ChainTypes /\ Placed /\ Once

(* A key that keeps its node is found as before, wherever the node is now. *)
LEMMA KeyUnmoved ==
    ASSUME Finds, Finds', NEW x \in HashKeys,
           InTable(x) =>
              /\ \A n \in DOMAIN hash_nodes[_hash(x)] : hash_nodes[_hash(x)][n].key = x =>
                    \E m \in DOMAIN hash_nodes'[_hash(x)] :
                        hash_nodes'[_hash(x)][m] = hash_nodes[_hash(x)][n]
              /\ \A m \in DOMAIN hash_nodes'[_hash(x)] : hash_nodes'[_hash(x)][m].key = x =>
                    \E n \in DOMAIN hash_nodes[_hash(x)] :
                        hash_nodes[_hash(x)][n] = hash_nodes'[_hash(x)][m]
    PROVE  (OnChain(x)' <=> OnChain(x)) /\ Value(x)' = Value(x)
<1>1. InTable(x)' = InTable(x) /\ Chain(x) = hash_nodes[_hash(x)]
      /\ Chain(x)' = hash_nodes'[_hash(x)]
    BY DEF InTable, Chain, _hash
<1>2. Found(x) = \E n \in DOMAIN hash_nodes[_hash(x)] : hash_nodes[_hash(x)][n].key = x
    BY <1>1 DEF Found
<1>3. Found(x)' = \E n \in DOMAIN hash_nodes'[_hash(x)] : hash_nodes'[_hash(x)][n].key = x
    BY <1>1 DEF Found
<1>4. /\ OnChain(x) <=> InTable(x) /\ Found(x)
      /\ OnChain(x)' <=> InTable(x) /\ Found(x)'
    BY <1>1 DEF Finds
<1>5. InTable(x) => (Found(x)' <=> Found(x))
    BY <1>2, <1>3
<1>6. OnChain(x)' <=> OnChain(x)
    BY <1>4, <1>5
<1>7. CASE ~OnChain(x)
    BY <1>6, <1>7 DEF Finds
<1>8. CASE OnChain(x)
  <2>1. PICK n \in DOMAIN hash_nodes[_hash(x)] : hash_nodes[_hash(x)][n].key = x
    BY <1>2, <1>4, <1>8
  <2>2. PICK m \in DOMAIN hash_nodes'[_hash(x)] :
            hash_nodes'[_hash(x)][m] = hash_nodes[_hash(x)][n]
    BY <1>4, <1>8, <2>1
  <2>3. Value(x) = hash_nodes[_hash(x)][n].value
    BY <1>1, <1>4, <1>8, <2>1 DEF Finds
  <2>4. Value(x)' = hash_nodes'[_hash(x)][m].value
    BY <1>1, <1>4, <1>8, <2>1, <2>2 DEF Finds
  <2> QED
    BY <1>6, <2>2, <2>3, <2>4
<1> QED
    BY <1>6, <1>7, <1>8

(* The same for a key whose chain is another. *)
LEMMA ChainUntouched ==
    ASSUME Finds, Finds', NEW x \in HashKeys,
           InTable(x) => hash_nodes'[_hash(x)] = hash_nodes[_hash(x)]
    PROVE  (OnChain(x)' <=> OnChain(x)) /\ Value(x)' = Value(x)
    BY KeyUnmoved

(* And a key that has a node now. *)
LEMMA KeyAt ==
    ASSUME Finds, NEW x \in HashKeys, InTable(x),
           NEW n \in DOMAIN hash_nodes[_hash(x)], hash_nodes[_hash(x)][n].key = x
    PROVE  OnChain(x) /\ Value(x) = hash_nodes[_hash(x)][n].value
    BY DEF Finds, Found, Chain

(* SET: the chains stay sound, and k alone is found with another value. *)
LEMMA ChainsAfterStore ==
    ASSUME ChainsOK, NEW k \in HashKeys, InTable(k), ~Found(k),
           NEW v \in Values, HeadStored(k, v)
    PROVE  /\ ChainsOK'
           /\ OnChain(k)' /\ Value(k)' = v
           /\ \A x \in HashKeys \ {k} : (OnChain(x)' <=> OnChain(x)) /\ Value(x)' = Value(x)
<1> DEFINE h == _hash(k)
           new == <<[key |-> k, value |-> v]>> \o hash_nodes[h]
           s == hash_nodes[h]
<1>1. h \in HashSlots /\ s \in Seq(Nodes) /\ [key |-> k, value |-> v] \in Nodes
    BY DEF ChainsOK, ChainTypes, InTable, Nodes
<1>2. /\ new \in Seq(Nodes) /\ DOMAIN new = 1..Len(s) + 1
      /\ \A n \in 1..Len(s) + 1 : new[n] = IF n = 1 THEN [key |-> k, value |-> v] ELSE s[n - 1]
    BY <1>1, HeadAdded
<1>3. \A j \in HashSlots : hash_nodes'[j] = IF j = h THEN new ELSE hash_nodes[j]
    BY <1>1 DEF ChainsOK, ChainTypes, HeadStored
<1>4. hash_nodes' \in [HashSlots -> Seq(Nodes)]
    BY <1>1, <1>2 DEF ChainsOK, ChainTypes, HeadStored
<1>5. DOMAIN s = 1..Len(s) /\ Len(s) \in Nat
    BY <1>1
<1>6. \A n \in DOMAIN s : s[n].key # k
    BY DEF Found, Chain
<1> HIDE DEF new, s
<1>7. \A n \in 1..Len(s) + 1 : n # 1 => n - 1 \in DOMAIN s
    BY <1>5
<1>8. Placed'
  <2> SUFFICES ASSUME NEW i \in HashSlots, NEW n \in DOMAIN hash_nodes'[i]
               PROVE  _hash(hash_nodes'[i][n].key) = i
    BY DEF Placed, _hash
  <2>1. CASE i # h
    BY <1>3, <2>1 DEF ChainsOK, Placed
  <2>2. CASE i = h
    <3>1. n \in 1..Len(s) + 1 /\ hash_nodes'[i][n] = new[n]
      BY <1>2, <1>3, <2>2
    <3>2. CASE n = 1
      BY <1>2, <2>2, <3>1, <3>2
    <3>3. CASE n # 1
      <4>1. n - 1 \in DOMAIN s /\ new[n] = s[n - 1]
        BY <1>2, <1>7, <3>1, <3>3
      <4> QED
        BY <1>1, <2>2, <3>1, <4>1 DEF ChainsOK, Placed, s
    <3> QED
      BY <3>2, <3>3
  <2> QED
    BY <2>1, <2>2
<1>9. Once'
  <2> SUFFICES ASSUME NEW i \in HashSlots, NEW n \in DOMAIN hash_nodes'[i],
                      NEW m \in DOMAIN hash_nodes'[i],
                      hash_nodes'[i][n].key = hash_nodes'[i][m].key
               PROVE  n = m
    BY DEF Once
  <2>1. CASE i # h
    BY <1>3, <2>1 DEF ChainsOK, Once
  <2>2. CASE i = h
    <3>1. n \in 1..Len(s) + 1 /\ m \in 1..Len(s) + 1 /\ new[n].key = new[m].key
      BY <1>2, <1>3, <2>2
    <3>2. n = 1 <=> m = 1
      BY <1>2, <1>6, <1>7, <3>1
    <3>3. ASSUME n # 1, m # 1 PROVE n - 1 = m - 1
      BY <1>1, <1>2, <1>7, <3>1, <3>3 DEF ChainsOK, Once, s
    <3> QED
      BY <1>5, <3>1, <3>2, <3>3
  <2> QED
    BY <2>1, <2>2
<1>10. ChainsOK'
    BY <1>4, <1>8, <1>9 DEF ChainsOK, ChainTypes
<1>11. Finds
    BY SearchIsExact DEF ChainsOK
<1>12. Finds'
  <2>1. ChainTypes' /\ Once'
    BY <1>10 DEF ChainsOK
  <2> QED
    BY <2>1, SearchIsExact, PTL
<1>13. OnChain(k)' /\ Value(k)' = v
  <2>1. 1 \in DOMAIN hash_nodes'[h] /\ hash_nodes'[h][1] = [key |-> k, value |-> v]
    BY <1>1, <1>2, <1>3, <1>5
  <2> QED
    BY <1>12, <2>1 DEF Finds, Found, Chain, InTable, _hash
<1>14. ASSUME NEW x \in HashKeys \ {k}
       PROVE  (OnChain(x)' <=> OnChain(x)) /\ Value(x)' = Value(x)
  <2>1. CASE _hash(x) # h
    <3>1. InTable(x) => hash_nodes'[_hash(x)] = hash_nodes[_hash(x)]
      BY <1>3, <2>1 DEF InTable
    <3> QED
      BY <1>11, <1>12, <3>1, ChainUntouched
  <2>2. CASE _hash(x) = h
    <3>1. ASSUME NEW n \in DOMAIN s
          PROVE  n + 1 \in DOMAIN new /\ new[n + 1] = s[n]
      BY <1>2, <1>5
    <3>2. ASSUME NEW m \in DOMAIN new, new[m].key = x
          PROVE  m - 1 \in DOMAIN s /\ s[m - 1] = new[m]
      BY <1>2, <1>7, <3>2
    <3>3. hash_nodes'[_hash(x)] = new /\ hash_nodes[_hash(x)] = s
      BY <1>1, <1>3, <2>2 DEF s
    <3> QED
      BY <1>11, <1>12, <3>1, <3>2, <3>3, KeyUnmoved
  <2> QED
    BY <2>1, <2>2
<1> QED
    BY <1>10, <1>13, <1>14

(* MOD: the node of k stays where it is, with another value. *)
LEMMA ChainsAfterReplace ==
    ASSUME ChainsOK, NEW k \in HashKeys, InTable(k), Found(k),
           NEW v \in Values \cup {Freed}, ValueReplaced(k, v)
    PROVE  /\ ChainsOK'
           /\ OnChain(k)' /\ Value(k)' = v
           /\ \A x \in HashKeys \ {k} : (OnChain(x)' <=> OnChain(x)) /\ Value(x)' = Value(x)
           /\ \A i \in HashSlots : \A n \in DOMAIN hash_nodes'[i] :
                 \/ hash_nodes'[i][n].value = v
                 \/ n \in DOMAIN hash_nodes[i] /\ hash_nodes'[i][n] = hash_nodes[i][n]
<1> DEFINE h == _hash(k)
           s == hash_nodes[h]
           p == Position(k)
           node == [s[p] EXCEPT !.value = v]
           new == [s EXCEPT ![p] = node]
<1>1. h \in HashSlots /\ s \in Seq(Nodes) /\ p \in DOMAIN s /\ s[p].key = k
  <2>1. h \in HashSlots /\ s \in Seq(Nodes)
    BY DEF ChainsOK, ChainTypes, InTable
  <2>2. p \in DOMAIN Chain(k) /\ Chain(k)[p].key = k
    BY SearchFinds DEF ChainsOK
  <2> QED
    BY <2>1, <2>2 DEF Chain
<1>2. s[p] \in Nodes
    BY <1>1
<1>3. node \in Nodes /\ node.key = k /\ node.value = v
    BY <1>1, <1>2 DEF Nodes
<1> HIDE DEF node
<1>5. /\ new \in Seq(Nodes) /\ DOMAIN new = DOMAIN s
      /\ \A n \in DOMAIN s : new[n] = IF n = p THEN node ELSE s[n]
    BY <1>1, <1>3
<1>6. hash_nodes' = [hash_nodes EXCEPT ![h] = new]
    BY DEF ValueReplaced, node
<1> HIDE DEF new
<1>7. \A j \in HashSlots : hash_nodes'[j] = IF j = h THEN new ELSE hash_nodes[j]
    BY <1>1, <1>6 DEF ChainsOK, ChainTypes
<1>4. hash_nodes' \in [HashSlots -> Seq(Nodes)]
    BY <1>1, <1>5, <1>6 DEF ChainsOK, ChainTypes
<1> HIDE DEF s, p
<1>13. \A i \in HashSlots : /\ DOMAIN hash_nodes'[i] = DOMAIN hash_nodes[i]
                            /\ \A n \in DOMAIN hash_nodes[i] :
                                  hash_nodes'[i][n].key = hash_nodes[i][n].key
    BY <1>1, <1>3, <1>5, <1>7 DEF s
<1>8. Placed'
    BY <1>13 DEF ChainsOK, Placed, _hash
<1>9. Once'
    BY <1>13 DEF ChainsOK, Once
<1>10. ChainsOK'
    BY <1>4, <1>8, <1>9 DEF ChainsOK, ChainTypes
<1>11. Finds
    BY SearchIsExact DEF ChainsOK
<1>12. Finds'
  <2>1. ChainTypes' /\ Once'
    BY <1>10 DEF ChainsOK
  <2> QED
    BY <2>1, SearchIsExact, PTL
<1>14. OnChain(k)' /\ Value(k)' = v
  <2>1. p \in DOMAIN hash_nodes'[h] /\ hash_nodes'[h][p] = node
    BY <1>1, <1>5, <1>7
  <2> QED
    BY <1>3, <1>12, <2>1 DEF Finds, Found, Chain, InTable, _hash
<1>15. ASSUME NEW x \in HashKeys \ {k}
       PROVE  (OnChain(x)' <=> OnChain(x)) /\ Value(x)' = Value(x)
  <2>1. ASSUME InTable(x), NEW n \in DOMAIN hash_nodes[_hash(x)],
               hash_nodes[_hash(x)][n].key = x \/ hash_nodes'[_hash(x)][n].key = x
        PROVE  hash_nodes'[_hash(x)][n] = hash_nodes[_hash(x)][n]
    BY <1>1, <1>3, <1>5, <1>7, <2>1 DEF InTable, s
  <2>2. InTable(x) => DOMAIN hash_nodes'[_hash(x)] = DOMAIN hash_nodes[_hash(x)]
    BY <1>13 DEF InTable
  <2> QED
    BY <1>11, <1>12, <2>1, <2>2, KeyUnmoved
<1>16. ASSUME NEW i \in HashSlots, NEW n \in DOMAIN hash_nodes'[i]
       PROVE  \/ hash_nodes'[i][n].value = v
              \/ n \in DOMAIN hash_nodes[i] /\ hash_nodes'[i][n] = hash_nodes[i][n]
    BY <1>3, <1>5, <1>7 DEF s
<1> QED
    BY <1>10, <1>14, <1>15, <1>16

(* DEL: k has no node any more, every other key keeps its own. *)
LEMMA ChainsAfterUnlink ==
    ASSUME ChainsOK, NEW k \in HashKeys, InTable(k), Found(k), NodeUnlinked(k)
    PROVE  /\ ChainsOK'
           /\ ~OnChain(k)' /\ Value(k)' = NULL
           /\ \A x \in HashKeys \ {k} : (OnChain(x)' <=> OnChain(x)) /\ Value(x)' = Value(x)
           /\ \A i \in HashSlots : \A n \in DOMAIN hash_nodes'[i] :
                 \E m \in DOMAIN hash_nodes[i] : hash_nodes'[i][n] = hash_nodes[i][m]
<1> DEFINE h == _hash(k)
           s == hash_nodes[h]
           p == Position(k)
           new == RemoveAt(s, p)
           old(n) == IF n < p THEN n ELSE n + 1
<1>1. h \in HashSlots /\ s \in Seq(Nodes) /\ p \in DOMAIN s /\ s[p].key = k
  <2>1. h \in HashSlots /\ s \in Seq(Nodes)
    BY DEF ChainsOK, ChainTypes, InTable
  <2>2. p \in DOMAIN Chain(k) /\ Chain(k)[p].key = k
    BY SearchFinds DEF ChainsOK
  <2> QED
    BY <2>1, <2>2 DEF Chain
<1>2. /\ new \in Seq(Nodes) /\ DOMAIN new = 1..Len(s) - 1
      /\ \A n \in 1..Len(s) - 1 : new[n] = IF n < p THEN s[n] ELSE s[n + 1]
    BY <1>1, NodeRemoved
<1>3. \A j \in HashSlots : hash_nodes'[j] = IF j = h THEN new ELSE hash_nodes[j]
    BY <1>1 DEF ChainsOK, ChainTypes, NodeUnlinked
<1>4. hash_nodes' \in [HashSlots -> Seq(Nodes)]
    BY <1>1, <1>2 DEF ChainsOK, ChainTypes, NodeUnlinked
<1>5. DOMAIN s = 1..Len(s) /\ Len(s) \in Nat
    BY <1>1
<1> HIDE DEF new, s, p
<1>6. \A n \in DOMAIN new : old(n) \in DOMAIN s /\ old(n) # p /\ new[n] = s[old(n)]
    BY <1>1, <1>2, <1>5
<1>7. \A n, m \in DOMAIN new : old(n) = old(m) => n = m
    BY <1>1, <1>2, <1>5
<1>13. \A n \in DOMAIN s : n # p => \E m \in DOMAIN new : old(m) = n
  <2> SUFFICES ASSUME NEW n \in DOMAIN s, n # p PROVE \E m \in DOMAIN new : old(m) = n
    OBVIOUS
  <2>1. CASE n < p
    BY <1>1, <1>2, <1>5, <2>1
  <2>2. CASE n > p
    <3>1. n - 1 \in DOMAIN new /\ old(n - 1) = n
      BY <1>1, <1>2, <1>5, <2>2
    <3> QED
      BY <3>1
  <2> QED
    BY <1>1, <1>5, <2>1, <2>2
<1> HIDE DEF old
<1>14. \A n \in DOMAIN s : s[n].key = k => n = p
    BY <1>1 DEF ChainsOK, Once, s
<1>8. Placed'
  <2> SUFFICES ASSUME NEW i \in HashSlots, NEW n \in DOMAIN hash_nodes'[i]
               PROVE  _hash(hash_nodes'[i][n].key) = i
    BY DEF Placed, _hash
  <2>1. CASE i # h
    BY <1>3, <2>1 DEF ChainsOK, Placed
  <2>2. CASE i = h
    BY <1>1, <1>3, <1>6, <2>2 DEF ChainsOK, Placed, s
  <2> QED
    BY <2>1, <2>2
<1>9. Once'
  <2> SUFFICES ASSUME NEW i \in HashSlots, NEW n \in DOMAIN hash_nodes'[i],
                      NEW m \in DOMAIN hash_nodes'[i],
                      hash_nodes'[i][n].key = hash_nodes'[i][m].key
               PROVE  n = m
    BY DEF Once
  <2>1. CASE i # h
    BY <1>3, <2>1 DEF ChainsOK, Once
  <2>2. CASE i = h
    <3>1. n \in DOMAIN new /\ m \in DOMAIN new /\ s[old(n)].key = s[old(m)].key
      BY <1>3, <1>6, <2>2
    <3>2. old(n) = old(m)
      BY <1>1, <1>6, <3>1 DEF ChainsOK, Once, s
    <3> QED
      BY <1>7, <3>1, <3>2
  <2> QED
    BY <2>1, <2>2
<1>10. ChainsOK'
    BY <1>4, <1>8, <1>9 DEF ChainsOK, ChainTypes
<1>11. Finds
    BY SearchIsExact DEF ChainsOK
<1>12. Finds'
  <2>1. ChainTypes' /\ Once'
    BY <1>10 DEF ChainsOK
  <2> QED
    BY <2>1, SearchIsExact, PTL
<1>15. ~OnChain(k)' /\ Value(k)' = NULL
  <2>1. \A n \in DOMAIN hash_nodes'[h] : hash_nodes'[h][n].key # k
    BY <1>1, <1>3, <1>6, <1>14
  <2>2. ~Found(k)'
    BY <2>1 DEF Found, Chain, _hash
  <2> QED
    BY <1>12, <2>2 DEF Finds
<1>16. ASSUME NEW x \in HashKeys \ {k}
       PROVE  (OnChain(x)' <=> OnChain(x)) /\ Value(x)' = Value(x)
  <2>1. CASE _hash(x) # h
    <3>1. InTable(x) => hash_nodes'[_hash(x)] = hash_nodes[_hash(x)]
      BY <1>3, <2>1 DEF InTable
    <3> QED
      BY <1>11, <1>12, <3>1, ChainUntouched
  <2>2. CASE _hash(x) = h
    <3>1. ASSUME NEW n \in DOMAIN s, s[n].key = x
          PROVE  \E m \in DOMAIN new : new[m] = s[n]
      BY <1>1, <1>6, <1>13, <3>1
    <3>2. ASSUME NEW m \in DOMAIN new
          PROVE  \E n \in DOMAIN s : s[n] = new[m]
      BY <1>6
    <3>3. hash_nodes'[_hash(x)] = new /\ hash_nodes[_hash(x)] = s
      BY <1>1, <1>3, <2>2 DEF s
    <3> QED
      BY <1>11, <1>12, <3>1, <3>2, <3>3, KeyUnmoved
  <2> QED
    BY <2>1, <2>2
<1>17. ASSUME NEW i \in HashSlots, NEW n \in DOMAIN hash_nodes'[i]
       PROVE  \E m \in DOMAIN hash_nodes[i] : hash_nodes'[i][n] = hash_nodes[i][m]
    BY <1>3, <1>6 DEF s
<1> QED
    BY <1>10, <1>15, <1>16, <1>17

-----------------------------------------------------------------------------
(* The invariant.                                                           *)

Held == {k \in HashKeys : OnChain(k)}

LEMMA HeldFinite == IsFiniteSet(Held) /\ Cardinality(Held) \in Nat
<1>1. IsFiniteSet(HashKeys)
    BY HashAssumption
<1>2. Held \in SUBSET HashKeys
    BY DEF Held
<1> QED
    BY <1>1, <1>2, FS_Subset, FS_CardinalityType

LEMMA InvariantChains == HashInvariant => ChainsOK /\ Finds
<1> SUFFICES ASSUME HashInvariant PROVE ChainsOK /\ Finds
    OBVIOUS
<1>1. ChainTypes /\ HashUniqueKeys
    BY DEF HashInvariant, HashTypeOK, ChainTypes
<1>2. Placed /\ Once
    BY <1>1, UniqueIsOnce
<1> QED
    BY <1>1, <1>2, SearchIsExact DEF ChainsOK

(* The invariant, from the chains, the count and the values. *)
Sound ==
    /\ ChainsOK
    /\ hash_count \in Nat /\ hash_count = Cardinality(Held)
    /\ hash_oom \in BOOLEAN /\ hash_down \in BOOLEAN
    /\ HashNoDangling

LEMMA SoundIsInvariant == Sound => HashInvariant
<1> SUFFICES ASSUME Sound PROVE HashInvariant
    OBVIOUS
<1>1. HashUniqueKeys
    BY UniqueIsOnce DEF Sound, ChainsOK
<1>2. HashTypeOK
    BY DEF Sound, ChainsOK, ChainTypes, HashTypeOK
<1>3. HashCountExact
    BY DEF Sound, HashCountExact, Held
<1> QED
    BY <1>1, <1>2, <1>3 DEF Sound, HashInvariant

LEMMA HashInitInvariant == HashInit => HashInvariant
<1> SUFFICES ASSUME HashInit PROVE HashInvariant
    OBVIOUS
<1>1. hash_nodes \in [HashSlots -> Seq(Nodes)] /\ \A i \in HashSlots : DOMAIN hash_nodes[i] = {}
    BY DEF HashInit
<1>2. ChainsOK
    BY <1>1 DEF ChainsOK, ChainTypes, Placed, Once
<1>3. \A k \in HashKeys : ~OnChain(k)
    BY <1>1, <1>2, SearchIsExact DEF ChainsOK, Finds, Found, Chain, InTable
<1>4. Held = {}
    BY <1>3 DEF Held
<1>5. Cardinality(Held) = 0
    BY <1>4, FS_EmptySet
<1>6. HashNoDangling
    BY <1>1 DEF HashNoDangling
<1> QED
    BY <1>2, <1>5, <1>6, SoundIsInvariant DEF Sound, HashInit

(* A step that leaves the chains and the count alone. *)
LEMMA TableUntouched ==
    ASSUME HashInvariant, UNCHANGED <<hash_nodes, hash_count, hash_oom>>, hash_down' \in BOOLEAN
    PROVE  HashInvariant'
<1>1. ChainsOK
    BY InvariantChains
<1>2. ChainsOK'
    BY <1>1 DEF ChainsOK, ChainTypes, Placed, Once
<1>3. \A k \in HashKeys : OnChain(k)' <=> OnChain(k)
    BY DEF OnChain, InTable, Position, Chain, _hash
<1>4. Held' = Held
    BY <1>3 DEF Held
<1>5. hash_count' \in Nat /\ hash_count' = Cardinality(Held)' /\ hash_oom' \in BOOLEAN
    BY <1>4 DEF HashInvariant, HashTypeOK, HashCountExact, Held
<1>6. HashNoDangling'
    BY DEF HashInvariant, HashNoDangling
<1>7. Sound'
    BY <1>2, <1>5, <1>6 DEF Sound
<1> QED
    BY <1>7, SoundIsInvariant, PTL

LEMMA StoreKeepsInvariant ==
    ASSUME HashInvariant, NEW k \in HashKeys, NEW v \in Values, HashSetStores(k, v)
    PROVE  HashInvariant'
<1>1. ChainsOK /\ Finds /\ InTable(k) /\ ~Found(k)
    BY InvariantChains DEF HashSetStores, Serves, Finds, OnChain
<1>2. /\ ChainsOK' /\ OnChain(k)'
      /\ \A x \in HashKeys \ {k} : OnChain(x)' <=> OnChain(x)
    BY <1>1, ChainsAfterStore DEF HashSetStores, HeadStored
<1>3. Held' = Held \cup {k} /\ k \notin Held
    BY <1>1, <1>2 DEF Held, Finds
<1>4. Cardinality(Held') = Cardinality(Held) + 1 /\ Cardinality(Held) \in Nat
    BY <1>3, HeldFinite, FS_AddElement
<1>5. hash_count' = hash_count + 1 /\ UNCHANGED <<hash_oom, hash_down>>
    BY DEF HashSetStores
<1>6. /\ hash_count = Cardinality(Held)
      /\ hash_oom \in BOOLEAN /\ hash_down \in BOOLEAN
    BY DEF HashInvariant, HashTypeOK, HashCountExact, Held
<1>7. HashNoDangling'
  <2> SUFFICES ASSUME ~hash_oom', NEW i \in HashSlots, NEW n \in DOMAIN hash_nodes'[i]
               PROVE  hash_nodes'[i][n].value # Freed
    BY DEF HashNoDangling
  <2>1. /\ _hash(k) \in HashSlots /\ hash_nodes[_hash(k)] \in Seq(Nodes)
        /\ [key |-> k, value |-> v] \in Nodes
    BY <1>1 DEF ChainsOK, ChainTypes, InTable, Nodes
  <2>2. hash_nodes'[i] = IF i = _hash(k) THEN <<[key |-> k, value |-> v]>> \o hash_nodes[i]
                         ELSE hash_nodes[i]
    BY <1>1, <2>1 DEF HashSetStores, ChainsOK, ChainTypes
  <2>3. hash_nodes'[i][n] = [key |-> k, value |-> v]
        \/ \E m \in DOMAIN hash_nodes[i] : hash_nodes'[i][n] = hash_nodes[i][m]
    <3>1. CASE i # _hash(k)
      BY <2>2, <3>1
    <3>2. CASE i = _hash(k)
      <4>1. n \in 1..Len(hash_nodes[i]) + 1
            /\ hash_nodes'[i][n] = IF n = 1 THEN [key |-> k, value |-> v] ELSE hash_nodes[i][n - 1]
        BY <2>1, <2>2, <3>2, HeadAdded
      <4>2. n # 1 => n - 1 \in DOMAIN hash_nodes[i]
        BY <2>1, <3>2, <4>1
      <4> QED
        BY <4>1, <4>2
    <3> QED
      BY <3>1, <3>2
  <2>4. \A m \in DOMAIN hash_nodes[i] : hash_nodes[i][m].value # Freed
    BY <1>5 DEF HashInvariant, HashNoDangling
  <2> QED
    BY <2>3, <2>4, ValuesAssumption
<1>8. hash_count' \in Nat /\ hash_count' = Cardinality(Held)'
    BY <1>4, <1>5, <1>6
<1>9. hash_oom' \in BOOLEAN /\ hash_down' \in BOOLEAN
    BY <1>5, <1>6
<1>10. Sound'
    BY <1>2, <1>7, <1>8, <1>9 DEF Sound
<1> QED
    BY <1>10, SoundIsInvariant, PTL

LEMMA ReplaceKeepsInvariant ==
    ASSUME HashInvariant, NEW k \in HashKeys, NEW v \in Values,
           HashModReplaces(k, v) \/ HashModOutOfMemory(k)
    PROVE  HashInvariant'
<1>1. ChainsOK /\ Finds /\ InTable(k) /\ Found(k)
    BY InvariantChains DEF HashModReplaces, HashModOutOfMemory, Serves, Finds, OnChain
<1>2. PICK w \in {v, Freed} : ValueReplaced(k, w) /\ (w = Freed => hash_oom')
    BY ValuesAssumption DEF HashModReplaces, HashModOutOfMemory, ValueReplaced
<1>3. /\ ChainsOK' /\ OnChain(k)'
      /\ \A x \in HashKeys \ {k} : OnChain(x)' <=> OnChain(x)
      /\ \A i \in HashSlots : \A n \in DOMAIN hash_nodes'[i] :
            \/ hash_nodes'[i][n].value = w
            \/ n \in DOMAIN hash_nodes[i] /\ hash_nodes'[i][n] = hash_nodes[i][n]
    BY <1>1, <1>2, ChainsAfterReplace
<1>4. Held' = Held
    BY <1>1, <1>3 DEF Held, Finds
<1>5. /\ hash_count' = hash_count /\ hash_down' = hash_down
      /\ hash_oom' = hash_oom \/ hash_oom' = TRUE
    BY DEF HashModReplaces, HashModOutOfMemory
<1>6. /\ hash_count = Cardinality(Held) /\ hash_count \in Nat
      /\ hash_oom \in BOOLEAN /\ hash_down \in BOOLEAN
    BY DEF HashInvariant, HashTypeOK, HashCountExact, Held
<1>7. HashNoDangling'
  <2> SUFFICES ASSUME ~hash_oom', NEW i \in HashSlots, NEW n \in DOMAIN hash_nodes'[i]
               PROVE  hash_nodes'[i][n].value # Freed
    BY DEF HashNoDangling
  <2>1. ~hash_oom /\ w # Freed
    BY <1>2, <1>5, <1>6
  <2> QED
    BY <1>3, <2>1 DEF HashInvariant, HashNoDangling
<1>8. hash_count' \in Nat /\ hash_count' = Cardinality(Held)'
    BY <1>4, <1>5, <1>6
<1>9. hash_oom' \in BOOLEAN /\ hash_down' \in BOOLEAN
    BY <1>5, <1>6
<1>10. Sound'
    BY <1>3, <1>7, <1>8, <1>9 DEF Sound
<1> QED
    BY <1>10, SoundIsInvariant, PTL

LEMMA UnlinkKeepsInvariant ==
    ASSUME HashInvariant, NEW k \in HashKeys, HashDelUnlinks(k)
    PROVE  HashInvariant'
<1>1. ChainsOK /\ Finds /\ InTable(k) /\ Found(k) /\ OnChain(k)
    BY InvariantChains DEF HashDelUnlinks, Serves, Finds, OnChain
<1>2. /\ ChainsOK' /\ ~OnChain(k)'
      /\ \A x \in HashKeys \ {k} : OnChain(x)' <=> OnChain(x)
      /\ \A i \in HashSlots : \A n \in DOMAIN hash_nodes'[i] :
            \E m \in DOMAIN hash_nodes[i] : hash_nodes'[i][n] = hash_nodes[i][m]
    BY <1>1, ChainsAfterUnlink DEF HashDelUnlinks, NodeUnlinked
<1>3. Held' = Held \ {k} /\ k \in Held
    BY <1>1, <1>2 DEF Held
<1>4. Cardinality(Held') = Cardinality(Held) - 1 /\ Cardinality(Held') \in Nat
  <2>1. IsFiniteSet(Held') /\ k \notin Held' /\ Held = Held' \cup {k}
    BY <1>3, HeldFinite, FS_Subset
  <2>2. Cardinality(Held) = Cardinality(Held') + 1 /\ Cardinality(Held') \in Nat
    BY <2>1, FS_AddElement, FS_CardinalityType
  <2> QED
    BY <2>2
<1>5. hash_count' = hash_count - 1 /\ UNCHANGED <<hash_oom, hash_down>>
    BY DEF HashDelUnlinks
<1>6. /\ hash_count = Cardinality(Held)
      /\ hash_oom \in BOOLEAN /\ hash_down \in BOOLEAN
    BY DEF HashInvariant, HashTypeOK, HashCountExact, Held
<1>7. HashNoDangling'
    BY <1>2, <1>5 DEF HashInvariant, HashNoDangling
<1>8. hash_count' \in Nat /\ hash_count' = Cardinality(Held)'
    BY <1>4, <1>5, <1>6
<1>9. hash_oom' \in BOOLEAN /\ hash_down' \in BOOLEAN
    BY <1>5, <1>6
<1>10. Sound'
    BY <1>2, <1>7, <1>8, <1>9 DEF Sound
<1> QED
    BY <1>10, SoundIsInvariant, PTL

(* What the hash engine keeps true through every sequence of calls, failed *)
(* allocations and crashes included: the types, the exact count, one node  *)
(* for each key in its own slot, no freed value unless a MOD ran out of    *)
(* memory.                                                                 *)
THEOREM HashIsConsistent == HashSpec => []HashInvariant
<1>1. HashInvariant /\ [HashNext]_hashVars => HashInvariant'
  <2> SUFFICES ASSUME HashInvariant, [HashNext]_hashVars PROVE HashInvariant'
    OBVIOUS
  <2>0. hash_down \in BOOLEAN
    BY DEF HashInvariant, HashTypeOK
  <2>1. CASE UNCHANGED hashVars
    BY <2>0, <2>1, TableUntouched DEF hashVars
  <2>2. CASE HashNext
    <3>1. PICK k \in HashKeys :
              \/ \E v \in Values : kvs_hash_set(k, v) \/ kvs_hash_mod(k, v)
              \/ kvs_hash_get(k) \/ kvs_hash_del(k) \/ kvs_hash_exist(k)
              \/ \E op \in {"set", "get", "mod", "del", "exist"} : OutsideTable(op, k)
      BY <2>2 DEF HashNext
    <3>2. ASSUME NEW v \in Values, kvs_hash_set(k, v) PROVE HashInvariant'
      <4>1. CASE HashSetStores(k, v)
        BY <4>1, StoreKeepsInvariant
      <4>2. CASE HashSetExists(k) \/ HashSetOutOfMemory(k)
        BY <2>0, <4>2, TableUntouched DEF HashSetExists, HashSetOutOfMemory
      <4> QED
        BY <3>2, <4>1, <4>2 DEF kvs_hash_set
    <3>3. ASSUME NEW v \in Values, kvs_hash_mod(k, v) PROVE HashInvariant'
      <4>1. CASE HashModReplaces(k, v) \/ HashModOutOfMemory(k)
        BY <4>1, ReplaceKeepsInvariant
      <4>2. CASE HashModNoExist(k)
        BY <2>0, <4>2, TableUntouched DEF HashModNoExist
      <4> QED
        BY <3>3, <4>1, <4>2 DEF kvs_hash_mod
    <3>4. CASE kvs_hash_del(k)
      <4>1. CASE HashDelUnlinks(k)
        BY <4>1, UnlinkKeepsInvariant
      <4>2. CASE HashDelNoExist(k)
        BY <2>0, <4>2, TableUntouched DEF HashDelNoExist
      <4> QED
        BY <3>4, <4>1, <4>2 DEF kvs_hash_del
    <3>5. CASE kvs_hash_get(k) \/ kvs_hash_exist(k)
      BY <2>0, <3>5, TableUntouched DEF kvs_hash_get, kvs_hash_exist
    <3>6. ASSUME NEW op \in {"set", "get", "mod", "del", "exist"}, OutsideTable(op, k)
          PROVE  HashInvariant'
      BY <3>6, TableUntouched DEF OutsideTable
    <3> QED
      BY <3>1, <3>2, <3>3, <3>4, <3>5, <3>6
  <2> QED
    BY <2>1, <2>2
<1> QED
    BY <1>1, HashInitInvariant, PTL DEF HashSpec

(* The types of the table, of any size. *)
THEOREM HashTypes == HashSpec => []HashTypeOK
    BY HashIsConsistent, PTL DEF HashInvariant

(* count is the number of keys that can be found. *)
THEOREM HashCounts == HashSpec => []HashCountExact
    BY HashIsConsistent, PTL DEF HashInvariant

(* A key has one node, and it is in the slot where _hash looks for it. *)
THEOREM HashKeysUnique == HashSpec => []HashUniqueKeys
    BY HashIsConsistent, PTL DEF HashInvariant

-----------------------------------------------------------------------------
(* The refinement.                                                          *)

Table == [x \in HashKeys |-> Value(x)]

(* A key has a value exactly when it has a node. *)
LEMMA NodeHasValue ==
    ASSUME HashInvariant, NEW k \in HashKeys
    PROVE  /\ OnChain(k) <=> Value(k) # NULL
           /\ ~hash_oom => Value(k) \in Values \cup {NULL}
<1>1. ChainsOK /\ Finds
    BY InvariantChains
<1>2. CASE ~OnChain(k)
    BY <1>1, <1>2 DEF Finds
<1>3. CASE OnChain(k)
  <2>1. InTable(k) /\ Found(k)
    BY <1>1, <1>3 DEF Finds
  <2>2. PICK n \in DOMAIN Chain(k) : Chain(k)[n].key = k
    BY <2>1 DEF Found
  <2>3. Value(k) = Chain(k)[n].value
    BY <1>1, <2>1, <2>2 DEF Finds
  <2>4. _hash(k) \in HashSlots /\ hash_nodes[_hash(k)] \in Seq(Nodes)
    BY <1>1, <2>1 DEF ChainsOK, ChainTypes, InTable
  <2>5. Chain(k)[n] \in Nodes
    BY <2>2, <2>4 DEF Chain
  <2>6. ~hash_oom => Chain(k)[n].value # Freed
    BY <2>2, <2>4 DEF HashInvariant, HashNoDangling, Chain
  <2> QED
    BY <1>3, <2>3, <2>5, <2>6, ValuesAssumption DEF Nodes
<1> QED
    BY <1>2, <1>3

LEMMA TableKept ==
    ASSUME UNCHANGED hash_nodes
    PROVE  Table' = Table
<1>1. \A x \in HashKeys : Value(x)' = Value(x)
    BY DEF Value, OnChain, InTable, Position, Chain, _hash
<1> QED
    BY <1>1 DEF Table

LEMMA HashStepImplements ==
    ASSUME HashInvariant, [HashNext]_hashVars, hashVars' # hashVars, ~(hash_oom' \/ hash_down')
    PROVE  HashMap!Next
<1>0. ChainsOK /\ Finds
    BY InvariantChains
<1>1. PICK k \in HashKeys :
          \/ \E v \in Values : kvs_hash_set(k, v) \/ kvs_hash_mod(k, v)
          \/ kvs_hash_get(k) \/ kvs_hash_del(k) \/ kvs_hash_exist(k)
          \/ \E op \in {"set", "get", "mod", "del", "exist"} : OutsideTable(op, k)
    BY DEF HashNext
<1>2. ASSUME NEW v \in Values, kvs_hash_set(k, v) PROVE HashMap!Next
  <2>1. CASE HashSetExists(k)
    <3>1. Value(k) # NULL /\ Table' = Table
      BY <2>1, NodeHasValue, TableKept DEF HashSetExists, Serves, OnChain
    <3>2. hash_ret' = [op |-> "set", key |-> k, code |-> 1]
      BY <2>1 DEF HashSetExists, Call
    <3>3. HashMap!Set(k, v)
      BY <3>1, <3>2 DEF HashMap!Set, HashMap!Full, HashMap!Unlimited, HashMap!Returns, Table
    <3> QED
      BY <3>3 DEF HashMap!Next
  <2>2. CASE HashSetStores(k, v)
    <3>1. InTable(k) /\ ~Found(k) /\ ~OnChain(k)
      BY <1>0, <2>2 DEF HashSetStores, Serves, Finds, OnChain
    <3>2. Value(k)' = v /\ \A x \in HashKeys \ {k} : Value(x)' = Value(x)
      BY <1>0, <2>2, <3>1, ChainsAfterStore DEF HashSetStores, HeadStored
    <3>3. Value(k) = NULL /\ Table' = [Table EXCEPT ![k] = v]
      BY <3>1, <3>2, NodeHasValue DEF Table
    <3>4. hash_ret' = [op |-> "set", key |-> k, code |-> 0]
      BY <2>2 DEF HashSetStores, Call
    <3>5. HashMap!Set(k, v)
      BY <3>3, <3>4 DEF HashMap!Set, HashMap!Full, HashMap!Unlimited, HashMap!Returns, Table
    <3> QED
      BY <3>5 DEF HashMap!Next
  <2>3. CASE HashSetOutOfMemory(k)
    BY <2>3 DEF HashSetOutOfMemory
  <2> QED
    BY <1>2, <2>1, <2>2, <2>3 DEF kvs_hash_set
<1>3. ASSUME NEW v \in Values, kvs_hash_mod(k, v) PROVE HashMap!Next
  <2>1. CASE HashModNoExist(k)
    <3>1. Value(k) = NULL /\ Table' = Table
      BY <2>1, NodeHasValue, TableKept DEF HashModNoExist, OnChain
    <3>2. hash_ret' = [op |-> "mod", key |-> k, code |-> 1]
      BY <2>1 DEF HashModNoExist, Call
    <3>3. HashMap!Mod(k, v)
      BY <3>1, <3>2 DEF HashMap!Mod, HashMap!Returns, Table
    <3> QED
      BY <3>3 DEF HashMap!Next
  <2>2. CASE HashModReplaces(k, v)
    <3>1. InTable(k) /\ Found(k) /\ OnChain(k)
      BY <1>0, <2>2 DEF HashModReplaces, Serves, Finds, OnChain
    <3>2. Value(k)' = v /\ \A x \in HashKeys \ {k} : Value(x)' = Value(x)
      BY <1>0, <2>2, <3>1, ChainsAfterReplace DEF HashModReplaces, ValueReplaced
    <3>3. Value(k) # NULL /\ Table' = [Table EXCEPT ![k] = v]
      BY <3>1, <3>2, NodeHasValue DEF Table
    <3>4. hash_ret' = [op |-> "mod", key |-> k, code |-> 0]
      BY <2>2 DEF HashModReplaces, Call
    <3>5. HashMap!Mod(k, v)
      BY <3>3, <3>4 DEF HashMap!Mod, HashMap!Returns, Table
    <3> QED
      BY <3>5 DEF HashMap!Next
  <2>3. CASE HashModOutOfMemory(k)
    BY <2>3 DEF HashModOutOfMemory
  <2> QED
    BY <1>3, <2>1, <2>2, <2>3 DEF kvs_hash_mod
<1>4. CASE kvs_hash_get(k)
  <2>1. Value(k) \in Values \cup {NULL} /\ Table' = Table
    BY <1>4, NodeHasValue, TableKept DEF kvs_hash_get
  <2>2. hash_ret' = [op |-> "get", key |-> k, code |-> Value(k)]
    BY <1>4 DEF kvs_hash_get, Call
  <2>3. HashMap!Get(k)
    BY <2>1, <2>2 DEF HashMap!Get, HashMap!Returns, Table
  <2> QED
    BY <2>3 DEF HashMap!Next
<1>5. CASE kvs_hash_exist(k)
  <2>1. Table' = Table
    BY <1>5, TableKept DEF kvs_hash_exist
  <2>2. hash_ret' =
            [op |-> "exist", key |-> k, code |-> IF Value(k) # NULL THEN 0 ELSE 1]
    BY <1>5 DEF kvs_hash_exist, Call
  <2>3. HashMap!Exist(k)
    BY <2>1, <2>2 DEF HashMap!Exist, HashMap!Returns, Table
  <2> QED
    BY <2>3 DEF HashMap!Next
<1>6. CASE kvs_hash_del(k)
  <2>1. CASE HashDelNoExist(k)
    <3>1. Value(k) = NULL /\ Table' = Table
      BY <2>1, NodeHasValue, TableKept DEF HashDelNoExist, OnChain
    <3>2. \E code \in {1, -1} : hash_ret' = [op |-> "del", key |-> k, code |-> code]
      BY <2>1 DEF HashDelNoExist, Call
    <3>3. HashMap!Del(k)
      BY <3>1, <3>2 DEF HashMap!Del, HashMap!Returns, Table
    <3> QED
      BY <3>3 DEF HashMap!Next
  <2>2. CASE HashDelUnlinks(k)
    <3>1. InTable(k) /\ Found(k) /\ OnChain(k)
      BY <1>0, <2>2 DEF HashDelUnlinks, Serves, Finds, OnChain
    <3>2. Value(k)' = NULL /\ \A x \in HashKeys \ {k} : Value(x)' = Value(x)
      BY <1>0, <2>2, <3>1, ChainsAfterUnlink DEF HashDelUnlinks, NodeUnlinked
    <3>3. Value(k) # NULL /\ Table' = [Table EXCEPT ![k] = NULL]
      BY <3>1, <3>2, NodeHasValue DEF Table
    <3>4. hash_ret' = [op |-> "del", key |-> k, code |-> 0]
      BY <2>2 DEF HashDelUnlinks, Call
    <3>5. HashMap!Del(k)
      BY <3>3, <3>4 DEF HashMap!Del, HashMap!Returns, Table
    <3> QED
      BY <3>5 DEF HashMap!Next
  <2> QED
    BY <1>6, <2>1, <2>2 DEF kvs_hash_del
<1>7. ASSUME NEW op \in {"set", "get", "mod", "del", "exist"}, OutsideTable(op, k)
      PROVE  HashMap!Next
    BY <1>7 DEF OutsideTable
<1> QED
    BY <1>1, <1>2, <1>3, <1>4, <1>5, <1>6, <1>7

(* The hash table implements the map: every call of kvs_hash_* changes the *)
(* map and answers as it should, 1 or -1 to a DEL of a missing key, up to  *)
(* a MOD that runs out of memory and to a crash.                           *)
THEOREM HashIsMap == HashSpec => HashImplementsMap
<1>1. HashInit => HashMap!Init
  <2> SUFFICES ASSUME HashInit PROVE HashMap!Init
    OBVIOUS
  <2>1. \A k \in HashKeys : Value(k) = NULL
    <3>1. \A i \in HashSlots : DOMAIN hash_nodes[i] = {}
      BY DEF HashInit
    <3>2. \A k \in HashKeys : ~OnChain(k)
      BY <3>1 DEF OnChain, InTable, Position, Chain
    <3> QED
      BY <3>2 DEF Value
  <2> QED
    BY <2>1 DEF HashInit, HashMap!Init
<1>2. HashInvariant /\ [HashNext]_hashVars
        => [hashVars' # hashVars /\ ~(hash_oom' \/ hash_down') => HashMap!Next]_(HashMap!vars)
    BY HashStepImplements
<1> QED
    BY <1>1, <1>2, HashIsConsistent, PTL DEF HashSpec, HashImplementsMap

=============================================================================

\* The three engines, one at a time.
CONSTANTS
    v1 = v1  v2 = v2  ka = ka  kb = kb  kc = kc
    NULL = NULL  Freed = Freed  NIL = NIL
    Values <- TwoValues
    ArrayKeys <- ThreeKeys
    KVS_ARRAY_SIZE = 2
    HashKeys <- ThreeKeys
    KeySum <- TwoSlotsSum
    KVS_HASH_SIZE = 2
    TreeKeys <- SixKeys
    Offered <- OneValueEach
SPECIFICATION Spec
INVARIANTS ArrayInvariant
INVARIANTS HashInvariant HashCountExact HashUniqueKeys
INVARIANTS TreeTypeOK TreeOrdered TreeRedBlack TreeCountExact
PROPERTIES ArrayImplementsMap HashImplementsMap TreeImplementsMap
CHECK_DEADLOCK FALSE

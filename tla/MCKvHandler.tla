---------------------------- MODULE MCKvHandler ----------------------------
(* The command handler on a small instance. *)
EXTENDS KvHandler, TLC

CONSTANTS w1, w2, k1, k2, v1, v2

TwoWorkers == {w1, w2}
TwoKeys == {k1, k2}
TwoValues == {v1, v2}

Ask(ops, engines, keys, values) ==
    [op : ops, engine : engines, key : keys, value : values]

(* All of the array, which one key fills; two keys in the hash, of which    *)
(* one is read; one in the tree; and what is refused.                       *)
AllCommands ==
    Ask({"SET"}, {"array"}, {k1, k2}, {v1})
    \cup Ask({"MOD"}, {"array"}, {k1}, {v1, v2})
    \cup Ask({"GET", "DEL", "EXIST"}, {"array"}, {k1}, {NULL})
    \cup Ask({"DEL"}, {"array"}, {k2}, {NULL})
    \cup Ask({"SET", "DEL"}, {"hash"}, {k1, k2}, {v1})
    \cup Ask({"GET"}, {"hash"}, {k1}, {NULL})
    \cup Ask({"SET", "GET", "DEL"}, {"rbtree"}, {k1}, {v2})
    \cup Ask({"SET", "STATS", "NONE"}, {"array"}, {k1}, {NULL})

WorkerSymmetry == Permutations(Workers)

=============================================================================

------------------------------ MODULE KvHandler ------------------------------
(***************************************************************************)
(* kvs_handler.cpp: commands of several workers at once.  A command calls  *)
(* its engine, which holds the engine's rwlock for the call alone; then    *)
(* kvs_get_stats takes the three rwlocks one after another; then the       *)
(* answer is printed.  A GET keeps the pointer the engine returned, and    *)
(* reads through it only when it prints.                                   *)
(*                                                                         *)
(* An engine is the map it implements (KvMap), and its count is exact      *)
(* (KvsArray, KvsHash, KvsRbtree).  Allocations succeed here: the failures *)
(* are in the modules of the engines.                                      *)
(***************************************************************************)
EXTENDS Integers, FiniteSets

CONSTANTS
    Workers,
    Keys,
    Values,
    Requests,   \* what clients ask: [op, engine, key, value], "STATS" for the statistics
    ArrayMax,   \* KVS_ARRAY_SIZE
    NULL,
    Freed       \* what a pointer to freed memory points to

Engines == {"array", "hash", "rbtree"}
Ops == {"SET", "GET", "DEL", "MOD", "EXIST", "STATS", "NONE"}

ASSUME HandlerAssumption ==
    /\ {NULL, Freed} \cap Values = {} /\ NULL # Freed
    /\ NULL \notin Requests
    /\ Requests \subseteq [op : Ops, engine : Engines, key : Keys, value : Values \cup {NULL}]
    /\ ArrayMax \in Nat
    /\ IsFiniteSet(Keys)

VARIABLES
    map,        \* the tables of the three engines
    at,         \* where each worker is: "idle", "call", then the lock it takes next,
                \* "array", "hash", "rbtree", then "answer", or "refused"
    cmd,        \* the request a worker has parsed
    reply,      \* the status of a worker's answer and the text the message shows
    result,     \* char* result of GET: the engine and key whose value it points to,
                \* NULL when it points to no value that an engine holds
    counts,     \* array_count, hash_count and rbtree_count of kvs_get_stats
    disturbed   \* history: the engines whose count other workers changed since the call

vars == <<map, at, cmd, reply, result, counts, disturbed>>

Says(status, text) == [status |-> status, text |-> text]
Goto(w, l) == at' = [at EXCEPT ![w] = l]
Count(e) == Cardinality({k \in Keys : map[e][k] # NULL})
NoCounts == [e \in Engines |-> 0]

(* init_kvengine *)
Init ==
    /\ map = [e \in Engines |-> [k \in Keys |-> NULL]]
    /\ at = [w \in Workers |-> "idle"]
    /\ cmd = [w \in Workers |-> NULL]
    /\ reply = [w \in Workers |-> Says(NULL, NULL)]
    /\ result = [w \in Workers |-> NULL]
    /\ counts = [w \in Workers |-> NoCounts]
    /\ disturbed = [w \in Workers |-> {}]

-----------------------------------------------------------------------------
(* What each engine returns: the codes of a call that changes nothing, and *)
(* whether there is one that does.                                         *)

Has(r) == map[r.engine][r.key] # NULL
ArrayFull == Count("array") = ArrayMax
OthersInHash(r) == \E k \in Keys \ {r.key} : map["hash"][k] # NULL

Succeeds(r) ==
    \/ r.op = "SET" /\ ~Has(r) /\ ~(r.engine = "array" /\ ArrayFull)
    \/ r.op \in {"MOD", "DEL"} /\ Has(r)

(* kvs_array_set looks for room first; kvs_hash_del returns -1 when other   *)
(* keys share the chain.                                                    *)
Codes(r) ==
    CASE r.op = "SET" -> {IF r.engine = "array" /\ ArrayFull THEN -1 ELSE 1}
      [] r.op = "DEL" -> {1} \cup (IF r.engine = "hash" /\ OthersInHash(r) THEN {-1} ELSE {})
      [] r.op = "MOD" -> {1}
      [] r.op \in {"GET", "EXIST"} -> {IF Has(r) THEN 0 ELSE 1}

(* Mutant: EXIST answered like a MOD. *)
StatusExistOK(op, ret) ==
    IF ret = 0 THEN "OK" ELSE IF ret = 1 /\ op = "SET" THEN "EXIST"
    ELSE IF ret = 1 THEN "NO_EXIST" ELSE "ERROR"

(* The status each command gives to each code. *)
Status(op, ret) ==
    CASE ret = 0 -> IF op = "EXIST" THEN "EXIST" ELSE "OK"
      [] ret = 1 -> IF op = "SET" THEN "EXIST" ELSE "NO_EXIST"
      [] OTHER -> "ERROR"

-----------------------------------------------------------------------------
(* The steps of a worker.                                                   *)

Call(w, r) ==
    /\ at[w] = "idle"
    /\ Goto(w, "call")
    /\ cmd' = [cmd EXCEPT ![w] = r]
    /\ reply' = [reply EXCEPT ![w] = Says(NULL, NULL)]
    /\ UNCHANGED <<map, result, counts, disturbed>>

(* Unknown command, value required: answered at once. *)
Invalid(r) == r.op = "NONE" \/ (r.op \in {"SET", "MOD"} /\ r.value = NULL)

Refuse(w) ==
    /\ at[w] = "call"
    /\ Invalid(cmd[w])
    /\ Goto(w, "refused")
    /\ cmd' = [cmd EXCEPT ![w] = NULL]
    /\ reply' = [reply EXCEPT ![w] = Says("ERROR", NULL)]
    /\ UNCHANGED <<map, result, counts, disturbed>>

(* GET /api/stats *)
Statistics(w) ==
    /\ at[w] = "call"
    /\ cmd[w].op = "STATS"
    /\ Goto(w, "array")
    /\ cmd' = [cmd EXCEPT ![w] = NULL]
    /\ reply' = [reply EXCEPT ![w] = Says("OK", NULL)]
    /\ UNCHANGED <<map, result, counts, disturbed>>

Replies(w, ret, text) ==
    /\ Goto(w, "array")
    /\ cmd' = [cmd EXCEPT ![w] = NULL]
    /\ reply' = [reply EXCEPT ![w] = Says(Status(cmd[w].op, ret), text)]

(* Mutant: the statistics of the first engine are taken before the command. *)
ChangesCountedBefore(w) ==
    LET r == cmd[w] IN
    /\ at[w] = "call"
    /\ ~Invalid(r) /\ Succeeds(r)
    /\ map' = [map EXCEPT ![r.engine][r.key] = IF r.op = "DEL" THEN NULL ELSE r.value]
    /\ Goto(w, "hash")
    /\ cmd' = [cmd EXCEPT ![w] = NULL]
    /\ reply' = [reply EXCEPT ![w] = Says(Status(r.op, 0), NULL)]
    /\ counts' = [counts EXCEPT ![w]["array"] = Count("array")]
    /\ UNCHANGED <<result, disturbed>>

(* Mutant: DEL frees the value and leaves the entry. *)
ChangesLeavesEntry(w) ==
    LET r == cmd[w] IN
    /\ at[w] = "call"
    /\ ~Invalid(r) /\ Succeeds(r)
    /\ map' = [map EXCEPT ![r.engine][r.key] = IF r.op = "DEL" THEN Freed ELSE r.value]
    /\ Replies(w, 0, NULL)
    /\ UNCHANGED <<result, counts, disturbed>>

(* SET, MOD and DEL that change their engine.  What becomes of the value a *)
(* MOD or a DEL takes out, whoever points to it: MOD frees it, and so does *)
(* kvs_array_del; kvs_rbtree_del never does, nor does kvs_hash_del for the *)
(* head of a chain, which the only key of the hash is.                     *)
PointsTo(u, r) == result[u] = <<r.engine, r.key>>

Frees(r) ==
    CASE r.op = "MOD" \/ r.engine = "array" -> {TRUE}
      [] r.engine = "rbtree" -> {FALSE}
      [] OTHER -> IF OthersInHash(r) THEN BOOLEAN ELSE {FALSE}

Changes(w) ==
    LET r == cmd[w]
        readers == {u \in Workers : r.op # "SET" /\ PointsTo(u, r)}
    IN
    /\ at[w] = "call"
    /\ ~Invalid(r) /\ Succeeds(r)
    /\ map' = [map EXCEPT ![r.engine][r.key] = IF r.op = "DEL" THEN NULL ELSE r.value]
    /\ Goto(w, "array")
    /\ cmd' = [cmd EXCEPT ![w] = NULL]
    /\ \E frees \in Frees(r) :
          reply' = [u \in Workers |->
              IF u = w THEN Says(Status(r.op, 0), NULL)
              ELSE IF u \in readers /\ frees THEN [reply[u] EXCEPT !.text = Freed]
              ELSE reply[u]]
    /\ result' = [u \in Workers |-> IF u \in readers THEN NULL ELSE result[u]]
    /\ disturbed' = [u \in Workers |->
           IF u # w /\ r.op # "MOD" /\ at[u] \notin {"idle", "call"}
           THEN disturbed[u] \cup {r.engine} ELSE disturbed[u]]
    /\ UNCHANGED counts

(* SET, MOD and DEL that do not. *)
ChangesNothing(w) ==
    LET r == cmd[w] IN
    /\ at[w] = "call"
    /\ ~Invalid(r) /\ ~Succeeds(r)
    /\ r.op \in {"SET", "MOD", "DEL"}
    /\ \E ret \in Codes(r) : Replies(w, ret, NULL)
    /\ UNCHANGED <<map, result, counts, disturbed>>

(* GET and EXIST; the result of a GET is a pointer into the engine. *)
Looks(w) ==
    LET r == cmd[w]
        points == r.op = "GET" /\ Has(r)
    IN
    /\ at[w] = "call"
    /\ r.op \in {"GET", "EXIST"}
    /\ \E ret \in Codes(r) :
          Replies(w, ret, IF points THEN map[r.engine][r.key] ELSE NULL)
    /\ result' = [result EXCEPT ![w] = IF points THEN <<r.engine, r.key>> ELSE NULL]
    /\ UNCHANGED <<map, counts, disturbed>>

(* kvs_get_stats: a critical section for each engine. *)
NextLock(e) == CASE e = "array" -> "hash" [] e = "hash" -> "rbtree" [] e = "rbtree" -> "answer"

ReadCount(w, e) ==
    /\ at[w] = e
    /\ counts' = [counts EXCEPT ![w][e] = Count(e)]
    /\ Goto(w, NextLock(e))
    /\ UNCHANGED <<map, cmd, reply, result, disturbed>>

(* sprintf reads the value of a GET.  Freed memory holds any text. *)
Answer(w) ==
    /\ at[w] \in {"answer", "refused"}
    /\ Goto(w, "idle")
    /\ \E text \in IF reply[w].text = Freed THEN Values \cup {Freed} ELSE {reply[w].text} :
          reply' = [reply EXCEPT ![w].text = text]
    /\ result' = [result EXCEPT ![w] = NULL]
    /\ counts' = [counts EXCEPT ![w] = NoCounts]
    /\ disturbed' = [disturbed EXCEPT ![w] = {}]
    /\ UNCHANGED <<map, cmd>>

Next ==
    \E w \in Workers :
        \/ \E r \in Requests : Call(w, r)
        \/ Refuse(w) \/ Statistics(w)
        \/ Changes(w) \/ ChangesNothing(w) \/ Looks(w)
        \/ \E e \in Engines : ReadCount(w, e)
        \/ Answer(w)

Spec == Init /\ [][Next]_vars

-----------------------------------------------------------------------------
Statuses == {"OK", "EXIST", "NO_EXIST", "ERROR"}

(* Types of the variables. *)
TypeOK ==
    /\ map \in [Engines -> [Keys -> Values \cup {NULL}]]
    /\ at \in [Workers -> {"idle", "call", "answer", "refused"} \cup Engines]
    /\ cmd \in [Workers -> Requests \cup {NULL}]
    /\ reply \in [Workers -> [status : Statuses \cup {NULL}, text : Values \cup {NULL, Freed}]]
    /\ result \in [Workers -> (Engines \X Keys) \cup {NULL}]
    /\ counts \in [Workers -> [Engines -> Nat]]
    /\ disturbed \in [Workers -> SUBSET Engines]

(* The statistics an answer carries count the command's own effect and the *)
(* present contents of every engine that nobody else has changed since:    *)
(* kvs_get_stats, called after the engine, reads it again under its lock.  *)
CountsCurrent ==
    \A w \in Workers : at[w] = "answer" =>
        \A e \in Engines \ disturbed[w] : counts[w][e] = Count(e)

(* A GET that is not answered yet, and whose value nobody has taken out of  *)
(* its engine since, will print the value its key has at present.           *)
PointerCurrent ==
    \A w \in Workers : result[w] # NULL =>
        /\ at[w] \in Engines \cup {"answer"}
        /\ reply[w].text = map[result[w][1]][result[w][2]]
        /\ reply[w].text # NULL

(* A worker holds a request from its call to its effect. *)
CommandKept == \A w \in Workers : at[w] = "call" <=> cmd[w] # NULL

(* What CountsCurrent says, for the engines whose lock has been taken. *)
Counted(l) ==
    CASE l = "hash" -> {"array"} [] l = "rbtree" -> {"array", "hash"}
      [] l = "answer" -> Engines [] OTHER -> {}

CountsSoFar ==
    \A w \in Workers : \A e \in Counted(at[w]) \ disturbed[w] : counts[w][e] = Count(e)

(* The inductive invariant. *)
Inductive == TypeOK /\ PointerCurrent /\ CommandKept /\ CountsSoFar

(* README.md:36: the rwlocks of reads and writes keep the data consistent.  *)
(* A GET does not answer with memory that has been freed.                   *)
GetReadsStored == \A w \in Workers : at[w] = "answer" => reply[w].text # Freed

(* Each command is atomic and answers with the outcome of its effect, for  *)
(* as long as no value is freed under a GET that has still to print it.    *)
Stage(l) == CASE l = "idle" -> "idle" [] l = "call" -> "called" [] OTHER -> "done"

Service == INSTANCE KvService WITH
    stage <- [w \in Workers |-> Stage(at[w])],
    asked <- cmd,
    answer <- reply

Stale == \E w \in Workers : reply[w].text = Freed

ImplementsKvService ==
    Service!Init /\ [][vars' # vars /\ ~Stale /\ ~Stale' => Service!Next]_(Service!vars)

=============================================================================

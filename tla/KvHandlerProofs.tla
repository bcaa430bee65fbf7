---------------------------- MODULE KvHandlerProofs ----------------------------
(***************************************************************************)
(* The command handler for every number of workers, keys, values and       *)
(* requests: the inductive invariant, what an answer's statistics and the   *)
(* pointer of a GET are worth, and that commands are atomic.                *)
(***************************************************************************)
EXTENDS KvHandler, FiniteSetTheorems, TLAPS

-----------------------------------------------------------------------------
(* Types of what the actions compute.                                       *)

(* A request, and the code of a command, are what the handler takes them for. *)
LEMMA RequestType ==
    ASSUME NEW r \in Requests
    PROVE  /\ r.op \in Ops /\ r.engine \in Engines /\ r.key \in Keys
           /\ r.value \in Values \cup {NULL} /\ r # NULL
BY HandlerAssumption

LEMMA StatusType == \A op, ret : Status(op, ret) \in Statuses
BY DEF Status, Statuses

(* The number of keys of an engine is a number. *)
LEMMA CountType ==
    ASSUME NEW e \in Engines
    PROVE  Count(e) \in Nat
<1>1. IsFiniteSet({k \in Keys : map[e][k] # NULL})
  BY HandlerAssumption, FS_Subset
<1> QED
  BY <1>1, FS_CardinalityType DEF Count

(* Writing a request's value, or NULL, keeps the type of the tables. *)
LEMMA WriteType ==
    ASSUME NEW r \in Requests, NEW v \in Values \cup {NULL},
           map \in [Engines -> [Keys -> Values \cup {NULL}]]
    PROVE  [map EXCEPT ![r.engine][r.key] = v] \in [Engines -> [Keys -> Values \cup {NULL}]]
BY RequestType

(* An engine whose table has not changed has as many keys as before. *)
LEMMA CountUnchanged ==
    ASSUME NEW e \in Engines, map'[e] = map[e]
    PROVE  Count(e)' = Count(e)
BY DEF Count

-----------------------------------------------------------------------------
(* The inductive invariant, one lemma for each action.                      *)

LEMMA InitEstablishes == Init => Inductive
<1> SUFFICES ASSUME Init PROVE Inductive
  OBVIOUS
<1>1. TypeOK
  BY HandlerAssumption DEF Init, TypeOK, Says, NoCounts, Engines, Statuses
<1>2. PointerCurrent /\ CommandKept /\ CountsSoFar
  BY DEF Init, PointerCurrent, CommandKept, CountsSoFar, Counted
<1> QED
  BY <1>1, <1>2 DEF Inductive

LEMMA CallPreserves ==
    ASSUME Inductive, NEW w \in Workers, NEW r \in Requests, Call(w, r)
    PROVE  Inductive'
<1> USE DEF Call, Goto
<1>1. TypeOK'
  BY DEF Inductive, TypeOK, Says, Statuses
<1>2. result[w] = NULL
  BY DEF Inductive, PointerCurrent, Engines
<1>3. PointerCurrent'
  BY <1>2 DEF Inductive, TypeOK, PointerCurrent
<1>4. CommandKept'
  BY RequestType DEF Inductive, TypeOK, CommandKept
<1>5. CountsSoFar'
  BY CountUnchanged DEF Inductive, TypeOK, CountsSoFar, Counted, Engines
<1> QED
  BY <1>1, <1>3, <1>4, <1>5 DEF Inductive

LEMMA RefusePreserves ==
    ASSUME Inductive, NEW w \in Workers, Refuse(w)
    PROVE  Inductive'
<1> USE DEF Refuse, Goto
<1>1. TypeOK'
  BY DEF Inductive, TypeOK, Says, Statuses
<1>2. result[w] = NULL
  BY DEF Inductive, PointerCurrent, Engines
<1>3. PointerCurrent'
  BY <1>2 DEF Inductive, TypeOK, PointerCurrent
<1>4. CommandKept'
  BY DEF Inductive, TypeOK, CommandKept
<1>5. CountsSoFar'
  BY CountUnchanged DEF Inductive, TypeOK, CountsSoFar, Counted, Engines
<1> QED
  BY <1>1, <1>3, <1>4, <1>5 DEF Inductive

(* What Statistics, ChangesNothing and Looks have in common: the answer is *)
(* decided, no table changes, and the first lock is next.                   *)
LEMMA DecidedPreserves ==
    ASSUME Inductive, NEW w \in Workers, at[w] = "call",
           at' = [at EXCEPT ![w] = "array"],
           cmd' = [cmd EXCEPT ![w] = NULL],
           NEW answered \in [status : Statuses, text : Values \cup {NULL}],
           reply' = [reply EXCEPT ![w] = answered],
           NEW points \in (Engines \X Keys) \cup {NULL},
           points # NULL => answered.text = map[points[1]][points[2]] /\ answered.text # NULL,
           result' = [result EXCEPT ![w] = points],
           UNCHANGED <<map, counts, disturbed>>
    PROVE  Inductive'
<1>1. TypeOK'
  BY DEF Inductive, TypeOK, Engines
<1>2. PointerCurrent'
  BY DEF Inductive, TypeOK, PointerCurrent, Engines
<1>3. CommandKept'
  BY DEF Inductive, TypeOK, CommandKept
<1>4. CountsSoFar'
  BY CountUnchanged DEF Inductive, TypeOK, CountsSoFar, Counted, Engines
<1> QED
  BY <1>1, <1>2, <1>3, <1>4 DEF Inductive

(* A worker at "call" has a request and no pointer. *)
LEMMA Called ==
    ASSUME Inductive, NEW w \in Workers, at[w] = "call"
    PROVE  cmd[w] \in Requests /\ result[w] = NULL
BY SMTT(30) DEF Inductive, TypeOK, CommandKept, PointerCurrent, Engines

LEMMA StatisticsPreserves ==
    ASSUME Inductive, NEW w \in Workers, Statistics(w)
    PROVE  Inductive'
<1>1. Says("OK", NULL) \in [status : Statuses, text : Values \cup {NULL}]
  BY DEF Says, Statuses
<1>2. result[w] = NULL
  BY Called DEF Statistics
<1>3. result' = [result EXCEPT ![w] = NULL]
  BY <1>2 DEF Statistics, Inductive, TypeOK
<1> QED
  BY <1>1, <1>3, DecidedPreserves DEF Statistics, Goto

LEMMA ChangesNothingPreserves ==
    ASSUME Inductive, NEW w \in Workers, ChangesNothing(w)
    PROVE  Inductive'
<1>1. PICK ret : Replies(w, ret, NULL)
  BY DEF ChangesNothing
<1> DEFINE answered == Says(Status(cmd[w].op, ret), NULL)
<1>2. answered \in [status : Statuses, text : Values \cup {NULL}]
  BY StatusType DEF Says
<1>3. result' = [result EXCEPT ![w] = NULL]
  BY Called DEF ChangesNothing, Inductive, TypeOK
<1> QED
  BY <1>1, <1>2, <1>3, DecidedPreserves DEF ChangesNothing, Replies, Goto

LEMMA LooksPreserves ==
    ASSUME Inductive, NEW w \in Workers, Looks(w)
    PROVE  Inductive'
<1> DEFINE r == cmd[w]
           there == r.op = "GET" /\ Has(r)
           text == IF there THEN map[r.engine][r.key] ELSE NULL
           points == IF there THEN <<r.engine, r.key>> ELSE NULL
<1>1. r \in Requests
  BY Called DEF Looks
<1>2. PICK ret : Replies(w, ret, text)
  BY DEF Looks
<1>3. text \in Values \cup {NULL}
  BY <1>1, RequestType DEF Inductive, TypeOK
<1>4. Says(Status(r.op, ret), text) \in [status : Statuses, text : Values \cup {NULL}]
  BY <1>3, StatusType DEF Says
<1>5. points \in (Engines \X Keys) \cup {NULL}
  BY <1>1, RequestType
<1>6. ASSUME points # NULL
      PROVE  text = map[points[1]][points[2]] /\ text # NULL
  BY <1>6 DEF Has
<1>7. /\ at[w] = "call" /\ at' = [at EXCEPT ![w] = "array"]
      /\ cmd' = [cmd EXCEPT ![w] = NULL]
      /\ reply' = [reply EXCEPT ![w] = Says(Status(r.op, ret), text)]
      /\ result' = [result EXCEPT ![w] = points]
      /\ UNCHANGED <<map, counts, disturbed>>
  BY <1>2 DEF Looks, Replies, Goto
<1>8. Says(Status(r.op, ret), text).text = text
  BY DEF Says
<1> HIDE DEF text, points, there, r
<1> QED
  BY <1>4, <1>5, <1>6, <1>7, <1>8, DecidedPreserves

LEMMA ReadCountPreserves ==
    ASSUME Inductive, NEW w \in Workers, NEW e \in Engines, ReadCount(w, e)
    PROVE  Inductive'
<1> USE DEF ReadCount, Goto
<1>1. Count(e) \in Nat
  BY CountType
<1>2. NextLock(e) \in {"hash", "rbtree", "answer"}
  BY DEF NextLock, Engines
<1>3. Counted(NextLock(e)) = Counted(e) \cup {e}
  BY DEF NextLock, Counted, Engines
<1>4. TypeOK'
  BY <1>1, <1>2 DEF Inductive, TypeOK, Engines
<1>5. PointerCurrent'
  BY <1>2 DEF Inductive, TypeOK, PointerCurrent, Engines
<1>6. CommandKept'
  BY <1>2 DEF Inductive, TypeOK, CommandKept, Engines
<1>7. CountsSoFar'
  <2> SUFFICES ASSUME NEW u \in Workers, NEW f \in Counted(at'[u]) \ disturbed'[u]
               PROVE  counts'[u][f] = Count(f)'
    BY DEF CountsSoFar
  <2>1. f \in Engines
    BY DEF Counted, Engines
  <2>2. Count(f)' = Count(f)
    BY <2>1, CountUnchanged
  <2>3. CASE u = w /\ f = e
    BY <2>2, <2>3 DEF Inductive, TypeOK
  <2>4. CASE u # w
    BY <2>2, <2>4 DEF Inductive, TypeOK, CountsSoFar
  <2>5. CASE u = w /\ f # e
    <3>1. f \in Counted(at[w]) \ disturbed[w]
      BY <1>3, <2>5 DEF Inductive, TypeOK
    <3> QED
      BY <2>1, <2>2, <2>5, <3>1 DEF Inductive, TypeOK, CountsSoFar
  <2> QED
    BY <2>3, <2>4, <2>5
<1> QED
  BY <1>4, <1>5, <1>6, <1>7 DEF Inductive

LEMMA AnswerPreserves ==
    ASSUME Inductive, NEW w \in Workers, Answer(w)
    PROVE  Inductive'
<1> USE DEF Answer, Goto
<1>1. TypeOK'
  <2>1. reply[w] \in [status : Statuses \cup {NULL}, text : Values \cup {NULL, Freed}]
    BY DEF Inductive, TypeOK
  <2>2. PICK text \in Values \cup {NULL, Freed} : reply' = [reply EXCEPT ![w].text = text]
    BY <2>1
  <2>a. [reply[w] EXCEPT !.text = text]
           \in [status : Statuses \cup {NULL}, text : Values \cup {NULL, Freed}]
    BY <2>1
  <2>b. reply' = [reply EXCEPT ![w] = [reply[w] EXCEPT !.text = text]]
    BY <2>2
  <2>3. reply' \in [Workers -> [status : Statuses \cup {NULL}, text : Values \cup {NULL, Freed}]]
    BY <2>a, <2>b DEF Inductive, TypeOK
  <2>4. NoCounts \in [Engines -> Nat]
    BY DEF NoCounts
  <2> QED
    BY <2>3, <2>4 DEF Inductive, TypeOK
<1>2. PointerCurrent'
  BY DEF Inductive, TypeOK, PointerCurrent
<1>3. CommandKept'
  BY DEF Inductive, TypeOK, CommandKept
<1>4. CountsSoFar'
  BY CountUnchanged DEF Inductive, TypeOK, CountsSoFar, Counted, Engines
<1> QED
  BY <1>1, <1>2, <1>3, <1>4 DEF Inductive

-----------------------------------------------------------------------------
(* The commands that change a table.                                        *)

(* The answers of the others: a reader's text is freed, or left alone. *)
OthersAnswers(w, r, frees) ==
    reply' = [u \in Workers |->
        IF u = w THEN Says(Status(r.op, 0), NULL)
        ELSE IF r.op # "SET" /\ PointsTo(u, r) /\ frees THEN [reply[u] EXCEPT !.text = Freed]
        ELSE reply[u]]

LEMMA AnswersOfOthers ==
    ASSUME NEW w \in Workers, Changes(w)
    PROVE  \E frees \in Frees(cmd[w]) : OthersAnswers(w, cmd[w], frees)
<1>1. PICK frees \in Frees(cmd[w]) :
        reply' = [u \in Workers |->
            IF u = w THEN Says(Status(cmd[w].op, 0), NULL)
            ELSE IF u \in {x \in Workers : cmd[w].op # "SET" /\ PointsTo(x, cmd[w])} /\ frees
                 THEN [reply[u] EXCEPT !.text = Freed]
            ELSE reply[u]]
  BY Zenon DEF Changes
<1>2. \A u \in Workers : u \in {x \in Workers : cmd[w].op # "SET" /\ PointsTo(x, cmd[w])}
                            <=> cmd[w].op # "SET" /\ PointsTo(u, cmd[w])
  OBVIOUS
<1> QED
  BY <1>1, <1>2 DEF OthersAnswers

(* What Changes writes. *)
LEMMA ChangesTypes ==
    ASSUME Inductive, NEW w \in Workers, Changes(w)
    PROVE  /\ cmd[w] \in Requests /\ result[w] = NULL
           /\ TypeOK'
<1> DEFINE r == cmd[w]
           v == IF r.op = "DEL" THEN NULL ELSE r.value
<1>1. r \in Requests /\ result[w] = NULL
  BY Called DEF Changes
<1>2. v \in Values \cup {NULL}
  BY <1>1, RequestType
<1>3. map' = [map EXCEPT ![r.engine][r.key] = v]
  BY DEF Changes
<1> HIDE DEF v
<1>4. map' \in [Engines -> [Keys -> Values \cup {NULL}]]
  BY <1>1, <1>2, <1>3, WriteType DEF Inductive, TypeOK
<1>5. reply' \in [Workers -> [status : Statuses \cup {NULL}, text : Values \cup {NULL, Freed}]]
  <2>1. Says(Status(r.op, 0), NULL) \in [status : Statuses \cup {NULL}, text : Values \cup {NULL, Freed}]
    BY StatusType DEF Says
  <2>2. \A u \in Workers :
          [reply[u] EXCEPT !.text = Freed]
              \in [status : Statuses \cup {NULL}, text : Values \cup {NULL, Freed}]
    <3> TAKE u \in Workers
    <3>1. reply[u] \in [status : Statuses \cup {NULL}, text : Values \cup {NULL, Freed}]
      BY DEF Inductive, TypeOK
    <3> QED
      BY <3>1
  <2>3. PICK frees \in Frees(r) : OthersAnswers(w, r, frees)
    BY AnswersOfOthers
  <2> QED
    BY <2>1, <2>2, <2>3 DEF OthersAnswers, Inductive, TypeOK
<1>6. disturbed' \in [Workers -> SUBSET Engines]
  BY <1>1, RequestType DEF Changes, Inductive, TypeOK
<1>7. result' \in [Workers -> (Engines \X Keys) \cup {NULL}]
  BY DEF Changes, Inductive, TypeOK
<1>8. /\ at' \in [Workers -> {"idle", "call", "answer", "refused"} \cup Engines]
      /\ cmd' \in [Workers -> Requests \cup {NULL}]
      /\ counts' \in [Workers -> [Engines -> Nat]]
  BY DEF Changes, Goto, Inductive, TypeOK, Engines
<1> QED
  BY <1>1, <1>4, <1>5, <1>6, <1>7, <1>8 DEF TypeOK

(* The pointers of other GETs are to other keys afterwards. *)
LEMMA ChangesPointers ==
    ASSUME Inductive, NEW w \in Workers, Changes(w)
    PROVE  PointerCurrent'
<1> DEFINE r == cmd[w]
<1>1. r \in Requests /\ result[w] = NULL
  BY ChangesTypes
<1> SUFFICES ASSUME NEW u \in Workers, result'[u] # NULL
             PROVE  /\ at'[u] \in Engines \cup {"answer"}
                    /\ reply'[u].text = map'[result'[u][1]][result'[u][2]]
                    /\ reply'[u].text # NULL
  BY DEF PointerCurrent
<1>2. u # w
  BY <1>1 DEF Changes
<1>3. result'[u] = result[u] /\ result[u] # NULL /\ ~(r.op # "SET" /\ PointsTo(u, r))
  BY DEF Changes
<1>4. result[u] \in Engines \X Keys
  BY <1>3 DEF Inductive, TypeOK
<1>5. at'[u] = at[u] /\ reply'[u] = reply[u]
  BY <1>2, <1>3 DEF Changes, Goto, Inductive, TypeOK
<1>6. /\ at[u] \in Engines \cup {"answer"}
      /\ reply[u].text = map[result[u][1]][result[u][2]]
      /\ reply[u].text # NULL
  BY <1>3 DEF Inductive, PointerCurrent
<1>7. result[u] # <<r.engine, r.key>>
  <2>1. CASE r.op = "SET"
    BY <1>1, <1>6, <2>1, RequestType DEF Changes, Succeeds, Has
  <2>2. CASE r.op # "SET"
    BY <1>3, <2>2 DEF PointsTo
  <2> QED
    BY <2>1, <2>2
<1>8. map'[result[u][1]][result[u][2]] = map[result[u][1]][result[u][2]]
  <2>1. result[u][1] # r.engine \/ result[u][2] # r.key
    BY <1>4, <1>7
  <2> QED
    BY <1>1, <1>4, <2>1, RequestType DEF Changes, Inductive, TypeOK
<1> QED
  BY <1>3, <1>5, <1>6, <1>8

(* A MOD changes no count, and a SET or DEL disturbs those who have read it. *)
LEMMA ChangesCounts ==
    ASSUME Inductive, NEW w \in Workers, Changes(w)
    PROVE  CountsSoFar'
<1> DEFINE r == cmd[w]
<1>1. r \in Requests
  BY ChangesTypes
<1> SUFFICES ASSUME NEW u \in Workers, NEW e \in Counted(at'[u]) \ disturbed'[u]
             PROVE  counts'[u][e] = Count(e)'
  BY DEF CountsSoFar
<1>2. e \in Engines
  BY DEF Counted, Engines
<1>3. u # w /\ at'[u] = at[u]
  BY DEF Changes, Goto, Inductive, TypeOK, Counted
<1>4. at[u] \notin {"idle", "call"}
  BY <1>3 DEF Counted
<1>5. e \notin disturbed[u] /\ (r.op # "MOD" => e # r.engine)
  BY <1>2, <1>3, <1>4 DEF Changes, Inductive, TypeOK
<1>6. counts'[u][e] = Count(e)
  BY <1>3, <1>5 DEF Changes, Inductive, CountsSoFar
<1>7. CASE e # r.engine
  <2>1. map'[e] = map[e]
    BY <1>1, <1>2, <1>7, RequestType DEF Changes, Inductive, TypeOK
  <2> QED
    BY <1>2, <1>6, <2>1, CountUnchanged
<1>8. CASE e = r.engine
  <2>1. r.op = "MOD"
    BY <1>5, <1>8
  <2>2. r.value # NULL /\ map[e][r.key] # NULL
    BY <1>8, <2>1 DEF Changes, Invalid, Succeeds, Has
  <2>3. \A k \in Keys : map'[e][k] # NULL <=> map[e][k] # NULL
    BY <1>1, <1>2, <1>8, <2>1, <2>2, RequestType DEF Changes, Inductive, TypeOK
  <2>4. {k \in Keys : map'[e][k] # NULL} = {k \in Keys : map[e][k] # NULL}
    BY <2>3
  <2> QED
    BY <1>6, <2>4 DEF Count
<1> QED
  BY <1>7, <1>8

LEMMA ChangesPreserves ==
    ASSUME Inductive, NEW w \in Workers, Changes(w)
    PROVE  Inductive'
<1>1. CommandKept'
  BY DEF Changes, Goto, Inductive, TypeOK, CommandKept
<1> QED
  BY <1>1, ChangesTypes, ChangesPointers, ChangesCounts DEF Inductive

(* The invariant of the handler, at every step of every worker. *)
THEOREM HandlerInvariant == Spec => []Inductive
<1>1. Init => Inductive
  BY InitEstablishes
<1>2. Inductive /\ [Next]_vars => Inductive'
  <2> SUFFICES ASSUME Inductive, [Next]_vars PROVE Inductive'
    OBVIOUS
  <2>1. ASSUME NEW w \in Workers, NEW r \in Requests, Call(w, r) PROVE Inductive'
    BY <2>1, CallPreserves
  <2>2. ASSUME NEW w \in Workers, Refuse(w) PROVE Inductive'
    BY <2>2, RefusePreserves
  <2>3. ASSUME NEW w \in Workers, Statistics(w) PROVE Inductive'
    BY <2>3, StatisticsPreserves
  <2>4. ASSUME NEW w \in Workers, Changes(w) PROVE Inductive'
    BY <2>4, ChangesPreserves
  <2>5. ASSUME NEW w \in Workers, ChangesNothing(w) PROVE Inductive'
    BY <2>5, ChangesNothingPreserves
  <2>6. ASSUME NEW w \in Workers, Looks(w) PROVE Inductive'
    BY <2>6, LooksPreserves
  <2>7. ASSUME NEW w \in Workers, NEW e \in Engines, ReadCount(w, e) PROVE Inductive'
    BY <2>7, ReadCountPreserves
  <2>8. ASSUME NEW w \in Workers, Answer(w) PROVE Inductive'
    BY <2>8, AnswerPreserves
  <2>9. CASE UNCHANGED vars
    BY <2>9 DEF vars, Inductive, TypeOK, PointerCurrent, CommandKept, CountsSoFar, Count
  <2> QED
    BY <2>1, <2>2, <2>3, <2>4, <2>5, <2>6, <2>7, <2>8, <2>9 DEF Next
<1> QED
  BY <1>1, <1>2, PTL DEF Spec

(* A GET that waits for its answer, and whose value nobody has freed, prints *)
(* the present value of its key (kvs_handler.cpp:193-202).                  *)
THEOREM GetPointsToPresent == Spec => []PointerCurrent
<1>1. Inductive => PointerCurrent
  BY DEF Inductive
<1> QED
  BY <1>1, HandlerInvariant, PTL

(* The statistics of an answer are current in every engine that nobody has *)
(* disturbed since (kvs_get_stats after the command).                       *)
THEOREM StatisticsCurrent == Spec => []CountsCurrent
<1>1. Inductive => CountsCurrent
  BY DEF Inductive, CountsSoFar, CountsCurrent, Counted
<1> QED
  BY <1>1, HandlerInvariant, PTL

-----------------------------------------------------------------------------
(* Commands are atomic: the refinement of KvService, for as long as no GET *)
(* has lost its value.                                                      *)

Healthy == Inductive /\ ~Stale /\ ~Stale'

(* A step of one worker moves its stage alone. *)
LEMMA StageMoves ==
    ASSUME Inductive, NEW w \in Workers, NEW l, at' = [at EXCEPT ![w] = l]
    PROVE  [u \in Workers |-> Stage(at[u])]' =
               [[u \in Workers |-> Stage(at[u])] EXCEPT ![w] = Stage(l)]
BY DEF Inductive, TypeOK

LEMMA InitRefines == Init => Service!Init
BY DEF Init, Service!Init, Stage, Says, Service!Says

LEMMA CallRefines ==
    ASSUME Healthy, NEW w \in Workers, NEW r \in Requests, Call(w, r)
    PROVE  Service!Call(w, r)
<1>1. at[w] = "idle" /\ at' = [at EXCEPT ![w] = "call"]
  BY DEF Call, Goto
<1> QED
  BY <1>1, StageMoves DEF Healthy, Call, Service!Call, Stage, Says, Service!Says

(* The effect of a command: the stage, the request and the answer. *)
LEMMA EffectRefines ==
    ASSUME Healthy, NEW w \in Workers, NEW l \in {"array", "refused"}, NEW answered,
           at[w] = "call", at' = [at EXCEPT ![w] = l],
           cmd' = [cmd EXCEPT ![w] = NULL],
           reply' = [reply EXCEPT ![w] = answered]
    PROVE  Service!Effect(w, answered)
<1>1. Stage(l) = "done" /\ Stage(at[w]) = "called"
  BY DEF Stage
<1> QED
  BY <1>1, StageMoves DEF Healthy, Service!Effect

LEMMA RefuseRefines ==
    ASSUME Healthy, NEW w \in Workers, Refuse(w)
    PROVE  Service!Do(w)
<1>1. Service!Effect(w, Says("ERROR", NULL))
  BY EffectRefines DEF Refuse, Goto
<1>2. Service!Refuse(w, cmd[w])
  BY <1>1 DEF Refuse, Invalid, Service!Refuse, Says, Service!Says
<1> QED
  BY <1>2 DEF Refuse, Invalid, Service!Do, Stage

LEMMA StatisticsRefines ==
    ASSUME Healthy, NEW w \in Workers, Statistics(w)
    PROVE  Service!Do(w)
<1>1. Service!Effect(w, Says("OK", NULL))
  BY EffectRefines DEF Statistics, Goto
<1>2. Service!Statistics(w, cmd[w])
  BY <1>1 DEF Statistics, Service!Statistics, Says, Service!Says
<1> QED
  BY <1>2 DEF Statistics, Service!Do, Stage

(* The service's array is full when the handler's is. *)
LEMMA ServiceFull ==
    ASSUME NEW e
    PROVE  Service!Full(e) <=> e = "array" /\ ArrayFull
<1>1. \A S : Service!Cardinality(S) = Cardinality(S)
  BY DEF Cardinality, Service!Cardinality
<1> QED
  BY <1>1 DEF Service!Full, Service!Stored, ArrayFull, Count

(* The pointers of others are unaffected when no answer is stale. *)
LEMMA ChangesRefines ==
    ASSUME Healthy, NEW w \in Workers, Changes(w)
    PROVE  Service!Do(w)
<1> DEFINE r == cmd[w]
           answered == Says(Status(r.op, 0), NULL)
<1>1. r \in Requests
  BY Called DEF Healthy, Changes
<1>2. PICK frees \in Frees(r) : OthersAnswers(w, r, frees)
  BY AnswersOfOthers
<1>3. reply' = [reply EXCEPT ![w] = answered]
  <2>1. \A u \in Workers : reply'[u] = IF u = w THEN answered ELSE reply[u]
    <3> SUFFICES ASSUME NEW u \in Workers, u # w, reply'[u] # reply[u] PROVE FALSE
      BY <1>2 DEF OthersAnswers
    <3>1. reply'[u] = [reply[u] EXCEPT !.text = Freed]
      BY <1>2 DEF OthersAnswers
    <3>2. reply'[u].text = Freed
      BY <3>1 DEF Healthy, Inductive, TypeOK
    <3> QED
      BY <3>2 DEF Healthy, Stale
  <2> HIDE DEF answered
  <2>2. reply' = [u \in Workers |-> reply'[u]]
    BY <1>2 DEF OthersAnswers
  <2> QED
    BY <2>1, <2>2 DEF Healthy, Inductive, TypeOK
<1>4. Service!Effect(w, answered)
  BY <1>3, EffectRefines DEF Changes, Goto
<1>5. answered = Says("OK", NULL)
  BY <1>1 DEF Changes, Succeeds, Status
<1>6. CASE r.op = "SET"
  <2>1. map' = [map EXCEPT ![r.engine][r.key] = r.value] /\ map[r.engine][r.key] = NULL
    BY <1>6 DEF Changes, Succeeds, Has
  <2>0. ~Service!Full(r.engine)
    BY <1>6, ServiceFull DEF Changes, Succeeds
  <2>2. Service!Set(w, r)
    BY <1>4, <1>5, <1>6, <2>1, <2>0 DEF Service!Set, Service!Write, Says, Service!Says
  <2> QED
    BY <2>2 DEF Changes, Invalid, Service!Do, Stage
<1>7. CASE r.op # "SET"
  <2>1. /\ map' = [map EXCEPT ![r.engine][r.key] = IF r.op = "DEL" THEN NULL ELSE r.value]
        /\ r.op \in {"MOD", "DEL"} /\ map[r.engine][r.key] # NULL
    BY <1>7 DEF Changes, Succeeds, Has
  <2>2. map' = [map EXCEPT ![r.engine][r.key] = IF r.op = "MOD" THEN r.value ELSE NULL]
    BY <2>1
  <2>3. Service!Change(w, r)
    BY <1>4, <1>5, <2>1, <2>2 DEF Service!Change, Service!Write, Says, Service!Says
  <2> QED
    BY <2>3 DEF Changes, Invalid, Service!Do, Stage
<1> QED
  BY <1>6, <1>7

LEMMA ChangesNothingRefines ==
    ASSUME Healthy, NEW w \in Workers, ChangesNothing(w)
    PROVE  Service!Do(w)
<1> DEFINE r == cmd[w]
<1>1. PICK ret \in Codes(r) : Replies(w, ret, NULL)
  BY DEF ChangesNothing
<1>2. Service!Effect(w, Says(Status(r.op, ret), NULL))
  BY <1>1, EffectRefines DEF ChangesNothing, Replies, Goto
<1>3. UNCHANGED map /\ ~Succeeds(r) /\ ~Invalid(r)
  BY DEF ChangesNothing
<1>4. CASE r.op = "SET"
  <2>1. CASE r.engine = "array" /\ ArrayFull
    <3>1. ret = -1
      BY <1>1, <1>4, <2>1 DEF Codes
    <3>2. Status(r.op, ret) = "ERROR"
      BY <3>1 DEF Status
    <3>3. Service!Full(r.engine)
      BY <2>1, ServiceFull
    <3>4. Service!Effect(w, Service!Says("ERROR", NULL))
      BY <1>2, <3>2 DEF Says, Service!Says
    <3>5. Service!Set(w, r)
      BY <1>3, <1>4, <2>1, <3>3, <3>4 DEF Service!Set
    <3> QED
      BY <1>3, <3>5 DEF ChangesNothing, Invalid, Service!Do, Stage
  <2>2. CASE ~(r.engine = "array" /\ ArrayFull)
    <3>1. ret = 1 /\ Has(r)
      BY <1>1, <1>3, <1>4, <2>2 DEF Codes, Succeeds
    <3>2. Status(r.op, ret) = "EXIST"
      BY <1>4, <3>1 DEF Status
    <3>3. map[r.engine][r.key] # NULL /\ Service!Effect(w, Service!Says("EXIST", NULL))
      BY <1>2, <3>1, <3>2 DEF Has, Says, Service!Says
    <3>4. Service!Set(w, r)
      BY <1>3, <1>4, <2>2, <3>3, ServiceFull DEF Service!Set
    <3> QED
      BY <1>3, <3>4 DEF ChangesNothing, Invalid, Service!Do, Stage
  <2> QED
    BY <2>1, <2>2
<1>5. CASE r.op # "SET"
  <2>1. r.op \in {"MOD", "DEL"} /\ ~Has(r)
    BY <1>3, <1>5 DEF ChangesNothing, Succeeds
  <2>2. ret = 1 \/ (ret = -1 /\ r.op = "DEL" /\ r.engine = "hash")
    BY <1>1, <2>1 DEF Codes
  <2>3. \/ Status(r.op, ret) = "NO_EXIST"
        \/ Status(r.op, ret) = "ERROR" /\ r.op = "DEL" /\ r.engine = "hash"
    BY <2>1, <2>2 DEF Status
  <2>4. Service!Change(w, r)
    BY <1>2, <1>3, <2>1, <2>3 DEF Service!Change, Says, Service!Says, Has
  <2> QED
    BY <1>3, <2>4 DEF ChangesNothing, Invalid, Service!Do, Stage
<1> QED
  BY <1>4, <1>5

LEMMA LooksRefines ==
    ASSUME Healthy, NEW w \in Workers, Looks(w)
    PROVE  Service!Do(w)
<1> DEFINE r == cmd[w]
           text == IF r.op = "GET" /\ Has(r) THEN map[r.engine][r.key] ELSE NULL
<1>1. PICK ret \in Codes(r) : Replies(w, ret, text)
  BY DEF Looks
<1>2. Service!Effect(w, Says(Status(r.op, ret), text))
  BY <1>1, EffectRefines DEF Looks, Replies, Goto
<1>3. ret = IF Has(r) THEN 0 ELSE 1
  BY <1>1 DEF Looks, Codes
<1>4. Status(r.op, ret) = IF ~Has(r) THEN "NO_EXIST" ELSE IF r.op = "GET" THEN "OK" ELSE "EXIST"
  BY <1>3 DEF Looks, Status
<1>5. Service!Look(w, r)
  BY <1>2, <1>4 DEF Looks, Service!Look, Says, Service!Says, Has
<1> QED
  BY <1>5 DEF Looks, Service!Do, Stage

(* Taking a lock for the statistics changes nothing a client can see. *)
LEMMA ReadCountStutters ==
    ASSUME Healthy, NEW w \in Workers, NEW e \in Engines, ReadCount(w, e)
    PROVE  UNCHANGED Service!vars
<1>1. Stage(at[w]) = "done" /\ Stage(NextLock(e)) = "done"
  BY DEF ReadCount, Stage, NextLock, Engines
<1>2. at' = [at EXCEPT ![w] = NextLock(e)]
  BY DEF ReadCount, Goto
<1>3. [u \in Workers |-> Stage(at[u])]' = [u \in Workers |-> Stage(at[u])]
  BY <1>1, <1>2, StageMoves DEF Healthy
<1> QED
  BY <1>3 DEF ReadCount, Service!vars

LEMMA AnswerRefines ==
    ASSUME Healthy, NEW w \in Workers, Answer(w)
    PROVE  Service!Answer(w)
<1>1. Stage(at[w]) = "done" /\ Stage("idle") = "idle" /\ at' = [at EXCEPT ![w] = "idle"]
  BY DEF Answer, Goto, Stage
<1>2. reply' = reply
  BY DEF Answer, Healthy, Stale, Inductive, TypeOK
<1> QED
  BY <1>1, <1>2, StageMoves DEF Healthy, Answer, Service!Answer

(* Every step is one of the service, or hidden. *)
THEOREM HandlerIsService == Spec => ImplementsKvService
<1>1. Init => Service!Init
  BY InitRefines
<1>2. Inductive /\ [Next]_vars
         => [vars' # vars /\ ~Stale /\ ~Stale' => Service!Next]_(Service!vars)
  <2> SUFFICES ASSUME Inductive, [Next]_vars, vars' # vars, ~Stale, ~Stale'
               PROVE  Service!Next \/ UNCHANGED Service!vars
    OBVIOUS
  <2>h. Healthy
    BY DEF Healthy
  <2>1. ASSUME NEW w \in Workers, NEW r \in Requests, Call(w, r) PROVE Service!Next
    BY <2>h, <2>1, CallRefines DEF Service!Next
  <2>2. ASSUME NEW w \in Workers,
               Refuse(w) \/ Statistics(w) \/ Changes(w) \/ ChangesNothing(w) \/ Looks(w)
        PROVE  Service!Next
    BY <2>h, <2>2, RefuseRefines, StatisticsRefines, ChangesRefines, ChangesNothingRefines,
       LooksRefines DEF Service!Next
  <2>3. ASSUME NEW w \in Workers, NEW e \in Engines, ReadCount(w, e)
        PROVE  UNCHANGED Service!vars
    BY <2>h, <2>3, ReadCountStutters
  <2>4. ASSUME NEW w \in Workers, Answer(w) PROVE Service!Next
    BY <2>h, <2>4, AnswerRefines DEF Service!Next
  <2> QED
    BY <2>1, <2>2, <2>3, <2>4 DEF Next
<1> QED
  BY <1>1, <1>2, HandlerInvariant, PTL DEF Spec, ImplementsKvService

=============================================================================

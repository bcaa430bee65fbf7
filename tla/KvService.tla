------------------------------ MODULE KvService ------------------------------
(***************************************************************************)
(* What the clients of kvs_handle_command can count on: each command takes *)
(* effect on the map of its engine at one instant between its call and its *)
(* answer, and the answer is the one of that instant.                      *)
(***************************************************************************)
EXTENDS Integers, FiniteSets

CONSTANTS Workers, Engines, Keys, Requests, ArrayMax, NULL

VARIABLES
    map,        \* the value of each key in each engine, NULL when it has none
    stage,      \* of each worker: "idle", "called", "done" (the command has had its effect)
    asked,      \* the request of each worker that is "called"
    answer      \* the answer of each worker, from the effect to the next call

vars == <<map, stage, asked, answer>>

Says(status, text) == [status |-> status, text |-> text]
Stored(e) == {k \in Keys : map[e][k] # NULL}

Init ==
    /\ map = [e \in Engines |-> [k \in Keys |-> NULL]]
    /\ stage = [w \in Workers |-> "idle"]
    /\ asked = [w \in Workers |-> NULL]
    /\ answer = [w \in Workers |-> Says(NULL, NULL)]

Call(w, r) ==
    /\ stage[w] = "idle"
    /\ stage' = [stage EXCEPT ![w] = "called"]
    /\ asked' = [asked EXCEPT ![w] = r]
    /\ answer' = [answer EXCEPT ![w] = Says(NULL, NULL)]
    /\ UNCHANGED map

Effect(w, reply) ==
    /\ stage[w] = "called"
    /\ stage' = [stage EXCEPT ![w] = "done"]
    /\ asked' = [asked EXCEPT ![w] = NULL]
    /\ answer' = [answer EXCEPT ![w] = reply]

Write(r, v) == map' = [map EXCEPT ![r.engine][r.key] = v]

(* A SET stores the value of a new key.  A full array refuses every key.   *)
Full(e) == e = "array" /\ Cardinality(Stored("array")) = ArrayMax

Set(w, r) ==
    /\ r.op = "SET"
    /\ \/ /\ ~Full(r.engine) /\ map[r.engine][r.key] = NULL
          /\ Write(r, r.value) /\ Effect(w, Says("OK", NULL))
       \/ /\ ~Full(r.engine) /\ map[r.engine][r.key] # NULL
          /\ UNCHANGED map /\ Effect(w, Says("EXIST", NULL))
       \/ /\ Full(r.engine)
          /\ UNCHANGED map /\ Effect(w, Says("ERROR", NULL))

(* MOD and DEL change a key that is there; a DEL that finds no key in the  *)
(* hash may say ERROR.                                                     *)
Change(w, r) ==
    /\ r.op \in {"MOD", "DEL"}
    /\ \/ /\ map[r.engine][r.key] # NULL
          /\ Write(r, IF r.op = "MOD" THEN r.value ELSE NULL)
          /\ Effect(w, Says("OK", NULL))
       \/ /\ map[r.engine][r.key] = NULL
          /\ UNCHANGED map
          /\ \/ Effect(w, Says("NO_EXIST", NULL))
             \/ r.op = "DEL" /\ r.engine = "hash" /\ Effect(w, Says("ERROR", NULL))

(* GET and EXIST tell what is there. *)
Look(w, r) ==
    LET v == map[r.engine][r.key] IN
    /\ r.op \in {"GET", "EXIST"}
    /\ UNCHANGED map
    /\ Effect(w, IF v = NULL THEN Says("NO_EXIST", NULL)
                 ELSE IF r.op = "GET" THEN Says("OK", v) ELSE Says("EXIST", NULL))

(* A command that is not one, or has no value where it needs one, changes   *)
(* nothing; neither do the statistics.                                      *)
Refuse(w, r) ==
    /\ r.op = "NONE" \/ (r.op \in {"SET", "MOD"} /\ r.value = NULL)
    /\ UNCHANGED map
    /\ Effect(w, Says("ERROR", NULL))

Statistics(w, r) ==
    /\ r.op = "STATS"
    /\ UNCHANGED map
    /\ Effect(w, Says("OK", NULL))

Do(w) ==
    LET r == asked[w] IN
    /\ stage[w] = "called"
    /\ IF r.op = "NONE" \/ (r.op \in {"SET", "MOD"} /\ r.value = NULL)
       THEN Refuse(w, r)
       ELSE Set(w, r) \/ Change(w, r) \/ Look(w, r) \/ Statistics(w, r)

Answer(w) ==
    /\ stage[w] = "done"
    /\ stage' = [stage EXCEPT ![w] = "idle"]
    /\ UNCHANGED <<map, asked, answer>>

Next ==
    \E w \in Workers :
        \/ \E r \in Requests : Call(w, r)
        \/ Do(w)
        \/ Answer(w)

Spec == Init /\ [][Next]_vars

=============================================================================

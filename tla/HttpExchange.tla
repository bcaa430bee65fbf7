---------------------------- MODULE HttpExchange ----------------------------
(***************************************************************************)
(* What a client of one connection can count on: a request is served once, *)
(* as a whole, and its answer arrives in order and complete before the     *)
(* next request.  The server may close the connection at any time.         *)
(***************************************************************************)
EXTENDS Integers, Sequences

CONSTANTS
    Requests,
    None,
    Rights(_),  \* the answers a request may get
    Runs(_),    \* the commands behind an answer, a sequence of at most one
    Keeps(_),   \* the client asks to keep the connection
    Size        \* of an answer

VARIABLES
    asked,      \* the request of the client, None between two requests
    answer,     \* what is sent, None before the request has been served
    sent,       \* the bytes of the answer that have been sent
    executed,   \* the commands the connection has executed
    open

vars == <<asked, answer, sent, executed, open>>

Init ==
    /\ asked = None
    /\ answer = None
    /\ sent = << >>
    /\ executed = << >>
    /\ open = TRUE

Ask(r) ==
    /\ open /\ asked = None
    /\ asked' = r
    /\ UNCHANGED <<answer, sent, executed, open>>

Serve ==
    /\ open /\ asked # None /\ answer = None
    /\ answer' \in Rights(asked)
    /\ executed' = executed \o Runs(answer')
    /\ sent' = << >>
    /\ UNCHANGED <<asked, open>>

(* The next bytes; the last one ends the exchange. *)
Deliver(n) ==
    /\ open /\ answer # None
    /\ Len(sent) < n
    /\ sent' = [i \in 1..n |-> i]
    /\ IF n < Size
       THEN UNCHANGED <<asked, answer, open>>
       ELSE asked' = None /\ answer' = None /\ open' = Keeps(asked)
    /\ UNCHANGED executed

Close ==
    /\ open
    /\ open' = FALSE
    /\ UNCHANGED <<asked, answer, sent, executed>>

Next ==
    \/ \E r \in Requests : Ask(r)
    \/ Serve
    \/ \E n \in 1..Size : Deliver(n)
    \/ Close

Spec == Init /\ [][Next]_vars

=============================================================================

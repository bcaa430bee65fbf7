------------------------------- MODULE Kvstore -------------------------------
(* What the three engines share (kvstore.h). *)
EXTENDS Integers

CONSTANTS
    Values,     \* the values clients store
    NULL,
    Freed       \* what a pointer to freed memory points to

ASSUME ValuesAssumption == {NULL, Freed} \cap Values = {} /\ NULL # Freed

(* A call and the code, or the value, it returns. *)
Call(op, k, code) == [op |-> op, key |-> k, code |-> code]

(* C's % : the remainder has the sign of the dividend. *)
Rem(a, n) == IF a >= 0 THEN a % n ELSE -((-a) % n)

=============================================================================

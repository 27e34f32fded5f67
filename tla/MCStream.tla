------------------------------ MODULE MCStream ------------------------------
(* Constants of Stream for TLC: workbooks of up to three sheets. *)
EXTENDS Stream

Upto(n) == UNION {[1..k -> 0..n] : k \in 0..2} \cup [1..3 -> {0, 1, 3}]

SmallWorkbooks == Upto(5)
=============================================================================

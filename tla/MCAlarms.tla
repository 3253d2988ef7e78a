------------------------------ MODULE MCAlarms ------------------------------
(* A periodic and a longer alarm, for model checking Alarms. *)
EXTENDS Alarms

CONSTANTS a1, a2

TwoAlarms == {a1, a2}
Intervals == [a \in TwoAlarms |-> IF a = a2 THEN 2 ELSE 1]
=============================================================================

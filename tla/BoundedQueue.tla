---------------------------- MODULE BoundedQueue ----------------------------
(***************************************************************************)
(* What the users of esp32/util/fifo.c rely on: a first-in first-out queue *)
(* of at most Max elements whose operations fail, changing nothing, when   *)
(* it is full or empty.                                                    *)
(***************************************************************************)
EXTENDS Naturals, Sequences

CONSTANTS Values, NoValue, Max

VARIABLES
  queue,  \* the elements, oldest first
  out     \* what the last call returned: its result and the element it handed out

vars == <<queue, out>>

Returns(ok, v) == out' = [ok |-> ok, val |-> v]

Init == queue = <<>> /\ out = [ok |-> TRUE, val |-> NoValue]

Push(v) ==
  \/ Len(queue) < Max /\ queue' = Append(queue, v) /\ Returns(TRUE, NoValue)
  \/ Len(queue) = Max /\ UNCHANGED queue /\ Returns(FALSE, NoValue)

Pop ==
  \/ queue # <<>> /\ queue' = Tail(queue) /\ Returns(TRUE, Head(queue))
  \/ queue = <<>> /\ UNCHANGED queue /\ Returns(FALSE, NoValue)

Peek ==
  /\ \/ queue # <<>> /\ Returns(TRUE, Head(queue))
     \/ queue = <<>> /\ Returns(FALSE, NoValue)
  /\ UNCHANGED queue

Flush == queue' = <<>> /\ Returns(TRUE, NoValue)

Next == (\E v \in Values : Push(v)) \/ Pop \/ Peek \/ Flush

Spec == Init /\ [][Next]_vars
=============================================================================

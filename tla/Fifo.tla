-------------------------------- MODULE Fifo --------------------------------
(***************************************************************************)
(* The ring buffer of esp32/util/fifo.c with the element access of         *)
(* esp32/util/socketfifo.c, as the FTP server uses it for its replies.     *)
(* Positions are those of the code: 0 .. uiElementsMax - 1.                *)
(***************************************************************************)
EXTENDS Integers, Sequences

CONSTANTS
  Values,       \* the elements
  NoValue,      \* what an element array holds before anything is pushed
  ElementsMax   \* uiElementsMax

ASSUME FifoConstants == ElementsMax \in Nat \ {0} /\ NoValue \notin Values

VARIABLES
  elements,      \* pvElements
  uiFirst,       \* position of the oldest element
  uiLast,        \* position of the newest element
  uiElementCount,
  out            \* what the last call returned

fifoVars == <<elements, uiFirst, uiLast, uiElementCount, out>>

Positions == 0 .. ElementsMax - 1

IsEmpty == uiElementCount = 0
IsFullOneEarly == uiElementCount + 1 >= ElementsMax
IsFull == uiElementCount >= ElementsMax

\* ++ with the wrap at the end of the array
Step(i) == IF i + 1 = ElementsMax THEN 0 ELSE i + 1

Returns(ok, v) == out' = [ok |-> ok, val |-> v]

FifoInit ==
  /\ elements = [i \in Positions |-> NoValue]
  /\ uiFirst = 0
  /\ uiLast = ElementsMax - 1
  /\ uiElementCount = 0
  /\ out = [ok |-> TRUE, val |-> NoValue]

Push(v) ==
  \/ /\ IsFull
     /\ Returns(FALSE, NoValue)
     /\ UNCHANGED <<elements, uiFirst, uiLast, uiElementCount>>
  \/ /\ ~IsFull
     /\ uiElementCount' = uiElementCount + 1
     /\ uiLast' = Step(uiLast)
     /\ elements' = [elements EXCEPT ![uiLast'] = v]
     /\ Returns(TRUE, NoValue)
     /\ UNCHANGED uiFirst

Pop ==
  \/ /\ IsEmpty
     /\ Returns(FALSE, NoValue)
     /\ UNCHANGED <<elements, uiFirst, uiLast, uiElementCount>>
  \/ /\ ~IsEmpty
     /\ Returns(TRUE, elements[uiFirst])
     /\ uiElementCount' = uiElementCount - 1
     /\ uiFirst' = Step(uiFirst)
     /\ UNCHANGED <<elements, uiLast>>

Peek ==
  /\ \/ IsEmpty /\ Returns(FALSE, NoValue)
     \/ ~IsEmpty /\ Returns(TRUE, elements[uiFirst])
  /\ UNCHANGED <<elements, uiFirst, uiLast, uiElementCount>>

\* FIFO_Flush rewinds.
Flush ==
  /\ uiElementCount' = 0
  /\ uiFirst' = 0
  /\ uiLast' = ElementsMax - 1
  /\ Returns(TRUE, NoValue)
  /\ UNCHANGED elements

\* SOCKETFIFO_Flush pops until the queue is empty: both positions move on.
SocketFlush ==
  /\ uiElementCount' = 0
  /\ uiFirst' = Step(uiLast)
  /\ Returns(TRUE, NoValue)
  /\ UNCHANGED <<elements, uiLast>>

FifoNext == (\E v \in Values : Push(v)) \/ Pop \/ Peek \/ Flush \/ SocketFlush

FifoSpec == FifoInit /\ [][FifoNext]_fifoVars

-----------------------------------------------------------------------------
Outs == [ok : BOOLEAN, val : Values \cup {NoValue}]

\* Type invariant of FIFO_t: positions inside the array, at most ElementsMax elements.
FifoTypeOK ==
  /\ elements \in [Positions -> Values \cup {NoValue}]
  /\ uiFirst \in Positions
  /\ uiLast \in Positions
  /\ uiElementCount \in 0 .. ElementsMax
  /\ out \in Outs

\* The array position of the i-th oldest element.
At(i) == IF uiFirst + i - 1 < ElementsMax THEN uiFirst + i - 1
                                          ELSE uiFirst + i - 1 - ElementsMax

\* The two positions and the count, which FIFO_bPushElement and FIFO_bPopElement keep
\* apart, agree: uiLast is the position of the uiElementCount-th element, or the one
\* before uiFirst when there is none.  No pushed element is outside the window.
PositionsAgree ==
  /\ uiElementCount = 0 => Step(uiLast) = uiFirst
  /\ uiElementCount > 0 => uiLast = At(uiElementCount)
  /\ \A i \in 1 .. uiElementCount : elements[At(i)] \in Values

Content == [i \in 1 .. uiElementCount |-> elements[At(i)]]

Abstract == INSTANCE BoundedQueue WITH queue <- Content, Max <- ElementsMax

\* Every call returns what it would of a bounded first-in first-out queue, and fails
\* exactly when that queue is full or empty (fifo.c and its use through socketfifo.c).
ImplementsQueue == Abstract!Spec
=============================================================================

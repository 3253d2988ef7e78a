------------------------------- MODULE Alarms -------------------------------
(***************************************************************************)
(* Timer alarms and the interrupts task: esp32/mods/machtimer_alarm.c,      *)
(* esp32/util/mpirq.c and the soft reset of esp32/mptask.c.  One hardware   *)
(* timer serves an ordered list of alarms; its interrupt queues a callback  *)
(* for the interrupts task, which calls Python with the GIL held.  Python   *)
(* (any thread, or a callback) sets and cancels alarms in sections that     *)
(* mask the interrupt, so an expiry may be latched before such a section    *)
(* and served after it.  Times are relative to the hardware counter.        *)
(***************************************************************************)
EXTENDS Integers, Sequences

CONSTANTS
  Alarms,       \* Timer.Alarm objects
  Periodic,     \* those created with periodic=True
  Interval,     \* the interval of each, in ticks
  MaxAlarms,    \* ALARM_HEAP_MAX_ELEMENTS
  QueueLen      \* INTERRUPTS_QUEUE_LEN

ASSUME AlarmConstants ==
  /\ Periodic \subseteq Alarms
  /\ Interval \in [Alarms -> Nat \ {0}]
  /\ MaxAlarms \in Nat \ {0} /\ QueueLen \in Nat \ {0}

\* The mark that stands for no alarm is none.
ASSUME NoIsNoAlarm == "no" \notin Alarms

VARIABLES
  heap,     \* alarm_heap.data[0 .. count - 1]
  index,    \* heap_index of each alarm
  left,     \* when, minus the counter, of the alarms on the list
  handler,  \* handler: NULL, None or a function
  irqs,     \* the alarms registered in mp_irq_obj_list
  timer,    \* alarm_en, and then the compare value minus the counter; raw interrupt and its enable
  queue,    \* InterruptsQueue
  task,     \* the interrupts task: <<"wait">>, <<"got", e>>, <<"call", a>>, <<"exit">> or <<"dead">>
  op,       \* the alarm whose callback is being set, or "no": its thread holds the GIL
  main,     \* the MicroPython task: run, or how far the soft reset is
  refused   \* history: alarms whose last callback() found the list full

vars == <<heap, index, left, handler, irqs, timer, queue, task, op, main, refused>>

Init ==
  /\ heap = <<>>
  /\ index = [a \in Alarms |-> -1]
  /\ left = [a \in Alarms |-> 0]
  /\ handler = [a \in Alarms |-> "NULL"]
  /\ irqs = {}
  /\ timer = [en |-> FALSE, at |-> 0, raised |-> FALSE, enabled |-> TRUE]
  /\ queue = <<>>
  /\ task = <<"wait">>
  /\ op = "no"
  /\ main = "run"
  /\ refused = {}

-----------------------------------------------------------------------------
\* The list.  lst bundles what these functions change: heap, index and timer.
List == [heap |-> heap, index |-> index, timer |-> timer]

load_next_alarm_once(lst, lft) == lst

load_next_alarm(lst, lft) ==
  [lst EXCEPT !.timer = [@ EXCEPT !.en = lst.heap # <<>>,
                                  !.at = IF lst.heap = <<>> THEN 0 ELSE lft[Head(lst.heap)]]]

MovedNotIndexed(lst, from) ==
  IF from > Len(lst.heap) THEN lst ELSE [lst EXCEPT !.index[lst.heap[from]] = from - 1]

\* The loops that move the alarms behind a place store the new places in them.
Moved(lst, from) ==
  [lst EXCEPT !.index = [a \in Alarms |->
     IF \E i \in from .. Len(lst.heap) : lst.heap[i] = a
       THEN (CHOOSE i \in from .. Len(lst.heap) : lst.heap[i] = a) - 1
       ELSE lst.index[a]]]

\* data[] with an alarm more, or without the one at a place.
InsertedAt(hp, i, a) == SubSeq(hp, 1, i - 1) \o <<a>> \o SubSeq(hp, i, Len(hp))
RemovedAt(hp, i) == SubSeq(hp, 1, i - 1) \o SubSeq(hp, i + 1, Len(hp))

\* Before the first alarm that is not earlier.
Place(hp, lft, a) ==
  CHOOSE i \in 1 .. Len(hp) + 1 :
    /\ \A j \in 1 .. i - 1 : lft[a] > lft[hp[j]]
    /\ i <= Len(hp) => lft[a] <= lft[hp[i]]

insert_alarm(lst, lft, a) ==
  LET i == Place(lst.heap, lft, a)
      inserted == Moved([lst EXCEPT !.heap = InsertedAt(@, i, a)], i)
  IN  IF i = 1 THEN load_next_alarm(inserted, lft) ELSE inserted

\* The index is that of the array: 0 is the alarm the timer is set to.
remove_alarm(lst, lft, i) ==
  LET removed == Moved([lst EXCEPT !.index = [@ EXCEPT ![lst.heap[i + 1]] = -1],
                                   !.heap = RemovedAt(@, i + 1)], i + 1)
  IN  IF i = 0 THEN load_next_alarm(removed, lft) ELSE removed

Become(lst) == heap' = lst.heap /\ index' = lst.index /\ timer' = lst.timer

\* xQueueSend and xQueueSendFromISR: the element is dropped when the queue is full.
Queued(e) == IF Len(queue) < QueueLen THEN Append(queue, e) ELSE queue

-----------------------------------------------------------------------------
\* The hardware: when the counter reaches the compare value, the interrupt is raised
\* and the alarm disables itself.
Expire ==
  /\ timer.en /\ timer.at <= 0
  /\ timer' = [timer EXCEPT !.en = FALSE, !.at = 0, !.raised = TRUE]
  /\ UNCHANGED <<heap, index, left, handler, irqs, queue, task, op, main, refused>>

MaxLate == 1    \* bound: ticks counted once an alarm is overdue (never reached)

\* A tick is longer than it takes to raise and to serve an interrupt.
Tick ==
  /\ timer.enabled /\ ~timer.raised /\ ~(timer.en /\ timer.at <= 0)
  /\ \E a \in Alarms : index[a] # -1
  /\ \A a \in Alarms : left[a] > -MaxLate
  /\ left' = [a \in Alarms |-> IF index[a] # -1 THEN left[a] - 1 ELSE left[a]]
  /\ timer' = [timer EXCEPT !.at = IF timer.en THEN @ - 1 ELSE @]
  /\ UNCHANGED <<heap, index, handler, irqs, queue, task, op, main, refused>>

timer_alarm_isr ==
  /\ timer.raised /\ timer.enabled
  /\ LET acknowledged == [List EXCEPT !.timer = [@ EXCEPT !.raised = FALSE]] IN
     \/ /\ heap = <<>>
        /\ Become(acknowledged)
        /\ UNCHANGED <<left, queue>>
     \/ /\ heap # <<>>
        /\ LET a == heap[1]
               removed == remove_alarm(acknowledged, left, 0)
           IN  /\ left' = [left EXCEPT ![a] = IF a \in Periodic THEN Interval[a] ELSE 0]
               /\ Become(IF a \in Periodic THEN insert_alarm(removed, left', a) ELSE removed)
               /\ queue' = Queued(a)
  /\ UNCHANGED <<handler, irqs, task, op, main, refused>>

\* Every other interrupt with a callback, of a pin or a radio.
OtherInterrupt ==
  /\ queue' = Queued("other")
  /\ queue' # queue
  /\ UNCHANGED <<heap, index, left, handler, irqs, timer, task, op, main, refused>>

-----------------------------------------------------------------------------
\* Python, in any thread that has the GIL.
Python == op = "no" /\ main \in {"run", "deinit", "killing"}

\* alarm_set_callback_helper (callback(), and the constructor), outside its section ...
SetHandler(a, h) ==
  /\ Python
  /\ handler' = [handler EXCEPT ![a] = h]
  /\ op' = a
  /\ refused' = refused \ {a}
  /\ UNCHANGED <<heap, index, left, irqs, timer, queue, task, main>>

\* ... and inside.  An alarm on the list is taken off, and its handler cleared.  (From
\* here on None and NULL are treated alike.)
set_callback_inside ==
  /\ op # "no"
  /\ LET a == op
         active == index[a] # -1
         off == IF active THEN remove_alarm(List, left, index[a]) ELSE List
         unregistered == IF active THEN irqs \ {a} ELSE irqs
         h == IF active THEN "NULL" ELSE handler[a]
         arms == Len(off.heap) < MaxAlarms /\ h # "None"
     IN  /\ handler' = [handler EXCEPT ![a] = IF h = "None" THEN "NULL" ELSE h]
         /\ irqs' = IF arms THEN unregistered \cup {a} ELSE unregistered
         /\ left' = [left EXCEPT ![a] = IF arms THEN Interval[a] ELSE 0]
         /\ Become(IF arms THEN insert_alarm(off, left', a) ELSE off)
         /\ refused' = IF Len(off.heap) < MaxAlarms THEN refused ELSE refused \cup {a}
  /\ op' = "no"
  /\ UNCHANGED <<queue, task, main>>

alarm_delete_keeps_handler(a) ==
  /\ Python
  /\ Become(IF index[a] # -1 THEN remove_alarm(List, left, index[a]) ELSE List)
  /\ irqs' = irqs \ {a}
  /\ left' = [left EXCEPT ![a] = 0]
  /\ UNCHANGED <<handler, queue, task, op, main, refused>>

\* cancel()
alarm_delete(a) ==
  /\ Python
  /\ Become(IF index[a] # -1 THEN remove_alarm(List, left, index[a]) ELSE List)
  /\ irqs' = irqs \ {a}
  /\ handler' = [handler EXCEPT ![a] = "NULL"]
  /\ left' = [left EXCEPT ![a] = 0]
  /\ refused' = refused \ {a}
  /\ UNCHANGED <<queue, task, op, main>>

-----------------------------------------------------------------------------
ReceiveIgnoringNull ==
  /\ task = <<"wait">> /\ queue # <<>>
  /\ queue' = Tail(queue)
  /\ task' = IF Head(queue) = "NULL" THEN task ELSE <<"got", Head(queue)>>
  /\ UNCHANGED <<heap, index, left, handler, irqs, timer, op, main, refused>>

ReceiveNewest ==
  /\ task = <<"wait">> /\ queue # <<>>
  /\ queue' = SubSeq(queue, 1, Len(queue) - 1)
  /\ task' = IF queue[Len(queue)] = "NULL" THEN <<"exit">> ELSE <<"got", queue[Len(queue)]>>
  /\ UNCHANGED <<heap, index, left, handler, irqs, timer, op, main, refused>>

\* TASK_Interrupts.
Receive ==
  /\ task = <<"wait">> /\ queue # <<>>
  /\ queue' = Tail(queue)
  /\ task' = IF Head(queue) = "NULL" THEN <<"exit">> ELSE <<"got", Head(queue)>>
  /\ UNCHANGED <<heap, index, left, handler, irqs, timer, op, main, refused>>

Handling(a) == task \in {<<"got", a>>, <<"call", a>>} /\ op = "no"

\* The end of alarm_handler.
HandlerReturns(a) ==
  /\ task' = <<"wait">>
  /\ irqs' = IF a \in Periodic THEN irqs ELSE irqs \ {a}
  /\ handler' = IF a \in Periodic THEN handler ELSE [handler EXCEPT ![a] = "NULL"]

Call(a) ==
  /\ Handling(a) /\ task[1] = "got"
  /\ \/ /\ handler[a] = "fun"
        /\ task' = <<"call", a>>
        /\ UNCHANGED <<handler, irqs>>
     \/ /\ handler[a] # "fun"
        /\ HandlerReturns(a)
  /\ UNCHANGED <<heap, index, left, timer, queue, op, main, refused>>

\* The callback returns, or raises: SystemExit, or what kills the interrupts task.
CallReturns(a) ==
  /\ Handling(a) /\ task[1] = "call"
  /\ HandlerReturns(a)
  /\ UNCHANGED <<heap, index, left, timer, queue, op, main, refused>>

CallRaises(a) ==
  /\ Handling(a) /\ task[1] = "call"
  /\ task' \in {<<"wait">>, <<"exit">>}
  /\ UNCHANGED <<heap, index, left, handler, irqs, timer, queue, op, main, refused>>

OtherHandled ==
  /\ task = <<"got", "other">> /\ op = "no"
  /\ task' \in {<<"wait">>, <<"exit">>}
  /\ UNCHANGED <<heap, index, left, handler, irqs, timer, queue, op, main, refused>>

\* Behind the loop: mp_thread_finish with the GIL, then mp_irq_is_alive = false.
Exit ==
  /\ task = <<"exit">> /\ op = "no"
  /\ task' = <<"dead">>
  /\ UNCHANGED <<heap, index, left, handler, irqs, timer, queue, op, main, refused>>

-----------------------------------------------------------------------------
\* Soft reset in the MicroPython task: machtimer_deinit, mp_irq_kill, mp_thread_deinit,
\* then mp_irq_init0 and machtimer_init0 with a new Python heap.
machtimer_deinit ==
  /\ main = "run" /\ op = "no"
  /\ timer' = [timer EXCEPT !.enabled = FALSE]
  /\ main' = "deinit"
  /\ UNCHANGED <<heap, index, left, handler, irqs, queue, task, op, refused>>

mp_irq_kill ==
  /\ main = "deinit" /\ op = "no"
  /\ queue' = Queued("NULL")
  /\ main' = "killing"
  /\ UNCHANGED <<heap, index, left, handler, irqs, timer, task, op, refused>>

\* while (mp_irq_is_alive)
Killed ==
  /\ main = "killing" /\ op = "no" /\ task = <<"dead">>
  /\ queue' = <<>>
  /\ main' = "dead"
  /\ UNCHANGED <<heap, index, left, handler, irqs, timer, task, op, refused>>

mp_irq_init0 ==
  /\ main = "dead"
  /\ irqs' = {} /\ queue' = <<>> /\ task' = <<"wait">>
  /\ handler' = [a \in Alarms |-> "NULL"]
  /\ main' = "init"
  /\ refused' = {}
  /\ UNCHANGED <<heap, index, left, timer, op>>

machtimer_init0 ==
  /\ main = "init"
  /\ heap' = <<>> /\ index' = [a \in Alarms |-> -1] /\ left' = [a \in Alarms |-> 0]
  /\ timer' = [timer EXCEPT !.enabled = TRUE]
  /\ main' = "run"
  /\ UNCHANGED <<handler, irqs, queue, task, op, refused>>

-----------------------------------------------------------------------------
Hardware == Expire \/ Tick \/ timer_alarm_isr
InterruptsTask ==
  \/ Receive \/ OtherHandled \/ Exit
  \/ \E a \in Alarms : Call(a) \/ CallReturns(a) \/ CallRaises(a)
SoftReset == mp_irq_kill \/ Killed \/ mp_irq_init0 \/ machtimer_init0
PythonCalls == \E a \in Alarms : alarm_delete(a) \/ \E h \in {"None", "fun"} : SetHandler(a, h)

Next ==
  \/ Hardware \/ OtherInterrupt \/ InterruptsTask
  \/ PythonCalls \/ set_callback_inside
  \/ machtimer_deinit \/ SoftReset

Spec == Init /\ [][Next]_vars

\* The steps of timer_alarm_isr and of set_callback_inside, by what they do to one variable.
Served ==
  /\ timer.raised /\ timer.enabled
  /\ timer' \in {[timer EXCEPT !.raised = FALSE, !.en = e, !.at = t] :
                   e \in BOOLEAN, t \in {0} \cup {left[a] : a \in Alarms} \cup {Interval[a] : a \in Alarms}}
Finished == op # "no" /\ op' = "no"

\* The counter runs, the interrupt is served once it is unmasked; FreeRTOS schedules the
\* interrupts task, whose priority is the highest, and callbacks return; the section of a
\* call and a soft reset that has begun go on.
FairSpec ==
  /\ Spec
  /\ WF_vars(Expire) /\ WF_vars(Tick) /\ WF_timer(Served) /\ WF_op(Finished)
  /\ SF_vars(InterruptsTask) /\ SF_vars(SoftReset)

-----------------------------------------------------------------------------
\* The list stays ordered, holds no alarm twice, and each alarm's heap_index is its place:
\* the interrupt and Python both rearrange it, and remove_alarm trusts the index.
HeapConsistent ==
  /\ \A i \in 1 .. Len(heap) : index[heap[i]] = i - 1
  /\ \A a \in Alarms : index[a] # -1 => index[a] < Len(heap) /\ heap[index[a] + 1] = a
  /\ \A i, j \in 1 .. Len(heap) : i <= j => left[heap[i]] <= left[heap[j]]

\* The one timer is always set for the first alarm of the list, or its interrupt is
\* raised, after any mixture of interrupts, callback() and cancel() and after a soft reset.
TimerServesFirst ==
  heap # <<>> /\ main = "run" => timer.raised \/ (timer.en /\ timer.at = left[heap[1]])

\* machtimer_alarm.c:106-109, on remove_alarm: the alarm is disabled first so that an
\* interrupt of the removed alarm "should not be performed at all".  So an interrupt that
\* is raised and finds an alarm on the list finds the one that has expired.
NotEarly == timer.raised /\ heap # <<>> => left[heap[1]] <= 0

Waiting(a) == task = <<"got", a>> \/ \E i \in 1 .. Len(queue) : queue[i] = a

\* A queued alarm is reached by the garbage collector through mp_irq_obj_list only; one
\* whose callback is still to be called is registered there, so neither it nor the
\* callback is collected before the interrupts task gets to it.  (A callback() refused for
\* want of room leaves a handler that is not registered.)
QueuedIsRooted == \A a \in Alarms \ refused : Waiting(a) /\ handler[a] = "fun" /\ op # a => a \in irqs

\* mp_irq_kill ends once its NULL is in the queue: the interrupts task empties the queue
\* up to it, whatever else is queued and whoever holds the GIL.
KillEnds == (main = "killing" /\ \E i \in 1 .. Len(queue) : queue[i] = "NULL") ~> main = "dead"

\* An alarm that has fired and was queued is called, unless it is cancelled or set anew
\* or the interrupts task dies first.
FiredIsCalled ==
  \A a \in Alarms : Waiting(a) ~> (task = <<"call", a>> \/ handler[a] # "fun" \/ op = a \/ task = <<"dead">>)

\* An alarm on the list fires, unless Python removes it or a soft reset begins: alarms set
\* and cancelled around it do not hold the timer back.
ArmedFires ==
  \A a \in Alarms : index[a] # -1 ~> (index[a] = -1 \/ Waiting(a) \/ op = a \/ main # "run" \/ Len(queue) = QueueLen)
=============================================================================

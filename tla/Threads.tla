------------------------------ MODULE Threads ------------------------------
(***************************************************************************)
(* The threads of esp32/mpthreadport.c and py/modthread.c, from creation to *)
(* the release of their memory, with the interrupts task of                *)
(* esp32/util/mpirq.c that deletes them and the soft reset of              *)
(* esp32/mptask.c that ends them all.  They share the GIL, the list of     *)
(* threads and its mutex, and the one variable that hands a new task its   *)
(* function.  All tasks are pinned to one core: the interrupts task, of    *)
(* priority 11, runs before the others, of priority 5, and the idle task   *)
(* when they block.  A section that holds thread_mutex and does not create *)
(* a task is one step.                                                     *)
(***************************************************************************)
EXTENDS Sequences, FiniteSets, Naturals

CONSTANTS
  Threads,      \* addresses of the threads' control blocks: the handles of their tasks
  QueueLen,     \* INTERRUPTS_QUEUE_LEN
  NodeReused    \* mp_thread_deinit reads the next pointer of a node it has freed: whether
                \* another task may have been given that memory in between

ASSUME ThreadConstants ==
  /\ "main" \notin Threads /\ "irq" \notin Threads /\ "no" \notin Threads
  /\ "NULL" \notin Threads /\ "callback" \notin Threads
  /\ QueueLen \in Nat \ {0} /\ NodeReused \in BOOLEAN

Tasks == Threads \cup {"main", "irq"}

VARIABLES
  pc,       \* where each task is; "none": no such task, "dead": deleted itself and not yet freed
  nodes,    \* the tasks on the list "thread"
  ready,    \* those whose node has ready set
  lock,     \* the holder of thread_mutex, or "no"
  gil,      \* the holder of the GIL, or "no"
  entry,    \* ext_thread_entry
  making,   \* the task that the holder of thread_mutex has created and not yet linked
  queue,    \* InterruptsQueue: a callback, NULL, or the task to delete
  got,      \* what the interrupts task has taken from it
  alive,    \* mp_irq_is_alive
  walk      \* the nodes mp_thread_deinit has not visited

vars == <<pc, nodes, ready, lock, gil, entry, making, queue, got, alive, walk>>

AtBoot == [t \in Tasks |-> IF t = "main" THEN "init" ELSE "none"]

\* mp_thread_preinit and mp_irq_preinit.
Init ==
  /\ pc = AtBoot
  /\ nodes = {"main"} /\ ready = {"main"}
  /\ lock = "no" /\ gil = "no"
  /\ entry = "NULL" /\ making = "no"
  /\ queue = <<>> /\ got = "no" /\ alive = FALSE
  /\ walk = {}

-----------------------------------------------------------------------------
\* Scheduling.  A task at "py" runs Python, and may wait or sleep there.
IrqReadyNever == FALSE

IrqReady ==
  \/ pc["irq"] \in {"new", "link"}
  \/ pc["irq"] \in {"start", "got", "finish"} /\ gil = "no" /\ lock = "no"
  \/ pc["irq"] = "wait" /\ queue # <<>>

Runs(t) == t = "irq" \/ ~IrqReady

Blocked(t) ==
  \/ pc[t] \in {"none", "dead", "py", "killing"}
  \/ pc[t] = "start" /\ (gil # "no" \/ lock # "no")
  \/ pc[t] = "lock" /\ lock # "no"

IdleRuns == ~IrqReady /\ \A t \in Tasks \ {"irq"} : Blocked(t)

\* Python executes in a task that holds the GIL.
Python(t) == pc[t] = "py" /\ gil = t /\ Runs(t)

Queued(e) == IF Len(queue) < QueueLen THEN Append(queue, e) ELSE queue

-----------------------------------------------------------------------------
\* MP_THREAD_GIL_EXIT and MP_THREAD_GIL_ENTER in the interpreter and around waits.
GilExit(t) ==
  /\ Python(t)
  /\ gil' = "no"
  /\ UNCHANGED <<pc, nodes, ready, lock, entry, making, queue, got, alive, walk>>

GilEnter(t) ==
  /\ pc[t] = "py" /\ gil = "no" /\ Runs(t)
  /\ gil' = t
  /\ UNCHANGED <<pc, nodes, ready, lock, entry, making, queue, got, alive, walk>>

EntryOf(t) == IF t = "irq" THEN "TASK_Interrupts" ELSE "thread_entry"

CreateUnlocked(t, n) ==
  /\ pc[n] = "none" /\ lock = "no"
  /\ entry' = EntryOf(n)
  /\ making' = n
  /\ pc' = [pc EXCEPT ![t] = "link", ![n] = "new"]
  /\ UNCHANGED lock

\* mp_thread_create_ex up to the creation of the task, by t.
Create(t, n) ==
  /\ pc[n] = "none" /\ lock = "no"
  /\ entry' = EntryOf(n)
  /\ lock' = t /\ making' = n
  /\ pc' = [pc EXCEPT ![t] = "link", ![n] = "new"]

\* _thread.start_new_thread()
start_new_thread(t, n) ==
  /\ Python(t)
  /\ Create(t, n)
  /\ UNCHANGED <<nodes, ready, gil, queue, got, alive, walk>>

\* ... that fails: no memory, or no task.
CreateFails(t) ==
  /\ Python(t)
  /\ entry' = "thread_entry"
  /\ UNCHANGED <<pc, nodes, ready, lock, gil, making, queue, got, alive, walk>>

\* The rest of mp_thread_create_ex.
Link(t) ==
  /\ pc[t] = "link" /\ Runs(t)
  /\ nodes' = nodes \cup {making}
  /\ lock' = "no" /\ making' = "no"
  /\ pc' = [pc EXCEPT ![t] = "py"]
  /\ UNCHANGED <<ready, gil, entry, queue, got, alive, walk>>

-----------------------------------------------------------------------------
\* freertos_entry: the task reads the function it is to run.
freertos_entry(t) ==
  /\ pc[t] = "new" /\ Runs(t)
  /\ pc' = [pc EXCEPT ![t] = IF entry = EntryOf(t) THEN "start" ELSE "wrong"]
  /\ UNCHANGED <<nodes, ready, lock, gil, entry, making, queue, got, alive, walk>>

\* MP_THREAD_GIL_ENTER and mp_thread_start: of a thread, and of the interrupts task.
mp_thread_start(t) ==
  /\ gil = "no" /\ lock = "no" /\ pc[t] = "start" /\ Runs(t)
  /\ ready' = IF t \in nodes THEN ready \cup {t} ELSE ready
  /\ gil' = IF t = "irq" THEN "no" ELSE t
  /\ pc' = [pc EXCEPT ![t] = IF t = "irq" THEN "wait" ELSE "py"]
  /\ UNCHANGED <<nodes, lock, entry, making, queue, got, alive, walk>>

\* The function of a thread returns or raises: mp_thread_finish, MP_THREAD_GIL_EXIT.
mp_thread_finish(t) ==
  /\ Python(t) /\ t \in Threads /\ lock = "no"
  /\ ready' = ready \ {t}
  /\ gil' = "no"
  /\ pc' = [pc EXCEPT ![t] = "done"]
  /\ UNCHANGED <<nodes, lock, entry, making, queue, got, alive, walk>>

\* mp_irq_queue_interrupt_immediate_thread_delete: look whether the interrupts task is
\* alive, and then queue the deletion; a full queue drops it.
CheckAlive(t) ==
  /\ pc[t] = "done" /\ Runs(t)
  /\ pc' = [pc EXCEPT ![t] = IF alive THEN "send" ELSE "last"]
  /\ UNCHANGED <<nodes, ready, lock, gil, entry, making, queue, got, alive, walk>>

immediate_thread_delete(t) ==
  /\ pc[t] = "send" /\ Runs(t)
  /\ queue' = Queued(t)
  /\ pc' = [pc EXCEPT ![t] = "last"]
  /\ UNCHANGED <<nodes, ready, lock, gil, entry, making, got, alive, walk>>

\* vTaskDelete(NULL)
DeleteSelf(t) ==
  /\ pc[t] = "last" /\ Runs(t)
  /\ pc' = [pc EXCEPT ![t] = "dead"]
  /\ UNCHANGED <<nodes, ready, lock, gil, entry, making, queue, got, alive, walk>>

-----------------------------------------------------------------------------
\* It takes thread_mutex unless during_soft_reset, which is set in mp_thread_deinit's loop.
vPortCleanUpTCB(t) ==
  /\ pc["main"] = "walk" \/ lock = "no"
  /\ nodes' = nodes \ {t} /\ ready' = ready \ {t}

\* vTaskDelete of another task, which frees it.
vTaskDelete(t) ==
  /\ vPortCleanUpTCB(t)
  /\ pc' = [pc EXCEPT ![t] = "none"]

\* The idle task frees the tasks that deleted themselves.
Idle(t) ==
  /\ IdleRuns /\ pc[t] = "dead"
  /\ vTaskDelete(t)
  /\ UNCHANGED <<lock, gil, entry, making, queue, got, alive, walk>>

\* A callback of a pin, a timer or a radio.
Interrupt ==
  /\ Len(queue) < QueueLen
  /\ queue' = Append(queue, "callback")
  /\ UNCHANGED <<pc, nodes, ready, lock, gil, entry, making, got, alive, walk>>

\* TASK_Interrupts.
Receive ==
  /\ pc["irq"] = "wait" /\ queue # <<>>
  /\ queue' = Tail(queue)
  /\ got' = Head(queue)
  /\ pc' = [pc EXCEPT !["irq"] = IF Head(queue) = "NULL" THEN "finish" ELSE "got"]
  /\ UNCHANGED <<nodes, ready, lock, gil, entry, making, alive, walk>>

Call ==
  /\ pc["irq"] = "got" /\ got = "callback" /\ gil = "no"
  /\ gil' = "irq"
  /\ pc' = [pc EXCEPT !["irq"] = "py"]
  /\ UNCHANGED <<nodes, ready, lock, entry, making, queue, got, alive, walk>>

\* A callback returns, or raises what ends the interrupts task.
CallReturns ==
  /\ Python("irq")
  /\ gil' = "no" /\ got' = "no"
  /\ \E next \in {"wait", "finish"} : pc' = [pc EXCEPT !["irq"] = next]
  /\ UNCHANGED <<nodes, ready, lock, entry, making, queue, alive, walk>>

DeleteLeftToIdle ==
  /\ pc["irq"] = "got" /\ got \in Threads /\ pc[got] # "none" /\ gil = "no"
  /\ pc' = [pc EXCEPT !["irq"] = "wait", ![got] = "dead"]
  /\ got' = "no"
  /\ UNCHANGED <<nodes, ready, lock, gil, entry, making, queue, alive, walk>>

\* The deletion of a thread, with the GIL held until it is done.
DeleteThread ==
  /\ pc["irq"] = "got" /\ got \in Threads /\ pc[got] # "none" /\ gil = "no"
  /\ vPortCleanUpTCB(got)
  /\ pc' = [pc EXCEPT !["irq"] = "wait", ![got] = "none"]
  /\ got' = "no"
  /\ UNCHANGED <<lock, gil, entry, making, queue, alive, walk>>

Restart ==
  /\ pc' = AtBoot
  /\ nodes' = {"main"} /\ ready' = {"main"}
  /\ lock' = "no" /\ gil' = "no"
  /\ entry' = "NULL" /\ making' = "no"
  /\ queue' = <<>> /\ got' = "no" /\ alive' = FALSE
  /\ walk' = {}

\* The deletion of a task that has been freed: undefined.  Nothing more comes of it, or
\* the processor faults and restarts.
DeleteFreed ==
  /\ pc["irq"] = "got" /\ got \in Threads /\ pc[got] = "none" /\ gil = "no" /\ lock = "no"
  /\ \/ /\ pc' = [pc EXCEPT !["irq"] = "wait"]
        /\ got' = "no"
        /\ UNCHANGED <<nodes, ready, lock, gil, entry, making, queue, alive, walk>>
     \/ Restart

\* The end of TASK_Interrupts, of freertos_entry after it, and its own vTaskDelete(NULL).
IrqEnds ==
  /\ pc["irq"] = "finish" /\ gil = "no" /\ lock = "no"
  /\ ready' = ready \ {"irq"}
  /\ alive' = FALSE /\ got' = "no"
  /\ pc' = [pc EXCEPT !["irq"] = "dead"]
  /\ UNCHANGED <<nodes, lock, gil, entry, making, queue, walk>>

-----------------------------------------------------------------------------
\* The MicroPython task: mp_init (a new GIL, entered) and mp_irq_init0 ...
mp_irq_init0 ==
  /\ pc["main"] = "init"
  /\ gil' = "main"
  /\ alive' = TRUE /\ queue' = <<>>
  /\ Create("main", "irq")
  /\ UNCHANGED <<nodes, ready, got, walk>>

\* ... and the soft reset: mp_irq_kill, which lets the GIL go for good,
mp_irq_kill ==
  /\ Python("main")
  /\ queue' = Queued("NULL")
  /\ gil' = "no"
  /\ pc' = [pc EXCEPT !["main"] = "killing"]
  /\ UNCHANGED <<nodes, ready, lock, entry, making, got, alive, walk>>

Killed ==
  /\ pc["main"] = "killing" /\ ~alive /\ Runs("main")
  /\ queue' = <<>>
  /\ pc' = [pc EXCEPT !["main"] = "lock"]
  /\ UNCHANGED <<nodes, ready, lock, gil, entry, making, got, alive, walk>>

DeinitUnlocked ==
  /\ pc["main"] = "lock" /\ lock = "no" /\ Runs("main")
  /\ walk' = nodes
  /\ pc' = [pc EXCEPT !["main"] = "walk"]
  /\ UNCHANGED <<nodes, ready, lock, gil, entry, making, queue, got, alive>>

\* and mp_thread_deinit.
mp_thread_deinit ==
  /\ pc["main"] = "lock" /\ lock = "no" /\ Runs("main")
  /\ lock' = "main"
  /\ walk' = nodes
  /\ pc' = [pc EXCEPT !["main"] = "walk"]
  /\ UNCHANGED <<nodes, ready, gil, entry, making, queue, got, alive>>

FollowingFirst(t) == {walk}

\* What the next pointer of a freed node leads to.
Following(t) == {walk \ {t}} \cup (IF NodeReused THEN {{}} ELSE {})

DeinitDeletes(t) ==
  /\ pc["main"] = "walk" /\ t \in walk \ {"main"}
  /\ vTaskDelete(t)
  /\ walk' \in Following(t)
  /\ UNCHANGED <<lock, gil, entry, making, queue, got, alive>>

DeinitDone ==
  /\ pc["main"] = "walk" /\ walk \subseteq {"main"}
  /\ lock' = "no"
  /\ walk' = {}
  /\ pc' = [pc EXCEPT !["main"] = "init"]
  /\ UNCHANGED <<nodes, ready, gil, entry, making, queue, got, alive>>

-----------------------------------------------------------------------------
Irq ==
  \/ freertos_entry("irq") \/ mp_thread_start("irq") \/ Link("irq")
  \/ Receive \/ Call \/ CallReturns \/ DeleteThread \/ DeleteFreed \/ IrqEnds

Main == mp_irq_init0 \/ Link("main") \/ Killed \/ mp_thread_deinit \/ DeinitDone
          \/ \E t \in Tasks : DeinitDeletes(t)

Thread(t) ==
  \/ freertos_entry(t) \/ mp_thread_start(t) \/ Link(t)
  \/ CheckAlive(t) \/ immediate_thread_delete(t) \/ DeleteSelf(t)

Next ==
  \/ Irq \/ Main \/ mp_irq_kill \/ Interrupt
  \/ \E t \in Threads : Thread(t) \/ mp_thread_finish(t)
  \/ \E t \in Tasks : GilExit(t) \/ GilEnter(t) \/ CreateFails(t) \/ Idle(t)
  \/ \E t \in Tasks, n \in Threads : start_new_thread(t, n)

Spec == Init /\ [][Next]_vars

\* FreeRTOS runs every task that stays ready, interrupts leave time for Python, the
\* interpreter lets the GIL go every few bytecodes and callbacks return.  Nothing is
\* assumed of the idle task.
FairSpec ==
  /\ Spec
  /\ WF_vars(Irq) /\ SF_vars(GilEnter("irq")) /\ SF_vars(CallReturns) /\ SF_vars(Main)
  /\ \A t \in Threads : SF_vars(Thread(t))
  /\ \A t \in Tasks : SF_vars(GilExit(t))

-----------------------------------------------------------------------------
Places == {"none", "new", "start", "py", "link", "done", "send", "last", "dead",
           "wait", "got", "finish", "init", "killing", "lock", "walk", "wrong"}

\* Whenever the collector can walk the list (mp_thread_gc_others takes thread_mutex), it
\* finds the arguments of every task that has yet to run its function and the stack of
\* every task that is running Python, and no node that has been freed.
RootsComplete ==
  lock = "no" =>
    /\ \A t \in Tasks : pc[t] \in {"new", "start"} => t \in nodes
    /\ \A t \in Tasks : pc[t] \in {"py", "killing"} => t \in nodes \cap ready
    /\ \A t \in nodes : pc[t] # "none"

\* Every task runs the function it was created with, though the function is handed over
\* in one global variable that mp_thread_create_ex overwrites without a lock.
EntryKept == \A t \in Tasks : pc[t] # "wrong"

\* When a soft reset starts the interpreter again, on a heap wiped by gc_init, no thread
\* and no interrupts task of the previous run is left, whatever each was doing when
\* mp_irq_kill and mp_thread_deinit ended it, and no node is.
ResetClean ==
  pc["main"] = "init" => nodes = {"main"} /\ \A t \in Tasks \ {"main"} : pc[t] = "none"

\* The invariant behind them.  The list holds the tasks that exist but for the one being
\* created, which cannot pass mp_thread_start before it is linked.  Unless the memory of a
\* freed node was reused, a task that has not read its function finds it in
\* ext_thread_entry, and mp_thread_deinit has still to visit whatever is left.
ThreadInv ==
  /\ pc \in [Tasks -> Places]
  /\ pc["main"] \in {"init", "link", "py", "killing", "lock", "walk"}
  /\ pc["irq"] \in {"none", "new", "start", "wait", "got", "py", "link", "finish", "dead", "wrong"}
  /\ \A t \in Threads :
       pc[t] \in {"none", "new", "start", "py", "link", "done", "send", "last", "dead", "wrong"}
  /\ \A t \in Tasks : pc[t] = "link" => lock = t /\ making # "no"
  /\ pc["main"] = "walk" => lock = "main" /\ making = "no"
  /\ lock = "no" => making = "no"
  /\ making # "no" => making \in Tasks /\ pc[making] \in {"new", "start", "wrong"}
  /\ nodes = {t \in Tasks : pc[t] # "none" /\ t # making}
  /\ "main" \in ready
  /\ \A t \in Tasks : pc[t] \in {"py", "link", "wait", "got", "finish"} => t \in ready
  /\ ~NodeReused =>
       /\ \A t \in Tasks : pc[t] # "wrong"
       /\ pc["irq"] = "new" => entry = "TASK_Interrupts"
       /\ \A t \in Threads : pc[t] = "new" => entry = "thread_entry"
       /\ pc["main"] = "walk" => nodes \subseteq walk \cup {"main"}
       /\ pc["main"] = "init" => making = "no" /\ \A t \in Tasks \ {"main"} : pc[t] = "none"

\* A deletion that a finished thread has queued is carried out without the help of the
\* idle task, unless the interrupts task ends first: memory does not run out because
\* higher priority tasks keep the processor busy.
QueuedDeleteDone ==
  \A t \in Threads : (\E i \in 1 .. Len(queue) : queue[i] = t) ~> (pc[t] = "none" \/ ~alive)

\* Once the interrupts task has ended, mp_thread_deinit and mp_irq_init0 complete, though
\* the tasks they delete may wait for or hold what they need.
ResetEnds == (pc["main"] \in {"lock", "walk"}) ~> (pc["main"] = "py")
=============================================================================

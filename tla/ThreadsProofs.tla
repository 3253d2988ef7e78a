--------------------------- MODULE ThreadsProofs ---------------------------
(***************************************************************************)
(* ThreadInv is an invariant for any number of threads and any length of   *)
(* the interrupts queue.  Half of it is conditional: the memory of a node   *)
(* that mp_thread_deinit frees is not reused before it reads its next       *)
(* pointer.                                                                *)
(***************************************************************************)
EXTENDS Threads, TLAPS

\* The initial states of the system, and a restart after a fault.
LEMMA InitInv == Init => ThreadInv
  BY ThreadConstants DEF Init, ThreadInv, AtBoot, Tasks, Places

LEMMA RestartInv == Restart => ThreadInv'
  BY ThreadConstants DEF Restart, ThreadInv, AtBoot, Tasks, Places

\* Steps that leave all but the GIL, the queue and mp_irq_is_alive alone.
LEMMA GilInv ==
  ASSUME ThreadInv, UNCHANGED <<pc, nodes, ready, lock, entry, making, walk>>
  PROVE  ThreadInv'
  BY DEF ThreadInv

\* Steps in which one task moves from one place to another that says nothing more of it.
LEMMA MoveInv ==
  ASSUME ThreadInv, NEW t \in Tasks, NEW to \in Places,
         pc' = [pc EXCEPT ![t] = to],
         UNCHANGED <<nodes, ready, lock, entry, making, walk>>,
         t # making \/ to \in {"start", "wrong"},
         pc[t] # "none", to \notin {"none", "new", "link", "walk", "init"}, to = "wrong" => NodeReused,
         to \in {"py", "wait", "got", "finish"} => t \in ready,
         t = "main" => to \in {"py", "killing", "lock"},
         t = "irq" => to \in {"start", "wait", "got", "py", "finish", "dead", "wrong"},
         t \in Threads => to \in {"start", "py", "done", "send", "last", "dead", "wrong"}
  PROVE  ThreadInv'
  BY ThreadConstants DEF ThreadInv, Tasks, Places

\* A task is created by one that runs Python, or at the start of the interpreter.
LEMMA CreateInv ==
  ASSUME ThreadInv, NEW t \in Tasks, NEW n \in Tasks \ {"main"}, t # n,
         Create(t, n), ~IrqReady, UNCHANGED <<nodes, ready, walk>>,
         t \in ready, pc[t] # "none",
         n = "irq" => pc["main"] = "init" /\ t = "main",
         n # "irq" => pc["main"] # "init" \/ NodeReused
  PROVE  ThreadInv'
<1>1. /\ pc' \in [Tasks -> Places] /\ pc'[t] = "link" /\ pc'[n] = "new"
      /\ \A u \in Tasks \ {t, n} : pc'[u] = pc[u]
  BY DEF Create, ThreadInv, Places
<1>2. lock' = t /\ making' = n /\ lock = "no" /\ making = "no" /\ pc[n] = "none" /\ entry' = EntryOf(n)
  BY DEF Create, ThreadInv
<1>3. pc["irq"] # "new"
  BY DEF IrqReady
<1>4. NodeReused \/ (pc["main"] = "init" => \A u \in Tasks \ {"main"} : pc[u] = "none")
  BY DEF ThreadInv
<1>5. pc["main"] # "walk" /\ \A u \in Tasks : pc[u] # "link"
  BY <1>2, ThreadConstants DEF ThreadInv, Tasks
<1>6. nodes' = {u \in Tasks : pc'[u] # "none" /\ u # making'}
  BY <1>1, <1>2, ThreadConstants DEF ThreadInv, Tasks
<1>7. ASSUME ~NodeReused
      PROVE  /\ pc'["irq"] = "new" => entry' = "TASK_Interrupts"
             /\ \A u \in Threads : pc'[u] = "new" => entry' = "thread_entry"
             /\ \A u \in Tasks : pc'[u] # "wrong"
  BY <1>7, <1>1, <1>2, <1>3, <1>4, ThreadConstants DEF ThreadInv, Tasks, EntryOf
<1>8. (NodeReused \/ pc'["main"] # "init") /\ pc'["main"] # "walk"
  BY <1>1, <1>4, <1>5, ThreadConstants DEF ThreadInv, Tasks
<1>9. \A u \in Tasks : pc'[u] = "link" => lock' = u /\ making' # "no"
  BY <1>1, <1>2, <1>5, ThreadConstants DEF Tasks
<1>10. /\ "main" \in ready'
       /\ \A u \in Tasks : pc'[u] \in {"py", "link", "wait", "got", "finish"} => u \in ready'
  BY <1>1 DEF ThreadInv
<1>11. /\ pc'["main"] \in {"init", "link", "py", "killing", "lock", "walk"}
       /\ pc'["irq"] \in {"none", "new", "start", "wait", "got", "py", "link", "finish", "dead", "wrong"}
       /\ \A u \in Threads :
            pc'[u] \in {"none", "new", "start", "py", "link", "done", "send", "last", "dead", "wrong"}
  BY <1>1, ThreadConstants DEF ThreadInv, Tasks
<1> QED
  BY <1>1, <1>2, <1>6, <1>7, <1>8, <1>9, <1>10, <1>11, ThreadConstants DEF ThreadInv, Tasks

LEMMA LinkInv ==
  ASSUME ThreadInv, NEW t \in Tasks, Link(t)
  PROVE  ThreadInv'
<1>1. lock = t /\ lock' = "no" /\ making' = "no" /\ UNCHANGED <<ready, entry, walk>> /\ pc["main"] # "walk"
  BY ThreadConstants DEF Link, ThreadInv, Tasks
<1>2. /\ pc' \in [Tasks -> Places] /\ pc[t] = "link" /\ pc'[t] = "py"
      /\ \A u \in Tasks \ {t} : pc'[u] = pc[u] /\ pc[u] # "link"
  BY DEF Link, ThreadInv, Places
<1>3. making \in Tasks /\ making # t
  BY <1>2 DEF ThreadInv, Link
<1>4. nodes' = {u \in Tasks : pc'[u] # "none" /\ u # making'}
  BY <1>1, <1>2, <1>3, ThreadConstants DEF ThreadInv, Link, Tasks
<1> QED
  BY <1>1, <1>2, <1>4, ThreadConstants DEF ThreadInv, Tasks

\* vTaskDelete of a task that exists, by the interrupts task, the idle task or
\* mp_thread_deinit: no task is being created then.
LEMMA DeleteInv ==
  ASSUME ThreadInv, NEW t \in Tasks \ {"main"}, vPortCleanUpTCB(t),
         pc' \in [Tasks -> Places], pc'[t] = "none",
         \A u \in Tasks \ {t} : pc'[u] = pc[u] \/ (u = "irq" /\ pc[u] = "got" /\ pc'[u] = "wait"),
         UNCHANGED <<lock, entry, making>>,
         walk' = walk \/ walk' = walk \ {t} \/ NodeReused
  PROVE  ThreadInv'
<1>1. making = "no"
  BY DEF ThreadInv, vPortCleanUpTCB
<1>2. nodes' = {u \in Tasks : pc'[u] # "none" /\ u # making'}
  BY <1>1 DEF ThreadInv, vPortCleanUpTCB
<1>3. pc'["main"] = pc["main"] /\ "main" \in Tasks
  BY ThreadConstants DEF Tasks
<1>4. NodeReused \/ pc["main"] # "init" \/ \A u \in Tasks \ {"main"} : pc'[u] = "none"
  BY DEF ThreadInv
<1>5. \A u \in Tasks : pc'[u] \in {"py", "link", "wait", "got", "finish"} => u \in ready'
  BY DEF ThreadInv, vPortCleanUpTCB
<1>6. /\ \A u \in Tasks : pc'[u] = "link" => lock' = u /\ making' # "no"
      /\ NodeReused \/ \A u \in Threads : pc'[u] = "new" => entry' = "thread_entry"
      /\ NodeReused \/ (pc'["irq"] = "new" => entry' = "TASK_Interrupts")
  BY ThreadConstants DEF ThreadInv, Tasks
<1>7. NodeReused \/ (pc["main"] = "walk" => nodes' \subseteq walk' \cup {"main"})
  BY DEF ThreadInv, vPortCleanUpTCB
<1> QED
  BY <1>1, <1>2, <1>3, <1>4, <1>5, <1>6, <1>7, ThreadConstants DEF ThreadInv, Tasks, vPortCleanUpTCB

\* Steps in which a task starts or finishes running Python: its node's ready flag changes.
LEMMA StartInv ==
  ASSUME ThreadInv, NEW t \in Tasks, mp_thread_start(t)
  PROVE  ThreadInv'
<1>1. making = "no" /\ t \in nodes /\ t # "main"
  BY ThreadConstants DEF ThreadInv, mp_thread_start, Tasks
<1> DEFINE to == IF t = "irq" THEN "wait" ELSE "py"
<1>2. /\ pc' \in [Tasks -> Places] /\ pc'[t] = to /\ pc[t] = "start"
      /\ \A u \in Tasks \ {t} : pc'[u] = pc[u]
  BY DEF ThreadInv, Places, mp_thread_start
<1>3. ready' = ready \cup {t} /\ UNCHANGED <<nodes, lock, entry, making, walk>>
  BY <1>1 DEF mp_thread_start
<1>4. nodes' = {u \in Tasks : pc'[u] # "none" /\ u # making'}
  BY <1>1, <1>2, <1>3 DEF ThreadInv
<1> QED
  BY <1>1, <1>2, <1>3, <1>4, ThreadConstants DEF ThreadInv, Tasks

LEMMA FinishInv ==
  ASSUME ThreadInv, NEW t \in Tasks \ {"main"}, NEW to \in {"done", "dead"},
         t = "irq" => to = "dead",
         ready' = ready \ {t}, pc' = [pc EXCEPT ![t] = to],
         UNCHANGED <<nodes, lock, entry, making, walk>>,
         lock = "no", pc[t] # "none"
  PROVE  ThreadInv'
<1>1. /\ pc' \in [Tasks -> Places] /\ pc'[t] = to
      /\ \A u \in Tasks \ {t} : pc'[u] = pc[u]
  BY DEF ThreadInv, Places
<1>2. nodes' = {u \in Tasks : pc'[u] # "none" /\ u # making'}
  BY <1>1 DEF ThreadInv
<1> QED
  BY <1>1, <1>2, ThreadConstants DEF ThreadInv, Tasks

LEMMA CreateFailsInv ==
  ASSUME ThreadInv, NEW t \in Tasks, CreateFails(t)
  PROVE  ThreadInv'
<1>1. pc["irq"] # "new"
  BY DEF CreateFails, Python, Runs, IrqReady
<1> QED
  BY <1>1 DEF CreateFails, ThreadInv

LEMMA DeinitInv ==
  ASSUME ThreadInv, mp_thread_deinit \/ DeinitDone
  PROVE  ThreadInv'
<1> "main" \in Tasks
  BY DEF Tasks
<1> DEFINE to == IF pc["main"] = "lock" THEN "walk" ELSE "init"
<1>1. /\ pc' \in [Tasks -> Places] /\ pc'["main"] = to
      /\ \A u \in Tasks \ {"main"} : pc'[u] = pc[u]
  BY DEF ThreadInv, Places, mp_thread_deinit, DeinitDone
<1>2. making = "no" /\ pc["main"] # "none" /\ UNCHANGED <<nodes, ready, entry, making>>
  BY DEF ThreadInv, mp_thread_deinit, DeinitDone
<1>3. nodes' = {u \in Tasks : pc'[u] # "none" /\ u # making'}
  BY <1>1, <1>2, ThreadConstants DEF ThreadInv
<1>4. \A u \in Tasks : pc[u] # "link"
  BY <1>2 DEF ThreadInv
<1>5. CASE mp_thread_deinit
  BY ZenonT(30), <1>1, <1>2, <1>3, <1>4, <1>5, ThreadConstants DEF ThreadInv, Tasks, mp_thread_deinit
<1>6. CASE DeinitDone
  <2>1. (NodeReused \/ nodes \subseteq {"main"}) /\ "no" \notin Tasks
    BY Zenon, <1>6, ThreadConstants DEF ThreadInv, DeinitDone, Tasks
  <2>2. NodeReused \/ \A u \in Tasks \ {"main"} : pc'[u] = "none"
    BY <1>1, <1>2, <2>1 DEF ThreadInv
  <2> QED
    BY <1>1, <1>2, <1>3, <1>4, <1>6, <2>2, ThreadConstants DEF ThreadInv, Tasks, DeinitDone
<1> QED
  BY <1>5, <1>6

-----------------------------------------------------------------------------
LEMMA IrqStep ==
  ASSUME ThreadInv, Irq
  PROVE  ThreadInv'
<1> /\ "irq" \in Tasks /\ "irq" # "main" /\ "irq" \notin Threads /\ "main" \notin Threads
    /\ "no" \notin Tasks /\ Threads \subseteq Tasks
  BY ThreadConstants DEF Tasks
<1>1. CASE freertos_entry("irq")
  <2>1. PICK to \in {"start", "wrong"} : pc' = [pc EXCEPT !["irq"] = to] /\ (to = "wrong" => NodeReused)
    BY Zenon, <1>1 DEF freertos_entry, ThreadInv, EntryOf
  <2>2. pc["irq"] = "new"
    BY <1>1 DEF freertos_entry
  <2> QED
    BY Zenon, <1>1, <2>1, <2>2, MoveInv DEF freertos_entry, Places
<1>2. CASE mp_thread_start("irq")
  BY <1>2, StartInv
<1>3. CASE Link("irq")
  BY <1>3, LinkInv
<1>4. CASE Receive
  <2>1. pc["irq"] = "wait" /\ "irq" \in ready /\ "irq" # making
    BY <1>4 DEF Receive, ThreadInv
  <2>2. PICK to \in {"got", "finish"} : pc' = [pc EXCEPT !["irq"] = to]
    BY Zenon, <1>4 DEF Receive
  <2>3. UNCHANGED <<nodes, ready, lock, entry, making, walk>>
    BY <1>4 DEF Receive
  <2> QED
    BY Zenon, <2>1, <2>2, <2>3, MoveInv DEF Places
<1>5. CASE Call
  <2>1. pc["irq"] = "got" /\ "irq" \in ready /\ "irq" # making
    BY SMTT(30), <1>5 DEF Call, ThreadInv
  <2> QED
    BY Zenon, <1>5, <2>1, MoveInv DEF Call, Places
<1>6. CASE CallReturns
  <2>1. pc["irq"] = "py" /\ "irq" \in ready /\ "irq" # making
    BY <1>6 DEF CallReturns, Python, ThreadInv
  <2>2. PICK to \in {"wait", "finish"} : pc' = [pc EXCEPT !["irq"] = to]
    BY Zenon, <1>6 DEF CallReturns
  <2>3. UNCHANGED <<nodes, ready, lock, entry, making, walk>>
    BY <1>6 DEF CallReturns
  <2> QED
    BY Zenon, <2>1, <2>2, <2>3, MoveInv DEF Places
<1>7. CASE DeleteThread
  <2>1. got \in Tasks \ {"main"} /\ got # "irq" /\ vPortCleanUpTCB(got)
    BY <1>7 DEF DeleteThread
  <2>2. /\ pc' \in [Tasks -> Places] /\ pc'[got] = "none"
        /\ pc["irq"] = "got" /\ pc'["irq"] = "wait"
        /\ \A u \in Tasks \ {got, "irq"} : pc'[u] = pc[u]
    BY <1>7, <2>1 DEF DeleteThread, ThreadInv, Places
  <2>3. UNCHANGED <<lock, entry, making, walk>>
    BY <1>7 DEF DeleteThread
  <2> QED
    BY <2>1, <2>2, <2>3, DeleteInv
<1>8. CASE DeleteFreed
  <2>1. pc["irq"] = "got" /\ "irq" \in ready /\ "irq" # making
    BY <1>8 DEF DeleteFreed, ThreadInv
  <2>2. CASE Restart
    BY <2>2, RestartInv
  <2>3. CASE pc' = [pc EXCEPT !["irq"] = "wait"] /\ UNCHANGED <<nodes, ready, lock, entry, making, walk>>
    BY Zenon, <2>1, <2>3, MoveInv DEF Places
  <2> QED
    BY <1>8, <2>2, <2>3 DEF DeleteFreed
<1>9. CASE IrqEnds
  <2>1. /\ ready' = ready \ {"irq"} /\ pc' = [pc EXCEPT !["irq"] = "dead"]
        /\ UNCHANGED <<nodes, lock, entry, making, walk>>
        /\ lock = "no" /\ pc["irq"] # "none"
    BY <1>9 DEF IrqEnds
  <2> QED
    BY Zenon, <2>1, FinishInv
<1> QED
  BY <1>1, <1>2, <1>3, <1>4, <1>5, <1>6, <1>7, <1>8, <1>9 DEF Irq

LEMMA MainStep ==
  ASSUME ThreadInv, Main \/ mp_irq_kill
  PROVE  ThreadInv'
<1> /\ "main" \in Tasks /\ "irq" \in Tasks /\ "irq" # "main" /\ "main" \notin Threads
    /\ "no" \notin Tasks
  BY ThreadConstants DEF Tasks
<1> pc["main"] # "none" /\ "main" # making /\ "main" \in ready
  BY DEF ThreadInv
<1>1. CASE mp_irq_init0
  <2>1. ~IrqReady
    BY <1>1 DEF mp_irq_init0, Create, IrqReady
  <2> QED
    BY <1>1, <2>1, CreateInv DEF mp_irq_init0
<1>2. CASE Link("main")
  BY <1>2, LinkInv
<1>3. CASE Killed
  BY Zenon, <1>3, MoveInv DEF Killed, Places
<1>4. CASE mp_thread_deinit \/ DeinitDone
  BY <1>4, DeinitInv
<1>5. ASSUME NEW t \in Tasks, DeinitDeletes(t) PROVE ThreadInv'
  <2>1. t # "main" /\ vPortCleanUpTCB(t) /\ (walk' = walk \ {t} \/ NodeReused) /\ UNCHANGED <<lock, entry, making>>
    BY <1>5 DEF DeinitDeletes, vTaskDelete, Following
  <2>2. /\ pc' \in [Tasks -> Places] /\ pc'[t] = "none"
        /\ \A u \in Tasks \ {t} : pc'[u] = pc[u]
    BY SMTT(30), <1>5 DEF DeinitDeletes, vTaskDelete, ThreadInv, Places
  <2> QED
    BY <2>1, <2>2, DeleteInv
<1>6. CASE mp_irq_kill
  BY Zenon, <1>6, MoveInv DEF mp_irq_kill, Places
<1> QED
  BY <1>1, <1>2, <1>3, <1>4, <1>5, <1>6 DEF Main

LEMMA ThreadStep ==
  ASSUME ThreadInv, NEW t \in Threads, Thread(t) \/ mp_thread_finish(t)
  PROVE  ThreadInv'
<1> t \in Tasks /\ t # "main" /\ t # "irq" /\ "no" \notin Tasks
  BY SMTT(30), ThreadConstants DEF Tasks
<1>1. CASE freertos_entry(t)
  <2>1. PICK to \in {"start", "wrong"} : pc' = [pc EXCEPT ![t] = to] /\ (to = "wrong" => NodeReused)
    BY Zenon, <1>1 DEF freertos_entry, ThreadInv, EntryOf
  <2>2. pc[t] = "new"
    BY <1>1 DEF freertos_entry
  <2>3. UNCHANGED <<nodes, ready, lock, entry, making, walk>>
    BY <1>1 DEF freertos_entry
  <2> QED
    BY Zenon, <2>1, <2>2, <2>3, MoveInv DEF Places
<1>2. CASE mp_thread_start(t)
  BY <1>2, StartInv
<1>3. CASE Link(t)
  BY <1>3, LinkInv
<1>4. CASE CheckAlive(t) \/ immediate_thread_delete(t) \/ DeleteSelf(t)
  <2>1. /\ pc[t] # "none" /\ pc[t] \notin {"new", "start", "wrong"}
        /\ UNCHANGED <<nodes, ready, lock, entry, making, walk>>
    BY <1>4 DEF CheckAlive, immediate_thread_delete, DeleteSelf
  <2>2. PICK to \in {"send", "last", "dead"} : pc' = [pc EXCEPT ![t] = to]
    BY <1>4 DEF CheckAlive, immediate_thread_delete, DeleteSelf
  <2>3. t # making
    BY <2>1 DEF ThreadInv
  <2> QED
    BY Zenon, <2>1, <2>2, <2>3, MoveInv DEF Places
<1>5. CASE mp_thread_finish(t)
  <2>1. /\ ready' = ready \ {t} /\ pc' = [pc EXCEPT ![t] = "done"]
        /\ UNCHANGED <<nodes, lock, entry, making, walk>>
        /\ lock = "no" /\ pc[t] # "none"
    BY <1>5 DEF mp_thread_finish, Python
  <2> QED
    BY Zenon, <2>1, FinishInv
<1> QED
  BY <1>1, <1>2, <1>3, <1>4, <1>5 DEF Thread

LEMMA PythonStep ==
  ASSUME ThreadInv, NEW t \in Tasks,
         \/ GilExit(t) \/ GilEnter(t) \/ CreateFails(t) \/ Idle(t)
         \/ \E n \in Threads : start_new_thread(t, n)
  PROVE  ThreadInv'
<1> Threads \subseteq Tasks /\ "main" \notin Threads /\ "irq" \notin Threads
  BY ThreadConstants DEF Tasks
<1>1. CASE GilExit(t) \/ GilEnter(t)
  BY <1>1, GilInv DEF GilExit, GilEnter
<1>2. CASE CreateFails(t)
  BY <1>2, CreateFailsInv
<1>3. CASE Idle(t)
  <2>1. t # "main" /\ vPortCleanUpTCB(t) /\ UNCHANGED <<lock, entry, making, walk>>
    BY <1>3 DEF Idle, vTaskDelete, ThreadInv
  <2>2. /\ pc' \in [Tasks -> Places] /\ pc'[t] = "none"
        /\ \A u \in Tasks \ {t} : pc'[u] = pc[u]
    BY <1>3 DEF Idle, vTaskDelete, ThreadInv, Places
  <2> QED
    BY <2>1, <2>2, DeleteInv
<1>4. ASSUME NEW n \in Threads, start_new_thread(t, n) PROVE ThreadInv'
  <2>1. pc[t] = "py" /\ pc[n] = "none" /\ Create(t, n) /\ UNCHANGED <<nodes, ready, walk>>
    BY <1>4 DEF start_new_thread, Python, Create
  <2>2. ~IrqReady
    BY <1>4, <2>1 DEF start_new_thread, Python, Runs, IrqReady
  <2>3. t \in ready /\ t # n /\ (NodeReused \/ pc["main"] # "init")
    BY <2>1 DEF ThreadInv
  <2> QED
    BY <2>1, <2>2, <2>3, CreateInv
<1> QED
  BY <1>1, <1>2, <1>3, <1>4

LEMMA StepInv ==
  ASSUME ThreadInv, [Next]_vars
  PROVE  ThreadInv'
<1>1. CASE Interrupt \/ UNCHANGED vars
  BY <1>1, GilInv DEF Interrupt, vars
<1> QED
  BY <1>1, IrqStep, MainStep, ThreadStep, PythonStep DEF Next

-----------------------------------------------------------------------------
\* The invariant, for any number of threads.
THEOREM ThreadsAgree == Spec => []ThreadInv
<1>1. ThreadInv /\ [Next]_vars => ThreadInv'
  BY StepInv
<1> QED
  BY <1>1, InitInv, PTL DEF Spec

\* mp_thread_gc_others always finds the arguments and the stacks of all threads on the
\* list, and nothing that has been freed.
THEOREM RootsAlwaysComplete == Spec => []RootsComplete
<1>1. ThreadInv => RootsComplete
  BY ThreadConstants DEF ThreadInv, RootsComplete, Tasks
<1> QED
  BY <1>1, ThreadsAgree, PTL

\* freertos_entry runs the function that mp_thread_create_ex was given for the task.
THEOREM EntryAlwaysKept == ~NodeReused /\ Spec => []EntryKept
<1> SUFFICES ASSUME ~NodeReused PROVE Spec => []EntryKept
  OBVIOUS
<1>1. ThreadInv => EntryKept
  BY ThreadConstants DEF ThreadInv, EntryKept, Tasks
<1> QED
  BY <1>1, ThreadsAgree, PTL

\* mp_irq_kill and mp_thread_deinit leave the MicroPython task alone.
THEOREM ResetAlwaysClean == ~NodeReused /\ Spec => []ResetClean
<1> SUFFICES ASSUME ~NodeReused PROVE Spec => []ResetClean
  OBVIOUS
<1>1. ThreadInv => ResetClean
  BY ThreadConstants DEF ThreadInv, ResetClean, Tasks
<1> QED
  BY <1>1, ThreadsAgree, PTL
=============================================================================

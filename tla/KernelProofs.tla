---------------------------- MODULE KernelProofs ----------------------------
(***************************************************************************)
(* The kernel, for every number of tasks, priorities and generations and   *)
(* for every workload, kills and stale tids included: types, the priority  *)
(* bitmap, the slot bitmap and the tids; replies, messages and the ready   *)
(* queues; and last, that it implements Rendezvous and PriorityScheduler:  *)
(* every step of the kernel is a step of the abstract specification or     *)
(* none.                                                                   *)
(***************************************************************************)
EXTENDS KernelRefinement, QueueTheorems, TLAPS

\* A set of numbers up to m has a greatest element.
LEMMA GreatestElement ==
    ASSUME NEW m \in Nat, NEW T, T \subseteq 0 .. m, T # {}
    PROVE  \E x \in T : \A y \in T : y <= x
<1> DEFINE U == {m - x : x \in T}
<1>0. \A x \in T : x \in 0 .. m /\ m - x \in Nat
  OBVIOUS
<1>1. \E u \in U : \A v \in U : u <= v
  <2>1. U \subseteq Nat
    BY <1>0
  <2>2. U # {}
    OBVIOUS
  <2> QED BY <2>1, <2>2, LeastElement, Zenon
<1>2. PICK x \in T : \A y \in T : m - x <= m - y
  BY <1>1
<1>3. \A y \in T : y <= x
  BY <1>0, <1>2
<1> QED BY <1>3

\* scheduler_next_task looks at a priority that has its bit set.
LEMMA HighestReadyIsReady ==
    ASSUME nonempty \subseteq Priorities, nonempty # {}
    PROVE  HighestReady \in nonempty
<1>1. \E p \in nonempty : \A q \in nonempty : q <= p
  BY GreatestElement, BoundsAssumption, Zenon DEF Priorities
<1> QED BY <1>1, Zenon DEF HighestReady

\* task_init takes a slot that is free.
LEMMA LowestIsAvailable ==
    ASSUME available \subseteq Slots, available # {}
    PROVE  (CHOOSE t \in available : \A u \in available : t <= u) \in available
<1>1. available \subseteq Nat
  BY TasksAssumption DEF Slots
<1>2. \E t \in available : \A u \in available : t <= u
  BY <1>1, LeastElement, Zenon
<1> QED BY <1>2, Zenon

----------------------------------------------------------------------------
(* The ready queues and their bitmap under the operations of scheduler.c. *)

ReadyOK == /\ rq \in Families(Priorities, Slots)
           /\ nonempty \subseteq Priorities
           /\ BitmapExact

\* scheduler_register keeps the queues typed and sets the right bit.
LEMMA RegisterOK ==
    ASSUME ReadyOK, priority \in [Slots -> Priorities], NEW t \in Slots, Register(t)
    PROVE  ReadyOK'
<1> DEFINE e == Enqueue(rq, priority[t], t)
<1>1. priority[t] \in Priorities
  OBVIOUS
<1>2. /\ e \in Families(Priorities, Slots)
      /\ e.head[priority[t]] # NULL
      /\ \A j \in Priorities \ {priority[t]} : e.head[j] = rq.head[j]
  BY <1>1, EnqueueFacts, NullAssumption DEF ReadyOK
<1>3. rq' = e /\ nonempty' = nonempty \cup {priority[t]}
  BY DEF Register
<1> HIDE DEF e
<1> QED BY <1>1, <1>2, <1>3 DEF ReadyOK, BitmapExact, IsEmpty

\* So does scheduler_deregister, also for a task that is on no queue: the bit is
\* cleared exactly when the queue has become empty.
LEMMA DeregisterOK ==
    ASSUME ReadyOK, priority \in [Slots -> Priorities], NEW t \in Slots, Deregister(t)
    PROVE  ReadyOK'
<1> DEFINE e == Remove(rq, priority[t], t)
<1>1. priority[t] \in Priorities
  OBVIOUS
<1>2. /\ e \in Families(Priorities, Slots)
      /\ \A j \in Priorities \ {priority[t]} : e.head[j] = rq.head[j]
      /\ rq.head[priority[t]] = NULL => e.head[priority[t]] = NULL
  BY <1>1, RemoveFacts, NullAssumption DEF ReadyOK, IsEmpty
<1>3. /\ rq' = e
      /\ nonempty' = IF e.head[priority[t]] = NULL THEN nonempty \ {priority[t]}
                     ELSE nonempty
  BY DEF Deregister, IsEmpty
<1>4. nonempty = {p \in Priorities : rq.head[p] # NULL}
  BY DEF ReadyOK, BitmapExact, IsEmpty
<1> HIDE DEF e
<1>5. nonempty' = {p \in Priorities : e.head[p] # NULL}
  <2>1. CASE e.head[priority[t]] = NULL
    BY <1>1, <1>2, <1>3, <1>4, <2>1
  <2>2. CASE e.head[priority[t]] # NULL
    BY <1>1, <1>2, <1>3, <1>4, <2>2
  <2> QED BY <2>1, <2>2
<1> QED BY <1>2, <1>3, <1>5 DEF ReadyOK, BitmapExact, IsEmpty

\* Nothing here depends on the ready queues but through ReadyOK, so an action is
\* left with the rest of the invariant.
RestOK == TypeOK /\ SlotsExact /\ ControlOK /\ SlotZeroUnused

\* KernelInv is what the ready queues need and the rest.
LEMMA InvSplit == KernelInv => ReadyOK /\ RestOK
BY DEF KernelInv, ReadyOK, RestOK, TypeOK

----------------------------------------------------------------------------
(* One lemma per action. *)

\* The kernel starts in the invariant.
LEMMA InitInv == Init => KernelInv
<1> SUFFICES ASSUME Init PROVE KernelInv
  OBVIOUS
<1>0. FirstTask \in Slots /\ 0 \in Slots /\ FirstTask # 0
  BY TasksAssumption DEF FirstTask, Slots
<1>1. PICK p \in Priorities : priority = [s \in Slots |-> IF s = FirstTask THEN p ELSE 0]
  BY DEF Init
<1>2. 0 \in Priorities
  BY BoundsAssumption DEF Priorities
<1> DEFINE none == NoQueues(Priorities, Slots)
           e == Enqueue(none, p, FirstTask)
<1>3. none \in Families(Priorities, Slots) /\ \A j \in Priorities : none.head[j] = NULL
  BY DEF NoQueues, Families
<1>4. NoQueues(Slots, Slots) \in Families(Slots, Slots)
  BY DEF NoQueues, Families
<1> HIDE DEF none
<1>5. /\ e \in Families(Priorities, Slots)
      /\ e.head[p] # NULL
      /\ \A j \in Priorities \ {p} : e.head[j] = none.head[j]
  BY <1>0, <1>3, EnqueueFacts, NullAssumption
<1>6. rq = e /\ nonempty = {p}
  BY <1>0, <1>1 DEF Init, none
<1> HIDE DEF e
<1>7. ReadyOK
  BY <1>3, <1>5, <1>6 DEF ReadyOK, BitmapExact, IsEmpty
<1>8. TypeOK
  <2>1. /\ state \in [Slots -> TaskStates] /\ generation \in [Slots -> 0 .. MaxGeneration]
        /\ r0 \in [Slots -> Results] /\ nextGeneration \in [Slots -> 0 .. MaxGeneration]
    BY BoundsAssumption DEF Init, TaskStates, Results
  <2>2. priority \in [Slots -> Priorities]
    BY <1>1, <1>2
  <2>3. blockedOn \in [Slots -> Events \cup {NotBlocked}]
    BY DEF Init, Events, MaxEventId, NotBlocked
  <2>4. call \in [op : Calls \cup {"none"}, arg : Int]
    BY DEF Init, NoCall
  <2>5. registered \in [Events -> Slots \cup {NULL}] /\ sq \in Families(Slots, Slots)
    BY <1>4 DEF Init
  <2>6. available \subseteq Slots /\ cts \in BOOLEAN /\ txfe \in BOOLEAN
    BY DEF Init
  <2> QED BY <1>7, <2>1, <2>2, <2>3, <2>4, <2>5, <2>6 DEF Init, TypeOK, ReadyOK
<1>9. SlotsExact /\ ControlOK /\ SlotZeroUnused
  BY <1>0, BoundsAssumption, TasksAssumption DEF Init, SlotsExact, ControlOK, SlotZeroUnused, Slots
<1> QED BY <1>7, <1>8, <1>9 DEF KernelInv, ReadyOK

\* schedule(): the task that is taken off its queue is a task, and the bit of an
\* emptied queue is cleared.
LEMMA ScheduleInv == KernelInv /\ Schedule => KernelInv'
<1> SUFFICES ASSUME KernelInv, Schedule PROVE KernelInv'
  OBVIOUS
<1>0. ReadyOK /\ TypeOK /\ SlotsExact /\ ControlOK /\ SlotZeroUnused
  BY InvSplit DEF RestOK
<1>1. CASE nonempty = {} \/ IsEmpty(rq, HighestReady)
  <2>1. ReadyOK'
    BY <1>0, <1>1 DEF Schedule, readyVars, ReadyOK, BitmapExact
  <2>2. TypeOK' /\ SlotsExact' /\ ControlOK' /\ SlotZeroUnused'
    BY <1>0, <1>1 DEF Schedule, TypeOK, SlotsExact, ControlOK, SlotZeroUnused, taskVars,
                slotVars, readyVars, eventVars, uartVars
  <2> QED BY <2>1, <2>2 DEF KernelInv, ReadyOK
<1>2. CASE ~ (nonempty = {} \/ IsEmpty(rq, HighestReady))
  <2> DEFINE p == HighestReady
             next == rq.head[p]
             d == Dequeue(rq, p)
  <2>1. p \in Priorities
    BY <1>0, <1>2, HighestReadyIsReady DEF TypeOK
  <2>2. d \in Families(Priorities, Slots)
        /\ \A j \in Priorities \ {p} : d.head[j] = rq.head[j]
    BY <1>0, <2>1, DequeueFacts, NullAssumption DEF TypeOK
  <2>3. next \in Slots
    BY <1>0, <1>2, <2>1 DEF TypeOK, Families, IsEmpty
  <2>4. rq' = d /\ nonempty' = IF d.head[p] = NULL THEN nonempty \ {p} ELSE nonempty
    BY <1>2 DEF Schedule, IsEmpty
  <2>5. ReadyOK'
    <3>1. nonempty = {q \in Priorities : rq.head[q] # NULL} /\ rq.head[p] # NULL
      BY <1>0, <1>2 DEF ReadyOK, BitmapExact, IsEmpty
    <3> HIDE DEF d, p
    <3>2. nonempty' = {q \in Priorities : d.head[q] # NULL}
      BY <2>1, <2>2, <2>4, <3>1
    <3> QED BY <2>2, <2>4, <3>1, <3>2 DEF ReadyOK, BitmapExact, IsEmpty
  <2> HIDE DEF d
  <2>6. CASE state[next] \in {"RUNNABLE", "ACTIVE"}
    <3>1. /\ mode' = "user" /\ current' = next
          /\ state' = [state EXCEPT ![next] = "ACTIVE"]
          /\ r0' = [r0 EXCEPT ![next] = 0]
          /\ UNCHANGED <<generation, priority, blockedOn, call, clearing, slotVars, sq,
                         eventVars, uartVars>>
      BY <1>2, <2>6 DEF Schedule
    <3> HIDE DEF next
    <3>2. TypeOK'
      BY <1>0, <2>3, <2>5, <3>1 DEF ReadyOK, TypeOK, TaskStates, Results, slotVars,
          eventVars, uartVars
    <3>3. SlotsExact' /\ SlotZeroUnused'
      BY <1>0, <2>3, <2>6, <3>1 DEF TypeOK, SlotsExact, SlotZeroUnused, slotVars
    <3>4. ControlOK'
      BY <1>0, <2>3, <3>1 DEF TypeOK, ControlOK
    <3> QED BY <2>5, <3>2, <3>3, <3>4 DEF KernelInv, ReadyOK
  <2>7. CASE state[next] \notin {"RUNNABLE", "ACTIVE"}
    <3>1. /\ mode' \in {"fault", "panic"}
          /\ UNCHANGED <<current, taskVars, r0, call, clearing, slotVars, sq, eventVars,
                         uartVars>>
      BY <1>2, <2>7 DEF Schedule
    <3> QED BY <1>0, <2>5, <3>1
        DEF KernelInv, ReadyOK, TypeOK, SlotsExact, ControlOK, SlotZeroUnused, taskVars, slotVars,
            eventVars, uartVars
  <2> QED BY <2>6, <2>7
<1> QED BY <1>1, <1>2

\* Every integer that is passed as a tid names some slot (tid_t_index).
LEMMA SlotOfIsSlot == ASSUME NEW tid \in Int PROVE SlotOf(tid) \in Slots
BY TasksAssumption DEF SlotOf, Slots

\* kmain's loop puts a task that is still ready back on its queue.
LEMMA ReturnInv == KernelInv /\ Return => KernelInv'
<1> SUFFICES ASSUME KernelInv, Return PROVE KernelInv'
  OBVIOUS
<1>0. ReadyOK /\ TypeOK /\ SlotsExact /\ ControlOK /\ SlotZeroUnused
  BY InvSplit DEF RestOK
<1>1. /\ mode' = "schedule" /\ call' = NoCall /\ current \in Slots
      /\ UNCHANGED <<current, clearing, generation, priority, blockedOn, r0, slotVars,
                     sq, eventVars, uartVars>>
  BY <1>0 DEF Return, ControlOK
<1>2. CASE state[current] \in {"RUNNABLE", "ACTIVE"}
  <2>1. state' = [state EXCEPT ![current] = "RUNNABLE"] /\ Register(current)
    BY <1>2 DEF Return
  <2>2. ReadyOK'
    BY <1>0, <1>1, <2>1, RegisterOK DEF TypeOK
  <2>3. TypeOK'
    BY <1>0, <1>1, <2>1, <2>2 DEF TypeOK, ReadyOK, TaskStates, NoCall, slotVars,
       eventVars, uartVars
  <2>4. SlotsExact' /\ ControlOK' /\ SlotZeroUnused'
    BY <1>0, <1>1, <1>2, <2>1 DEF TypeOK, SlotsExact, ControlOK, SlotZeroUnused, slotVars
  <2> QED BY <2>2, <2>3, <2>4 DEF KernelInv, ReadyOK
<1>3. CASE state[current] \notin {"RUNNABLE", "ACTIVE"}
  <2>1. UNCHANGED <<state, readyVars>>
    BY <1>3 DEF Return
  <2> QED BY <1>0, <1>1, <2>1
      DEF KernelInv, TypeOK, BitmapExact, SlotsExact, ControlOK, SlotZeroUnused, NoCall,
          readyVars, slotVars, eventVars, uartVars
<1> QED BY <1>2, <1>3

\* One step of clear_send_queue.
LEMMA ClearSendQueueInv == KernelInv /\ ClearSendQueue => KernelInv'
<1> SUFFICES ASSUME KernelInv, ClearSendQueue PROVE KernelInv'
  OBVIOUS
<1>0. ReadyOK /\ TypeOK /\ SlotsExact /\ ControlOK /\ SlotZeroUnused
  BY InvSplit DEF RestOK
<1> DEFINE sender == sq.head[clearing]
<1>1. current \in Slots /\ clearing \in Slots /\ sender \in Slots \cup {NULL}
  BY <1>0 DEF ClearSendQueue, ControlOK, TypeOK, Families
<1>2. sq' \in Families(Slots, Slots)
  BY <1>0, <1>1, DequeueFacts, NullAssumption DEF ClearSendQueue, TypeOK
<1>3. /\ \/ mode' = "return" /\ clearing' = NULL
         \/ mode' = "clear" /\ clearing' = clearing
      /\ UNCHANGED <<current, call, generation, priority, blockedOn, slotVars, eventVars,
                     uartVars>>
  BY DEF ClearSendQueue
<1>4. CASE ~ IsEmpty(sq, clearing) /\ state[sender] = "RECEIVE_BLOCKED"
  <2>1. /\ r0' = [r0 EXCEPT ![sender] = -2]
        /\ state' = [state EXCEPT ![sender] = "RUNNABLE"]
        /\ Register(sender)
        /\ sender \in Slots
    BY <1>1, <1>4 DEF ClearSendQueue, IsEmpty
  <2> HIDE DEF sender
  <2>2. ReadyOK'
    BY <1>0, <2>1, RegisterOK DEF TypeOK
  <2>3. TypeOK'
    BY <1>0, <1>1, <1>2, <1>3, <2>1, <2>2
    DEF TypeOK, ReadyOK, TaskStates, Results, slotVars, eventVars, uartVars
  <2>4. SlotsExact' /\ ControlOK' /\ SlotZeroUnused'
    BY <1>0, <1>1, <1>3, <1>4, <2>1
    DEF TypeOK, SlotsExact, ControlOK, SlotZeroUnused, slotVars
  <2> QED BY <2>2, <2>3, <2>4 DEF KernelInv, ReadyOK
<1>5. CASE ~ (~ IsEmpty(sq, clearing) /\ state[sender] = "RECEIVE_BLOCKED")
  <2>1. UNCHANGED <<r0, state, readyVars>>
    BY <1>5 DEF ClearSendQueue
  <2> QED BY <1>0, <1>1, <1>2, <1>3, <2>1
      DEF KernelInv, TypeOK, BitmapExact, SlotsExact, ControlOK, SlotZeroUnused,
          readyVars, slotVars, eventVars, uartVars
<1> QED BY <1>4, <1>5

\* syscall_pass.
LEMMA SyscallPassInv == KernelInv /\ SyscallPass => KernelInv'
<1> SUFFICES ASSUME KernelInv, SyscallPass PROVE KernelInv'
  OBVIOUS
<1>0. ReadyOK /\ TypeOK /\ SlotsExact /\ ControlOK /\ SlotZeroUnused
  BY InvSplit DEF RestOK
<1>1. /\ mode' = "return" /\ call' = [op |-> "Pass", arg |-> 0] /\ current \in Slots
      /\ Register(current)
      /\ UNCHANGED <<current, clearing, taskVars, r0, slotVars, sq, eventVars, uartVars>>
  BY <1>0 DEF SyscallPass, Trap, ControlOK
<1>2. ReadyOK'
  BY <1>0, <1>1, RegisterOK DEF TypeOK
<1> QED BY <1>0, <1>1, <1>2
    DEF KernelInv, ReadyOK, TypeOK, Calls, SlotsExact, ControlOK, SlotZeroUnused, taskVars,
        slotVars, eventVars, uartVars

\* syscall_exit: the slot of the caller becomes free unless its generations are
\* used up.
LEMMA SyscallExitInv == KernelInv /\ SyscallExit => KernelInv'
<1> SUFFICES ASSUME KernelInv, SyscallExit PROVE KernelInv'
  OBVIOUS
<1>0. ReadyOK /\ TypeOK /\ SlotsExact /\ ControlOK /\ SlotZeroUnused
  BY InvSplit DEF RestOK
<1>1. /\ mode' = "clear" /\ clearing' = current /\ call' = [op |-> "Exit", arg |-> 0]
      /\ current \in Slots /\ state[current] = "ACTIVE"
      /\ state' = [state EXCEPT ![current] = "ZOMBIE"]
      /\ r0' = [r0 EXCEPT ![current] = 0]
      /\ available' = IF nextGeneration[current] < MaxGeneration
                      THEN available \cup {current} ELSE available
      /\ UNCHANGED <<current, generation, priority, blockedOn, nextGeneration, readyVars,
                     sq, eventVars, uartVars>>
  BY <1>0 DEF SyscallExit, Trap, Retire, ControlOK
<1>2. current # 0 /\ 0 \in Slots
  BY <1>0, <1>1, TasksAssumption DEF SlotZeroUnused, Slots
<1>3. TypeOK' /\ BitmapExact'
  BY <1>0, <1>1 DEF ReadyOK, TypeOK, BitmapExact, TaskStates, Calls, Results, readyVars,
     eventVars, uartVars
<1>4. SlotsExact' /\ SlotZeroUnused'
  BY <1>0, <1>1, <1>2 DEF TypeOK, SlotsExact, SlotZeroUnused
<1>5. ControlOK'
  BY <1>1 DEF ControlOK
<1> QED BY <1>3, <1>4, <1>5 DEF KernelInv

\* syscall_create: a slot leaves available_tids as its task comes to life.
LEMMA SyscallCreateInv ==
    ASSUME KernelInv, NEW p \in Priorities \cup {MaxPriority + 1}, SyscallCreate(p)
    PROVE  KernelInv'
<1> DEFINE s == CHOOSE t \in available : \A u \in available : t <= u
<1>0. ReadyOK /\ TypeOK /\ SlotsExact /\ ControlOK /\ SlotZeroUnused
  BY InvSplit DEF RestOK
<1>1. /\ call' = [op |-> "Create", arg |-> p] /\ p \in Int /\ current \in Slots
      /\ UNCHANGED <<current, clearing, eventVars, uartVars>>
  BY <1>0, BoundsAssumption DEF SyscallCreate, Trap, ControlOK, Priorities
<1>2. CASE available = {} \/ p \notin Priorities
  <2>1. /\ r0' \in {[r0 EXCEPT ![current] = -2], [r0 EXCEPT ![current] = -1]}
        /\ mode' = "return"
        /\ UNCHANGED <<taskVars, slotVars, readyVars, sq>>
    BY <1>2 DEF SyscallCreate
  <2>2. r0' \in [Slots -> Results]
    BY <1>0, <2>1 DEF TypeOK, Results
  <2> QED BY <1>0, <1>1, <2>1, <2>2
      DEF KernelInv, TypeOK, Calls, BitmapExact, SlotsExact, ControlOK, SlotZeroUnused,
          taskVars, slotVars, readyVars, eventVars, uartVars
<1>3. CASE available # {} /\ p \in Priorities
  <2>1. /\ TaskInit(s, p)
        /\ r0' = [r0 EXCEPT ![current] = Positive, ![s] = 0]
        /\ mode' \in {"return", "panic"}
    BY <1>3 DEF SyscallCreate
  <2>2. s \in available
    BY <1>0, <1>3, LowestIsAvailable, Zenon DEF TypeOK
  <2> HIDE DEF s
  <2>3. s \in Slots \ {0} /\ nextGeneration[s] < MaxGeneration /\ 0 \in Slots
    BY <1>0, <2>2, TasksAssumption DEF TypeOK, SlotsExact, SlotZeroUnused, Slots
  <2> DEFINE q == [rq EXCEPT !.next[s] = NULL, !.prev[s] = NULL]
             e == Enqueue(q, p, s)
  <2>4. q \in Families(Priorities, Slots) /\ q.head = rq.head
    BY <1>0, <2>3 DEF TypeOK, Families
  <2>5. rq' = e /\ nonempty' = nonempty \cup {p}
    BY <2>1 DEF TaskInit
  <2> HIDE DEF q
  <2>6. /\ e \in Families(Priorities, Slots)
        /\ e.head[p] # NULL
        /\ \A j \in Priorities \ {p} : e.head[j] = q.head[j]
    BY <1>3, <2>3, <2>4, EnqueueFacts, NullAssumption
  <2> HIDE DEF e
  <2>7. ReadyOK'
    BY <1>0, <1>3, <2>4, <2>5, <2>6 DEF ReadyOK, BitmapExact, IsEmpty
  <2>8. sq' \in Families(Slots, Slots)
    BY <1>0, <2>1, <2>3 DEF TaskInit, TypeOK, Families
  <2>9. /\ generation' \in [Slots -> 0 .. MaxGeneration]
        /\ nextGeneration' \in [Slots -> 0 .. MaxGeneration]
        /\ available' \subseteq Slots
        /\ priority' \in [Slots -> Priorities]
        /\ state' \in [Slots -> TaskStates]
        /\ blockedOn' \in [Slots -> Events \cup {NotBlocked}]
        /\ r0' \in [Slots -> Results]
    BY <1>0, <1>3, <2>1, <2>3, BoundsAssumption DEF TaskInit, TypeOK, TaskStates, Results
  <2>10. TypeOK'
    BY <1>0, <1>1, <2>1, <2>7, <2>8, <2>9
    DEF TypeOK, ReadyOK, Calls, eventVars, uartVars
  <2>11. SlotsExact' /\ SlotZeroUnused' /\ ControlOK'
    BY <1>0, <1>1, <2>1, <2>3
    DEF TaskInit, TypeOK, SlotsExact, SlotZeroUnused, ControlOK
  <2> QED BY <2>7, <2>10, <2>11 DEF KernelInv, ReadyOK
<1> QED BY <1>2, <1>3

\* syscall_send, whatever the tid.
LEMMA SyscallSendInv ==
    ASSUME KernelInv, NEW tid \in Tids, NEW fits \in BOOLEAN, SyscallSend(tid, fits)
    PROVE  KernelInv'
<1> DEFINE r == SlotOf(tid)
<1>0. ReadyOK /\ TypeOK /\ SlotsExact /\ ControlOK /\ SlotZeroUnused
  BY InvSplit DEF RestOK
<1>1. /\ call' = [op |-> "Send", arg |-> tid] /\ tid \in Int /\ mode' = "return"
      /\ current \in Slots /\ state[current] = "ACTIVE" /\ r \in Slots
      /\ UNCHANGED <<current, clearing, generation, priority, blockedOn, slotVars,
                     eventVars, uartVars>>
  BY <1>0, SlotOfIsSlot DEF SyscallSend, Trap, ControlOK, Tids
<1> HIDE DEF r
<1>2. CASE /\ r0' = [r0 EXCEPT ![current] = -2]
           /\ UNCHANGED <<state, readyVars, sq>>
  BY <1>0, <1>1, <1>2
  DEF KernelInv, TypeOK, Calls, Results, BitmapExact, SlotsExact, ControlOK,
      SlotZeroUnused, slotVars, readyVars, eventVars, uartVars
<1>3. CASE /\ state[r] = "SEND_BLOCKED"
           /\ r0' = [r0 EXCEPT ![r] = Delivered(fits)]
           /\ state' = [state EXCEPT ![current] = "REPLY_BLOCKED", ![r] = "RUNNABLE"]
           /\ Register(r)
           /\ UNCHANGED sq
  <2>1. ReadyOK'
    BY <1>0, <1>1, <1>3, RegisterOK DEF TypeOK
  <2>2. TypeOK'
    BY <1>0, <1>1, <1>3, <2>1 DEF TypeOK, ReadyOK, Calls, TaskStates, Results, Delivered,
       slotVars, eventVars, uartVars
  <2>3. \A t \in Slots : state'[t] = "ZOMBIE" <=> state[t] = "ZOMBIE"
    BY <1>0, <1>1, <1>3 DEF TypeOK
  <2>4. SlotsExact' /\ SlotZeroUnused' /\ ControlOK'
    BY <1>0, <1>1, <2>3, TasksAssumption
    DEF SlotsExact, SlotZeroUnused, ControlOK, slotVars, Slots
  <2> QED BY <2>1, <2>2, <2>4 DEF KernelInv, ReadyOK
<1>4. CASE /\ state' = [state EXCEPT ![current] = "RECEIVE_BLOCKED"]
           /\ sq' = Enqueue(sq, r, current)
           /\ UNCHANGED <<r0, readyVars>>
  <2>1. sq' \in Families(Slots, Slots)
    BY <1>0, <1>1, <1>4, EnqueueFacts, NullAssumption DEF TypeOK
  <2>2. TypeOK' /\ BitmapExact'
    BY <1>0, <1>1, <1>4, <2>1 DEF TypeOK, ReadyOK, BitmapExact, Calls, TaskStates,
       slotVars, readyVars, eventVars, uartVars
  <2>3. SlotsExact' /\ SlotZeroUnused' /\ ControlOK'
    BY <1>0, <1>1, <1>4 DEF TypeOK, SlotsExact, SlotZeroUnused, ControlOK, slotVars
  <2> QED BY <2>2, <2>3 DEF KernelInv
<1> QED BY <1>2, <1>3, <1>4 DEF SyscallSend, SendTo, r

\* syscall_receive.
LEMMA SyscallReceiveInv ==
    ASSUME KernelInv, NEW fits \in BOOLEAN, SyscallReceive(fits)
    PROVE  KernelInv'
<1> DEFINE sender == sq.head[current]
<1>0. ReadyOK /\ TypeOK /\ SlotsExact /\ ControlOK /\ SlotZeroUnused
  BY InvSplit DEF RestOK
<1>1. /\ call' = [op |-> "Receive", arg |-> 0]
      /\ current \in Slots /\ state[current] = "ACTIVE"
      /\ UNCHANGED <<current, clearing, generation, priority, blockedOn, slotVars,
                     readyVars, eventVars, uartVars>>
  BY <1>0 DEF SyscallReceive, Trap, ControlOK
<1>2. Dequeue(sq, current) \in Families(Slots, Slots)
  BY <1>0, <1>1, DequeueFacts, NullAssumption DEF TypeOK
<1>3. CASE IsEmpty(sq, current)
  <2>1. /\ state' = [state EXCEPT ![current] = "SEND_BLOCKED"]
        /\ mode' = "return" /\ UNCHANGED <<r0, sq>>
    BY <1>3 DEF SyscallReceive
  <2>2. TypeOK' /\ BitmapExact'
    BY <1>0, <1>1, <2>1 DEF TypeOK, ReadyOK, BitmapExact, Calls, TaskStates,
       slotVars, readyVars, eventVars, uartVars
  <2>3. SlotsExact' /\ SlotZeroUnused' /\ ControlOK'
    BY <1>0, <1>1, <2>1 DEF TypeOK, SlotsExact, SlotZeroUnused, ControlOK, slotVars
  <2> QED BY <2>2, <2>3 DEF KernelInv
<1>4. CASE ~ IsEmpty(sq, current) /\ state[sender] = "ZOMBIE"
  <2>1. sq' = Dequeue(sq, current) /\ mode' = "fault" /\ UNCHANGED <<state, r0>>
    BY <1>4 DEF SyscallReceive, TakeSender
  <2> QED BY <1>0, <1>1, <1>2, <2>1
      DEF KernelInv, TypeOK, BitmapExact, Calls, SlotsExact, SlotZeroUnused, ControlOK,
          slotVars, readyVars, eventVars, uartVars
<1>5. CASE ~ IsEmpty(sq, current) /\ state[sender] # "ZOMBIE"
  <2>1. /\ sq' = Dequeue(sq, current) /\ mode' = "return"
        /\ r0' = [r0 EXCEPT ![current] = Delivered(fits)]
        /\ state' = [state EXCEPT ![current] = "RUNNABLE", ![sender] = "REPLY_BLOCKED"]
        /\ sender \in Slots
    BY <1>0, <1>1, <1>5 DEF SyscallReceive, TakeSender, TypeOK, Families, IsEmpty
  <2> HIDE DEF sender
  <2>2. TypeOK' /\ BitmapExact'
    BY <1>0, <1>1, <1>2, <2>1 DEF TypeOK, ReadyOK, BitmapExact, Calls, TaskStates,
       Results, Delivered, slotVars, readyVars, eventVars, uartVars
  <2>3. \A t \in Slots : state'[t] = "ZOMBIE" <=> state[t] = "ZOMBIE"
    BY <1>0, <1>1, <1>5, <2>1 DEF TypeOK, sender
  <2>4. SlotsExact' /\ SlotZeroUnused'
    BY <1>0, <1>1, <2>3, TasksAssumption DEF SlotsExact, SlotZeroUnused, slotVars, Slots
  <2>5. ControlOK'
    BY <1>1, <2>1 DEF ControlOK
  <2> QED BY <2>2, <2>4, <2>5 DEF KernelInv
<1> QED BY <1>3, <1>4, <1>5

\* syscall_reply, whatever the tid.
LEMMA SyscallReplyInv ==
    ASSUME KernelInv, NEW tid \in Tids, NEW fits \in BOOLEAN, SyscallReply(tid, fits)
    PROVE  KernelInv'
<1> DEFINE target == SlotOf(tid)
<1>0. ReadyOK /\ TypeOK /\ SlotsExact /\ ControlOK /\ SlotZeroUnused
  BY InvSplit DEF RestOK
<1>1. /\ call' = [op |-> "Reply", arg |-> tid] /\ tid \in Int /\ mode' = "return"
      /\ current \in Slots /\ target \in Slots
      /\ UNCHANGED <<current, clearing, generation, priority, blockedOn, slotVars, sq,
                     eventVars, uartVars>>
  BY <1>0, SlotOfIsSlot DEF SyscallReply, Trap, ControlOK, Tids
<1> HIDE DEF target
<1>2. CASE /\ r0' \in {[r0 EXCEPT ![current] = -2], [r0 EXCEPT ![current] = -3]}
           /\ UNCHANGED <<state, readyVars>>
  <2>1. r0' \in [Slots -> Results]
    BY <1>0, <1>2 DEF TypeOK, Results
  <2> QED BY <1>0, <1>1, <1>2, <2>1
      DEF KernelInv, TypeOK, Calls, BitmapExact, SlotsExact, ControlOK, SlotZeroUnused,
          slotVars, readyVars, eventVars, uartVars
<1>3. CASE /\ state[target] = "REPLY_BLOCKED"
           /\ r0' = [r0 EXCEPT ![target] = Delivered(fits),
                               ![current] = IF fits THEN 0 ELSE -1]
           /\ state' = [state EXCEPT ![target] = "RUNNABLE"]
           /\ Register(target)
  <2>1. ReadyOK'
    BY <1>0, <1>1, <1>3, RegisterOK DEF TypeOK
  <2>2. TypeOK'
    BY <1>0, <1>1, <1>3, <2>1 DEF TypeOK, ReadyOK, Calls, TaskStates, Results, Delivered,
       slotVars, eventVars, uartVars
  <2>3. SlotsExact' /\ SlotZeroUnused' /\ ControlOK'
    BY <1>0, <1>1, <1>3 DEF TypeOK, SlotsExact, SlotZeroUnused, ControlOK, slotVars
  <2> QED BY <2>1, <2>2, <2>3 DEF KernelInv, ReadyOK
<1> QED BY <1>2, <1>3 DEF SyscallReply, target

\* syscall_awaitevent, whatever the event.
LEMMA SyscallAwaitEventInv ==
    ASSUME KernelInv, NEW e \in AwaitedEvents, SyscallAwaitEvent(e)
    PROVE  KernelInv'
<1>0. ReadyOK /\ TypeOK /\ SlotsExact /\ ControlOK /\ SlotZeroUnused
  BY InvSplit DEF RestOK
<1>1. /\ call' = [op |-> "AwaitEvent", arg |-> e] /\ e \in Int /\ mode' = "return"
      /\ current \in Slots /\ state[current] = "ACTIVE"
      /\ UNCHANGED <<current, clearing, generation, priority, slotVars, readyVars, sq,
                     cts, txfe>>
  BY <1>0, WorkloadAssumption DEF SyscallAwaitEvent, Trap, ControlOK
<1>2. CASE /\ r0' \in {[r0 EXCEPT ![current] = -1], [r0 EXCEPT ![current] = -3]}
           /\ UNCHANGED <<state, blockedOn, eventVars, irqEnabled>>
  <2>1. r0' \in [Slots -> Results]
    BY <1>0, <1>2 DEF TypeOK, Results
  <2> QED BY <1>0, <1>1, <1>2, <2>1
      DEF KernelInv, TypeOK, Calls, BitmapExact, SlotsExact, ControlOK, SlotZeroUnused,
          slotVars, readyVars, eventVars
<1>3. CASE /\ e \in Events
           /\ registered' = [registered EXCEPT ![e] = current]
           /\ blockedOn' = [blockedOn EXCEPT ![current] = e]
           /\ state' = [state EXCEPT ![current] = "EVENT_BLOCKED"]
           /\ eventBlocked' = eventBlocked + 1
           /\ irqEnabled' = irqEnabled \cup ({e} \ {TIMER})
           /\ everRegistered' = everRegistered \cup {e}
           /\ r0' = [r0 EXCEPT ![current] = BadData]
  <2>0. /\ registered' \in [Events -> Slots \cup {NULL}]
        /\ blockedOn' \in [Slots -> Events \cup {NotBlocked}]
        /\ state' \in [Slots -> TaskStates] /\ r0' \in [Slots -> Results]
        /\ eventBlocked' \in Int
        /\ irqEnabled' \subseteq Events /\ everRegistered' \subseteq Events
    <3>1. registered' \in [Events -> Slots \cup {NULL}]
      BY <1>0, <1>1, <1>3 DEF TypeOK
    <3>2. blockedOn' \in [Slots -> Events \cup {NotBlocked}]
      BY <1>0, <1>1, <1>3 DEF TypeOK
    <3>3. state' \in [Slots -> TaskStates] /\ r0' \in [Slots -> Results]
      BY <1>0, <1>1, <1>3 DEF TypeOK, TaskStates, Results
    <3>4. eventBlocked' \in Int
      BY <1>0, <1>3 DEF TypeOK
    <3>5. irqEnabled' \subseteq Events /\ everRegistered' \subseteq Events
      BY <1>0, <1>3 DEF TypeOK
    <3> QED BY <3>1, <3>2, <3>3, <3>4, <3>5
  <2>1. TypeOK' /\ BitmapExact'
    BY <1>0, <1>1, <2>0
    DEF TypeOK, ReadyOK, BitmapExact, Calls, slotVars, readyVars
  <2>2. SlotsExact' /\ SlotZeroUnused' /\ ControlOK'
    BY <1>0, <1>1, <1>3 DEF TypeOK, SlotsExact, SlotZeroUnused, ControlOK, slotVars
  <2> QED BY <2>1, <2>2 DEF KernelInv
<1> QED BY <1>2, <1>3 DEF SyscallAwaitEvent

\* The part of the invariant that EventHandle can disturb.
LEMMA EventHandleInv ==
    ASSUME KernelInv, NEW e \in Events, EventHandle(e) \/ NoEvent
    PROVE  /\ ReadyOK'
           /\ mode' \in {"return", "panic"}
           /\ r0' \in [Slots -> Results]
           /\ state' \in [Slots -> TaskStates]
           /\ \A s \in Slots : state'[s] = "ZOMBIE" <=> state[s] = "ZOMBIE"
           /\ blockedOn' \in [Slots -> Events \cup {NotBlocked}]
           /\ registered' \in [Events -> Slots \cup {NULL}]
           /\ everRegistered' \subseteq Events
           /\ eventBlocked' \in Int
<1>0. ReadyOK /\ TypeOK
  BY InvSplit DEF RestOK
<1> DEFINE t == registered[e]
<1>1. CASE EventHandle(e) /\ EventHasTask(e)
  <2>1. t \in Slots /\ state[t] = "EVENT_BLOCKED"
    BY <1>0, <1>1 DEF EventHasTask, TypeOK
  <2>2. /\ mode' \in {"return", "panic"}
        /\ r0' = [r0 EXCEPT ![t] = 0]
        /\ state' = [state EXCEPT ![t] = "RUNNABLE"]
        /\ eventBlocked' = eventBlocked - 1
        /\ registered' = [registered EXCEPT ![e] = NULL]
        /\ blockedOn' = [blockedOn EXCEPT ![t] = NotBlocked]
        /\ Register(t)
        /\ UNCHANGED everRegistered
    BY <1>1 DEF EventHandle
  <2> HIDE DEF t
  <2>3. ReadyOK'
    BY <1>0, <2>1, <2>2, RegisterOK DEF TypeOK
  <2> QED BY <1>0, <2>1, <2>2, <2>3 DEF TypeOK, TaskStates, Results
<1>2. CASE /\ mode' \in {"return", "panic"}
           /\ UNCHANGED <<r0, state, blockedOn, eventVars, readyVars>>
  BY <1>0, <1>2 DEF TypeOK, ReadyOK, BitmapExact, eventVars, readyVars
<1> QED BY <1>1, <1>2 DEF EventHandle, NoEvent

\* try_send_train hands over the event or does nothing.
LEMMA TrainSendInv ==
    ASSUME NEW ready \in BOOLEAN, NEW up \in BOOLEAN, TrainSend(ready, up)
    PROVE  /\ txfe' \in BOOLEAN /\ cts' \in BOOLEAN
           /\ EventHandle(TRAIN_TX) \/ NoEvent
BY DEF TrainSend

\* An interrupt of the UARTs, the modem or the timer is handled as an event or comes
\* to nothing.
LEMMA InterruptShape ==
    ASSUME TypeOK, InterruptStep
    PROVE  /\ mode = "user"
           /\ \E e \in Events : EventHandle(e) \/ NoEvent
           /\ txfe' \in BOOLEAN /\ cts' \in BOOLEAN /\ irqEnabled' \subseteq Events
           /\ UNCHANGED <<current, call, clearing, generation, priority, slotVars, sq>>
<1>0. TRAIN_TX \in Events /\ TRUE \in BOOLEAN
  BY DEF TRAIN_TX, Events, MaxEventId
<1>1. CASE ModemInterrupt
  <2>1. PICK up \in BOOLEAN : TrainSend(txfe, cts \/ up)
    BY <1>1 DEF ModemInterrupt
  <2>2. txfe \in BOOLEAN /\ (cts \/ up) \in BOOLEAN
    BY DEF TypeOK
  <2>3. txfe' \in BOOLEAN /\ cts' \in BOOLEAN /\ (EventHandle(TRAIN_TX) \/ NoEvent)
    BY <2>1, <2>2, TrainSendInv
  <2> QED BY <1>0, <1>1, <2>3 DEF ModemInterrupt, TypeOK
<1>2. CASE \E e \in Events : HardwareInterrupt(e)
  <2>1. PICK e \in Events : HardwareInterrupt(e)
    BY <1>2
  <2>2. irqEnabled' \subseteq Events
    BY <2>1 DEF HardwareInterrupt, InterruptClear, TypeOK
  <2>3. CASE e = TRAIN_TX
    <3>1. cts \in BOOLEAN /\ TrainSend(TRUE, cts)
      BY <2>1, <2>3 DEF HardwareInterrupt, TypeOK
    <3>2. txfe' \in BOOLEAN /\ cts' \in BOOLEAN /\ (EventHandle(TRAIN_TX) \/ NoEvent)
      BY <1>0, <3>1, TrainSendInv
    <3> QED BY <1>0, <2>1, <2>2, <3>2 DEF HardwareInterrupt
  <2>4. CASE e # TRAIN_TX
    BY <2>1, <2>2, <2>4 DEF HardwareInterrupt, TypeOK
  <2> QED BY <2>3, <2>4
<1> QED BY <1>1, <1>2 DEF InterruptStep

\* Such an interrupt, with the whole invariant.
LEMMA InterruptInv ==
    ASSUME KernelInv, InterruptStep
    PROVE  KernelInv'
<1>0. ReadyOK /\ TypeOK /\ SlotsExact /\ ControlOK /\ SlotZeroUnused
  BY InvSplit DEF RestOK
<1>1. /\ mode = "user"
      /\ \E e \in Events : EventHandle(e) \/ NoEvent
      /\ txfe' \in BOOLEAN /\ cts' \in BOOLEAN /\ irqEnabled' \subseteq Events
      /\ UNCHANGED <<current, call, clearing, generation, priority, slotVars, sq>>
  BY <1>0, InterruptShape
<1>2. PICK e \in Events : EventHandle(e) \/ NoEvent
  BY <1>1
<1>3. /\ ReadyOK'
      /\ mode' \in {"return", "panic"}
      /\ r0' \in [Slots -> Results]
      /\ state' \in [Slots -> TaskStates]
      /\ \A s \in Slots : state'[s] = "ZOMBIE" <=> state[s] = "ZOMBIE"
      /\ blockedOn' \in [Slots -> Events \cup {NotBlocked}]
      /\ registered' \in [Events -> Slots \cup {NULL}]
      /\ everRegistered' \subseteq Events
      /\ eventBlocked' \in Int
  BY <1>2, EventHandleInv
<1>4. TypeOK'
  BY <1>0, <1>1, <1>3 DEF TypeOK, ReadyOK, slotVars
<1>5. SlotsExact' /\ SlotZeroUnused' /\ ControlOK'
  BY <1>0, <1>1, <1>3, TasksAssumption
  DEF SlotsExact, SlotZeroUnused, ControlOK, slotVars, Slots
<1> QED BY <1>3, <1>4, <1>5 DEF KernelInv, ReadyOK

\* syscall_kill, whatever the tid and the state of the victim.
LEMMA SyscallKillInv ==
    ASSUME KernelInv, NEW tid \in Tids, SyscallKill(tid)
    PROVE  KernelInv'
<1> DEFINE v == SlotOf(tid)
<1>0. ReadyOK /\ TypeOK /\ SlotsExact /\ ControlOK /\ SlotZeroUnused
  BY InvSplit DEF RestOK
<1>1. /\ call' = [op |-> "Kill", arg |-> tid] /\ tid \in Int
      /\ current \in Slots /\ v \in Slots /\ UNCHANGED current
  BY <1>0, SlotOfIsSlot DEF SyscallKill, Trap, ControlOK, Tids
<1> HIDE DEF v
<1>2. CASE \E result \in {-1, -2} : Refuse(result)
  <2>1. /\ r0' \in {[r0 EXCEPT ![current] = -2], [r0 EXCEPT ![current] = -1]}
        /\ mode' = "return"
        /\ UNCHANGED <<clearing, taskVars, slotVars, readyVars, sq, eventVars, uartVars>>
    BY <1>2 DEF Refuse
  <2>2. r0' \in [Slots -> Results]
    BY <1>0, <2>1 DEF TypeOK, Results
  <2> QED BY <1>0, <1>1, <2>1, <2>2
      DEF KernelInv, TypeOK, Calls, BitmapExact, SlotsExact, ControlOK, SlotZeroUnused,
          taskVars, slotVars, readyVars, eventVars, uartVars
<1>3. CASE Crash("panic") \/ Crash("fault")
  BY <1>0, <1>1, <1>3
  DEF Crash, KernelInv, TypeOK, Calls, BitmapExact, SlotsExact, ControlOK, SlotZeroUnused,
      taskVars, slotVars, readyVars, eventVars, uartVars
<1>4. CASE state[v] # "ZOMBIE" /\ DeregisterAsserts(v) /\ KillTask(v)
  <2>1. ReadyOK'
    BY <1>0, <1>1, <1>4, DeregisterOK DEF KillTask, TypeOK
  <2>2. /\ state' = [state EXCEPT ![v] = "ZOMBIE"]
        /\ blockedOn' = [blockedOn EXCEPT ![v] = NotBlocked]
        /\ available' = IF nextGeneration[v] < MaxGeneration
                        THEN available \cup {v} ELSE available
        /\ mode' = "clear" /\ clearing' = v
        /\ r0' = [r0 EXCEPT ![v] = 0, ![current] = 0]
        /\ UNCHANGED <<generation, priority, nextGeneration, sq>>
    BY <1>4 DEF KillTask, Retire
  <2>3. /\ registered' \in [Events -> Slots \cup {NULL}]
        /\ everRegistered' \subseteq Events
        /\ eventBlocked' \in Int
        /\ irqEnabled' \subseteq Events
        /\ txfe' \in BOOLEAN /\ cts' \in BOOLEAN
    <3>1. CASE state[v] = "EVENT_BLOCKED"
      <4>1. /\ registered' = [registered EXCEPT ![blockedOn[v]] = NULL]
            /\ everRegistered' = everRegistered \ {blockedOn[v]}
            /\ eventBlocked' = eventBlocked - 1
            /\ irqEnabled' = irqEnabled \ {blockedOn[v]}
            /\ txfe' \in {~ cts, txfe} /\ cts' \in {FALSE, cts}
        BY <1>4, <3>1 DEF KillTask, DropEvent
      <4>2. (~ cts) \in BOOLEAN
        OBVIOUS
      <4>3. txfe' \in BOOLEAN /\ cts' \in BOOLEAN
        BY <1>0, <4>1, <4>2, Zenon DEF TypeOK
      <4>4. registered' \in [Events -> Slots \cup {NULL}]
        BY <1>0, <4>1 DEF TypeOK
      <4>5. everRegistered' \subseteq Events /\ irqEnabled' \subseteq Events
        BY <1>0, <4>1 DEF TypeOK
      <4>6. eventBlocked' \in Int
        BY <1>0, <4>1 DEF TypeOK
      <4> QED BY <4>3, <4>4, <4>5, <4>6
    <3>2. CASE state[v] # "EVENT_BLOCKED"
      BY <1>0, <1>4, <3>2 DEF KillTask, DropEvent, TypeOK, eventVars, uartVars
    <3> QED BY <3>1, <3>2
  <2>4. TypeOK'
    BY <1>0, <1>1, <2>1, <2>2, <2>3 DEF TypeOK, ReadyOK, Calls, TaskStates, Results
  <2>5. v # 0 /\ 0 \in Slots
    BY <1>0, <1>4, TasksAssumption DEF SlotZeroUnused, Slots
  <2>6. SlotsExact' /\ SlotZeroUnused' /\ ControlOK'
    BY <1>0, <1>1, <1>4, <2>2, <2>5 DEF TypeOK, SlotsExact, SlotZeroUnused, ControlOK
  <2> QED BY <2>1, <2>4, <2>6 DEF KernelInv, ReadyOK
<1> QED BY <1>2, <1>3, <1>4 DEF SyscallKill, v

----------------------------------------------------------------------------
\* The invariant is inductive.
LEMMA StepInv == KernelInv /\ [Next]_vars => KernelInv'
<1> SUFFICES ASSUME KernelInv, [Next]_vars PROVE KernelInv'
  OBVIOUS
<1>1. CASE KernelStep
  BY <1>1, ScheduleInv, ReturnInv, ClearSendQueueInv DEF KernelStep
<1>2. CASE UserStep
  BY <1>2, SyscallPassInv, SyscallExitInv, SyscallCreateInv, SyscallSendInv,
     SyscallReceiveInv, SyscallReplyInv, SyscallAwaitEventInv, SyscallKillInv DEF UserStep
<1>3. CASE InterruptStep
  BY <1>3, InterruptInv
<1>4. CASE UNCHANGED vars
  BY <1>4 DEF vars, taskVars, slotVars, readyVars, eventVars, uartVars, KernelInv, TypeOK,
     BitmapExact, SlotsExact, ControlOK, SlotZeroUnused
<1> QED BY <1>1, <1>2, <1>3, <1>4 DEF Next

\* The three properties below, and what they rest on, hold in every reachable
\* state of the kernel (main.c: kmain), whatever the tasks do.
THEOREM InvariantHolds == Spec => []KernelInv
<1> QED BY InitInv, StepInv, PTL DEF Spec

\* Whatever the tasks do, every variable of the kernel stays within its type; in
\* particular no generation passes the bound in task_retire.
THEOREM TypeCorrect == Spec => []TypeOK
<1>1. KernelInv => TypeOK
  BY DEF KernelInv
<1> QED BY <1>1, InvariantHolds, PTL

\* The bitmap that scheduler_next_task searches agrees with the ready queues, even
\* when tasks are removed from queues they are not on (kernel/src/multitasking/
\* scheduler.c).
THEOREM BitmapCorrect == Spec => []BitmapExact
<1>1. KernelInv => BitmapExact
  BY DEF KernelInv
<1> QED BY <1>1, InvariantHolds, PTL

\* No task slot is leaked or handed out twice (available_tids in task.c).
THEOREM SlotsCorrect == Spec => []SlotsExact
<1>1. KernelInv => SlotsExact
  BY DEF KernelInv
<1> QED BY <1>1, InvariantHolds, PTL

----------------------------------------------------------------------------
\* A task of this state was alive before, or is the next of its slot.
LivesOrIsNext ==
    \A s \in Slots : state'[s] # "ZOMBIE" =>
        \/ state[s] # "ZOMBIE" /\ generation'[s] = generation[s]
        \/ generation'[s] = nextGeneration[s]

\* Only syscall_create brings a slot to life.
LEMMA NobodyRevived ==
    ASSUME KernelInv, [Next]_vars
    PROVE  LivesOrIsNext
<1>1. /\ state \in [Slots -> TaskStates] /\ generation \in [Slots -> 0 .. MaxGeneration]
      /\ mode = "user" => current \in Slots /\ state[current] = "ACTIVE"
      /\ mode = "return" => current \in Slots
      /\ registered \in [Events -> Slots \cup {NULL}]
  BY DEF KernelInv, TypeOK, ControlOK
<1>2. CASE Schedule
  BY <1>1, <1>2 DEF Schedule, taskVars, LivesOrIsNext
<1>3. CASE Return
  BY <1>1, <1>3 DEF Return, LivesOrIsNext
<1>4. CASE ClearSendQueue
  BY <1>1, <1>4 DEF ClearSendQueue, LivesOrIsNext
<1>5. CASE SyscallPass \/ SyscallExit
  BY <1>1, <1>5 DEF SyscallPass, SyscallExit, taskVars, LivesOrIsNext
<1>6. ASSUME NEW p \in Priorities \cup {MaxPriority + 1}, SyscallCreate(p)
      PROVE  LivesOrIsNext
  <2> DEFINE s0 == CHOOSE t \in available : \A u \in available : t <= u
  <2>1. CASE UNCHANGED taskVars
    BY <2>1 DEF taskVars, LivesOrIsNext
  <2>2. CASE available # {} /\ TaskInit(s0, p)
    <3>1. PICK s \in Slots : s = s0
      BY <2>2, LowestIsAvailable, Zenon DEF KernelInv, TypeOK
    <3> HIDE DEF s0
    <3>2. /\ state' = [state EXCEPT ![s] = "RUNNABLE"]
          /\ generation' = [generation EXCEPT ![s] = nextGeneration[s]]
      BY <2>2, <3>1 DEF TaskInit
    <3> QED BY <1>1, <3>2 DEF LivesOrIsNext
  <2> QED BY <1>6, <2>1, <2>2 DEF SyscallCreate
<1>7. ASSUME NEW tid \in Tids, NEW fits \in BOOLEAN, SyscallSend(tid, fits)
      PROVE  LivesOrIsNext
  BY <1>1, <1>7 DEF SyscallSend, SendTo, Trap, LivesOrIsNext
<1>8. ASSUME NEW fits \in BOOLEAN, SyscallReceive(fits)
      PROVE  LivesOrIsNext
  <2> DEFINE sender == sq.head[current]
  <2>1. /\ generation' = generation /\ current \in Slots /\ state[current] = "ACTIVE"
        /\ \/ state' = state
           \/ state' = [state EXCEPT ![current] = "SEND_BLOCKED"]
           \/ /\ state[sender] # "ZOMBIE"
              /\ state' = [state EXCEPT ![current] = "RUNNABLE", ![sender] = "REPLY_BLOCKED"]
    BY <1>1, <1>8 DEF SyscallReceive, Trap
  <2> HIDE DEF sender
  <2> QED BY <1>1, <2>1 DEF LivesOrIsNext
<1>9. ASSUME NEW tid \in Tids, NEW fits \in BOOLEAN, SyscallReply(tid, fits)
      PROVE  LivesOrIsNext
  BY <1>1, <1>9 DEF SyscallReply, LivesOrIsNext
<1>10. ASSUME NEW e \in AwaitedEvents, SyscallAwaitEvent(e)
       PROVE  LivesOrIsNext
  BY <1>1, <1>10 DEF SyscallAwaitEvent, Trap, LivesOrIsNext
<1>11. ASSUME NEW tid \in Tids, SyscallKill(tid)
       PROVE  LivesOrIsNext
  BY <1>1, <1>11 DEF SyscallKill, KillTask, Refuse, Crash, taskVars, LivesOrIsNext
<1>12. CASE InterruptStep
  <2>1. PICK e \in Events : EventHandle(e) \/ NoEvent
    BY <1>12, InterruptShape DEF KernelInv
  <2>2. generation' = generation
    BY <1>12, InterruptShape DEF KernelInv
  <2> QED BY <1>1, <2>1, <2>2 DEF EventHandle, EventHasTask, NoEvent, LivesOrIsNext
<1>13. CASE UNCHANGED vars
  BY <1>13 DEF vars, taskVars, LivesOrIsNext
<1> QED BY <1>2, <1>3, <1>4, <1>5, <1>6, <1>7, <1>8, <1>9, <1>10, <1>11, <1>12, <1>13
        DEF Next, KernelStep, UserStep

\* A userland tid says which slot and which generation it names.
LEMMA TidParts ==
    ASSUME NEW g \in Nat, NEW s \in Slots
    PROVE  (g * MaxTasks + s) \div MaxTasks = g /\ SlotOf(g * MaxTasks + s) = s
BY DivModUnique, TasksAssumption DEF Slots, SlotOf

\* A tid that was issued and whose task is dead stays dead, for every number of slots
\* and generations, whoever exits, is killed and is created again (task_init and
\* get_userland_tid in kernel/src/tasks/task.c).
THEOREM TidsUnique == Spec => TidsNotReused
<1>1. KernelInv /\ [Next]_vars => LiveTids' \cap (IssuedTids \ LiveTids) = {}
  <2> SUFFICES ASSUME KernelInv, [Next]_vars,
                      NEW tid \in LiveTids', tid \in IssuedTids, tid \notin LiveTids
               PROVE  FALSE
    BY Zenon
  <2>1. PICK s \in Slots : state'[s] # "ZOMBIE" /\ tid = generation'[s] * MaxTasks + s
    BY DEF LiveTids, InState, UserlandTid
  <2>2. generation \in [Slots -> 0 .. MaxGeneration]
        /\ nextGeneration \in [Slots -> 0 .. MaxGeneration]
    BY DEF KernelInv, TypeOK
  <2>3. CASE state[s] # "ZOMBIE" /\ generation'[s] = generation[s]
    <3>1. s \in Slots \ InState("ZOMBIE") /\ tid = UserlandTid(s)
      BY <2>1, <2>3 DEF InState, UserlandTid
    <3> QED BY <3>1 DEF LiveTids
  <2>4. CASE generation'[s] = nextGeneration[s]
    <3>1. tid \div MaxTasks = nextGeneration[s] /\ SlotOf(tid) = s
      BY <2>1, <2>2, <2>4, TidParts, BoundsAssumption
    <3>2. tid \div MaxTasks < nextGeneration[s] /\ nextGeneration[s] \in Int
      BY <2>2, <3>1 DEF IssuedTids
    <3> QED BY <3>1, <3>2
  <2> QED BY <2>1, <2>3, <2>4, NobodyRevived DEF LivesOrIsNext
<1> QED BY <1>1, InvariantHolds, PTL DEF Spec, TidsNotReused

----------------------------------------------------------------------------
(***************************************************************************)
(* Send queues and event registrations of the kernel, for every number of  *)
(* tasks, priorities and generations and every workload, provided that no  *)
(* task is killed while it is on a send queue (syscall_kill does not take  *)
(* it off).                                                                *)
(***************************************************************************)

\* The send queues are the sequences u: they hold the tasks blocked in Send, each
\* once, and a dead task has senders only while its queue is being cleared.
SendQueuesAre(u) ==
    /\ Holds(sq, Slots, Slots, u)
    /\ \A r, s \in Slots : On(u, r, s) =>
          state[s] = "RECEIVE_BLOCKED" /\ (state[r] = "ZOMBIE" => r = clearing)
    /\ \A s \in Slots : state[s] = "RECEIVE_BLOCKED" => \E r \in Slots : On(u, r, s)

SendQueuesOK == \E u \in [Slots -> Seq(Slots)] : SendQueuesAre(u)

\* clear_send_queue has its argument only while it loops.
ClearingOK == clearing # NULL => mode = "clear"

\* A slot that was never used has no task.
LiveOK == \A s \in Slots : state[s] # "ZOMBIE" => nextGeneration[s] > 0

\* Whoever is registered waits.
EventsOK ==
    /\ EventsExact
    /\ \A e \in Events : registered[e] # NULL => state[registered[e]] = "EVENT_BLOCKED"

MessagesInv == ClearingOK /\ LiveOK /\ EventsOK /\ SendQueuesOK

----------------------------------------------------------------------------
\* The tasks in one state are finitely many.
LEMMA SlotsFinite ==
    /\ IsFiniteSet(Slots) /\ Cardinality(Slots) = MaxTasks
    /\ \A T \in SUBSET Slots : IsFiniteSet(T) /\ Cardinality(T) \in Nat
<1>1. IsFiniteSet(Slots) /\ Cardinality(Slots) = MaxTasks
  BY FS_Interval, TasksAssumption DEF Slots
<1>2. \A T \in SUBSET Slots : IsFiniteSet(T) /\ Cardinality(T) \in Nat
  BY <1>1, FS_Subset, FS_CardinalityType
<1> QED BY <1>1, <1>2

\* The registrations do not change, nor who waits for an event or is dead.
LEMMA EventsSame ==
    ASSUME KernelInv, EventsOK, LiveOK,
           UNCHANGED <<blockedOn, nextGeneration, eventVars>>,
           \A s \in Slots :
              /\ state'[s] = "EVENT_BLOCKED" <=> state[s] = "EVENT_BLOCKED"
              /\ state'[s] # "ZOMBIE" => state[s] # "ZOMBIE"
    PROVE  EventsOK' /\ LiveOK'
<1>1. LiveOK'
  BY DEF LiveOK
<1>2. InState("EVENT_BLOCKED")' = InState("EVENT_BLOCKED")
  BY DEF InState
<1>3. \A e \in Events : registered[e] # NULL => registered[e] \in Slots
  BY DEF KernelInv, TypeOK
<1>4. (eventBlocked = Cardinality(InState("EVENT_BLOCKED")))'
  BY <1>2 DEF EventsOK, EventsExact, eventVars
<1> QED BY <1>1, <1>3, <1>4 DEF EventsOK, EventsExact, eventVars

\* A task more or a task less in a set of tasks.
LEMMA OneMore ==
    ASSUME NEW T \in SUBSET Slots, NEW s \in Slots
    PROVE  /\ s \notin T => Cardinality(T \cup {s}) = Cardinality(T) + 1
           /\ s \in T => Cardinality(T \ {s}) = Cardinality(T) - 1
BY SlotsFinite, FS_AddElement, FS_RemoveElement

\* The task that waits for an event stops waiting, as the event comes or the task dies.
LEMMA WaiterGone ==
    ASSUME KernelInv, EventsOK, NEW e \in Events, NEW t \in Slots, registered[e] = t,
           NEW st, st # "EVENT_BLOCKED",
           state' = [state EXCEPT ![t] = st],
           registered' = [registered EXCEPT ![e] = NULL],
           blockedOn' = [blockedOn EXCEPT ![t] = NotBlocked],
           eventBlocked' = eventBlocked - 1, nextGeneration' = nextGeneration
    PROVE  EventsOK'
<1>1. /\ state \in [Slots -> TaskStates] /\ registered \in [Events -> Slots \cup {NULL}]
      /\ blockedOn \in [Slots -> Events \cup {NotBlocked}] /\ t # NULL
  BY NullAssumption DEF KernelInv, TypeOK
<1>2. state[t] = "EVENT_BLOCKED" /\ blockedOn[t] = e
  BY <1>1 DEF EventsOK, EventsExact
<1>3. InState("EVENT_BLOCKED")' = InState("EVENT_BLOCKED") \ {t}
  BY <1>1, <1>2 DEF InState
<1>4. Cardinality(InState("EVENT_BLOCKED") \ {t}) = Cardinality(InState("EVENT_BLOCKED")) - 1
  <2>1. InState("EVENT_BLOCKED") \in SUBSET Slots /\ t \in InState("EVENT_BLOCKED")
    BY <1>2 DEF InState
  <2> QED BY <2>1, OneMore
<1>5. (eventBlocked = Cardinality(InState("EVENT_BLOCKED")))'
  BY <1>3, <1>4 DEF EventsOK, EventsExact
<1>6. \A d \in Events : registered'[d] # NULL =>
         /\ d # e /\ registered'[d] = registered[d] /\ registered[d] # t
  BY <1>1, <1>2 DEF EventsOK, EventsExact
<1>7. \A d \in Events : registered'[d] # NULL =>
         /\ blockedOn'[registered'[d]] = d /\ state'[registered'[d]] = "EVENT_BLOCKED"
  BY <1>1, <1>6 DEF EventsOK, EventsExact
<1>8. \A s \in Slots : nextGeneration'[s] > 0 =>
         IF state'[s] = "EVENT_BLOCKED"
         THEN blockedOn'[s] # NotBlocked /\ registered'[blockedOn'[s]] = s
         ELSE blockedOn'[s] = NotBlocked
  <2> SUFFICES ASSUME NEW s \in Slots, nextGeneration[s] > 0
               PROVE  IF state'[s] = "EVENT_BLOCKED"
                      THEN blockedOn'[s] # NotBlocked /\ registered'[blockedOn'[s]] = s
                      ELSE blockedOn'[s] = NotBlocked
    OBVIOUS
  <2>1. CASE s = t
    BY <1>1, <2>1
  <2>2. CASE s # t
    <3>1. state'[s] = state[s] /\ blockedOn'[s] = blockedOn[s]
      BY <1>1, <2>2
    <3>2. CASE state[s] = "EVENT_BLOCKED"
      <4>1. blockedOn[s] # NotBlocked /\ registered[blockedOn[s]] = s /\ blockedOn[s] \in Events
        BY <1>1, <3>2 DEF EventsOK, EventsExact
      <4>2. blockedOn[s] # e /\ registered'[blockedOn[s]] = s
        BY <1>1, <2>2, <4>1
      <4> QED BY <3>1, <3>2, <4>1, <4>2
    <3>3. CASE state[s] # "EVENT_BLOCKED"
      BY <3>1, <3>3 DEF EventsOK, EventsExact
    <3> QED BY <3>2, <3>3
  <2> QED BY <2>1, <2>2
<1> QED BY <1>5, <1>7, <1>8 DEF EventsOK, EventsExact

\* A step that leaves queues and registrations alone, and moves no task into or out
\* of Send, AwaitEvent and life.
LEMMA QuietStep ==
    ASSUME KernelInv, MessagesInv,
           UNCHANGED <<sq, clearing, blockedOn, nextGeneration, eventVars>>,
           clearing # NULL => mode' = "clear",
           \A s \in Slots :
              /\ state'[s] = "RECEIVE_BLOCKED" <=> state[s] = "RECEIVE_BLOCKED"
              /\ state'[s] = "EVENT_BLOCKED" <=> state[s] = "EVENT_BLOCKED"
              /\ state'[s] = "ZOMBIE" <=> state[s] = "ZOMBIE"
    PROVE  MessagesInv'
<1>1. ClearingOK'
  BY DEF ClearingOK
<1>2. EventsOK' /\ LiveOK'
  BY EventsSame DEF MessagesInv
<1>3. SendQueuesOK'
  <2>1. PICK u \in [Slots -> Seq(Slots)] : SendQueuesAre(u)
    BY DEF MessagesInv, SendQueuesOK
  <2>2. SendQueuesAre(u)'
    BY <2>1 DEF SendQueuesAre
  <2> QED BY <2>2 DEF SendQueuesOK
<1> QED BY <1>1, <1>2, <1>3 DEF MessagesInv

\* The send queues do not change, nor who is in Send; only tasks that have no senders,
\* or are about to lose them, die.
LEMMA SendersSame ==
    ASSUME SendQueuesOK, UNCHANGED sq,
           \A s \in Slots : state'[s] = "RECEIVE_BLOCKED" <=> state[s] = "RECEIVE_BLOCKED",
           \A s \in Slots : state'[s] = "ZOMBIE" =>
              s = clearing' \/ (state[s] = "ZOMBIE" /\ s # clearing)
    PROVE  SendQueuesOK'
<1>1. PICK u \in [Slots -> Seq(Slots)] : SendQueuesAre(u)
  BY DEF SendQueuesOK
<1>2. SendQueuesAre(u)'
  BY <1>1 DEF SendQueuesAre
<1> QED BY <1>2 DEF SendQueuesOK

\* The head of a send queue is let go.
LEMMA SenderTaken ==
    ASSUME SendQueuesOK, NEW r \in Slots, ~ IsEmpty(sq, r), sq' = Dequeue(sq, r),
           clearing' = clearing, state' \in [Slots -> TaskStates],
           state'[sq.head[r]] \notin {"RECEIVE_BLOCKED", "ZOMBIE"},
           \A s \in Slots \ {sq.head[r]} :
              /\ state'[s] = "RECEIVE_BLOCKED" <=> state[s] = "RECEIVE_BLOCKED"
              /\ state'[s] = "ZOMBIE" => state[s] = "ZOMBIE"
    PROVE  SendQueuesOK'
<1> DEFINE h == sq.head[r]
<1>1. PICK u \in [Slots -> Seq(Slots)] : SendQueuesAre(u)
  BY DEF SendQueuesOK
<1>2. Holds(sq, Slots, Slots, u) /\ u[r] # << >>
  <2>1. Holds(sq, Slots, Slots, u) /\ Represents(sq, r, u[r])
    BY <1>1 DEF SendQueuesAre, Holds
  <2> QED BY <2>1 DEF Represents, IsEmpty
<1> DEFINE v == Served(u, r)
<1>3. /\ h \in Slots
      /\ Holds(Dequeue(sq, r), Slots, Slots, v)
      /\ \A j \in Slots, x \in Slots : On(v, j, x) <=> On(u, j, x) /\ x # h
  <2>1. /\ sq.head[r] \in Slots
        /\ Holds(Dequeue(sq, r), Slots, Slots, Served(u, r))
        /\ Loses(u, Served(u, r), Slots, Slots, sq.head[r])
    BY <1>2, DequeueInFamily, NullAssumption
  <2> QED BY <2>1 DEF Loses
<1>4. v \in [Slots -> Seq(Slots)]
  BY <1>3 DEF Holds
<1> HIDE DEF h
<1>5. SendQueuesAre(v)'
  <2>1. Holds(sq', Slots, Slots, v)
    BY <1>3
  <2>2. \A j, s \in Slots : On(v, j, s) =>
           state'[s] = "RECEIVE_BLOCKED" /\ (state'[j] = "ZOMBIE" => j = clearing')
    BY <1>1, <1>3 DEF SendQueuesAre, h
  <2>3. \A s \in Slots : state'[s] = "RECEIVE_BLOCKED" => \E j \in Slots : On(v, j, s)
    BY <1>1, <1>3 DEF SendQueuesAre, h
  <2> QED BY <2>1, <2>2, <2>3 DEF SendQueuesAre
<1> QED BY <1>4, <1>5 DEF SendQueuesOK

\* Whoever is on a send queue is blocked in Send, and nobody else is.
LEMMA SenderIsBlocked ==
    ASSUME SendQueuesOK, NEW r \in Slots, ~ IsEmpty(sq, r)
    PROVE  sq.head[r] \in Slots /\ state[sq.head[r]] = "RECEIVE_BLOCKED"
<1>1. PICK u \in [Slots -> Seq(Slots)] : SendQueuesAre(u)
  BY DEF SendQueuesOK
<1>2. Holds(sq, Slots, Slots, u) /\ u[r] # << >>
  <2>1. Holds(sq, Slots, Slots, u) /\ Represents(sq, r, u[r])
    BY <1>1 DEF SendQueuesAre, Holds
  <2> QED BY <2>1 DEF Represents, IsEmpty
<1>3. sq.head[r] \in Slots /\ On(u, r, sq.head[r])
  BY <1>2, DequeueInFamily, NullAssumption
<1> QED BY <1>1, <1>3 DEF SendQueuesAre

\* A task that is dead has no senders, but while its queue is being cleared.
LEMMA DeadHasNoSenders ==
    ASSUME KernelInv, MessagesInv, clearing = NULL, NEW s \in Slots, state[s] = "ZOMBIE"
    PROVE  sq.head[s] = NULL
<1>1. PICK u \in [Slots -> Seq(Slots)] : SendQueuesAre(u)
  BY DEF MessagesInv, SendQueuesOK
<1>2. \A t \in Slots : ~ On(u, s, t)
  BY <1>1, NullAssumption DEF SendQueuesAre
<1>3. u[s] \in Seq(Slots) /\ Represents(sq, s, u[s]) /\ sq \in Families(Slots, Slots)
  BY <1>1 DEF SendQueuesAre, Holds
<1>4. u[s] = << >>
  <2>1. /\ Len(u[s]) \in Nat /\ \A k \in 1 .. Len(u[s]) : u[s][k] \in Slots
        /\ u[s] = << >> <=> Len(u[s]) = 0
    BY <1>3, RingFacts, NullAssumption
  <2>2. ~ (1 \in 1 .. Len(u[s]))
    BY <1>2, <2>1 DEF On
  <2> QED BY <2>1, <2>2
<1> QED BY <1>3, <1>4 DEF Represents

----------------------------------------------------------------------------
(* One lemma per action. *)

\* The kernel starts with empty send queues and nobody registered.
LEMMA InitMessages == Init => MessagesInv
<1> SUFFICES ASSUME Init PROVE MessagesInv
  OBVIOUS
<1>0. FirstTask \in Slots
  BY TasksAssumption DEF FirstTask, Slots
<1>1. ClearingOK /\ LiveOK
  BY DEF Init, ClearingOK, LiveOK
<1>2. EventsOK
  <2>1. InState("EVENT_BLOCKED") = {}
    BY DEF Init, InState
  <2>2. Cardinality(InState("EVENT_BLOCKED")) = 0
    BY <2>1, FS_EmptySet
  <2>3. \A s \in Slots : nextGeneration[s] > 0 => state[s] # "EVENT_BLOCKED" /\ blockedOn[s] = NotBlocked
    BY DEF Init
  <2>4. eventBlocked = 0 /\ \A e \in Events : registered[e] = NULL
    BY DEF Init
  <2> QED BY <2>2, <2>3, <2>4 DEF EventsOK, EventsExact
<1>3. SendQueuesOK
  <2> DEFINE u == [r \in Slots |-> << >>]
  <2>1. u \in [Slots -> Seq(Slots)] /\ \A r \in Slots : u[r] = << >> /\ Len(u[r]) = 0
    BY EmptySeq
  <2> HIDE DEF u
  <2>2. \A r, s \in Slots : ~ On(u, r, s)
    BY <2>1 DEF On
  <2>3. Holds(sq, Slots, Slots, u)
    <3>1. sq \in Families(Slots, Slots) /\ \A r \in Slots : sq.head[r] = NULL
      BY DEF Init, NoQueues, Families
    <3> QED BY <2>1, <2>2, <3>1 DEF Holds, Represents
  <2>4. \A s \in Slots : state[s] # "RECEIVE_BLOCKED"
    BY DEF Init
  <2> QED BY <2>1, <2>2, <2>3, <2>4 DEF SendQueuesOK, SendQueuesAre
<1> QED BY <1>1, <1>2, <1>3 DEF MessagesInv

\* schedule() and the return to it move no task but between ready and active.
LEMMA LoopMessages ==
    ASSUME KernelInv, MessagesInv, Schedule \/ Return
    PROVE  MessagesInv'
<1>1. clearing = NULL
  BY DEF MessagesInv, ClearingOK, Schedule, Return
<1>2. UNCHANGED <<sq, clearing, blockedOn, nextGeneration, eventVars>>
  BY DEF Schedule, Return, taskVars, slotVars
<1>3. \A s \in Slots :
         /\ state'[s] = "RECEIVE_BLOCKED" <=> state[s] = "RECEIVE_BLOCKED"
         /\ state'[s] = "EVENT_BLOCKED" <=> state[s] = "EVENT_BLOCKED"
         /\ state'[s] = "ZOMBIE" <=> state[s] = "ZOMBIE"
  BY DEF KernelInv, TypeOK, Schedule, Return, taskVars
<1> QED BY <1>1, <1>2, <1>3, QuietStep

\* clear_send_queue lets the senders go one by one, and ends with the queue empty.
LEMMA ClearMessages ==
    ASSUME KernelInv, KernelInv', MessagesInv, ClearSendQueue
    PROVE  MessagesInv'
<1> DEFINE sender == sq.head[clearing]
<1>0. clearing \in Slots /\ mode = "clear"
  BY DEF KernelInv, ControlOK, ClearSendQueue
<1>1. UNCHANGED <<blockedOn, nextGeneration, eventVars>>
  BY DEF ClearSendQueue, slotVars
<1>2. CASE IsEmpty(sq, clearing)
  <2>1. /\ clearing' = NULL /\ UNCHANGED <<state, sq>>
    BY <1>2 DEF ClearSendQueue, Dequeue
  <2>2. ClearingOK' /\ EventsOK' /\ LiveOK'
    BY <1>1, <2>1, EventsSame DEF ClearingOK, MessagesInv
  <2>3. PICK u \in [Slots -> Seq(Slots)] : SendQueuesAre(u)
    BY DEF MessagesInv, SendQueuesOK
  <2>4. \A s \in Slots : ~ On(u, clearing, s)
    <3>1. u[clearing] \in Seq(Slots) /\ Represents(sq, clearing, u[clearing])
          /\ sq \in Families(Slots, Slots)
      BY <1>0, <2>3 DEF SendQueuesAre, Holds
    <3>2. Len(u[clearing]) = 0
      BY <1>0, <1>2, <3>1, RingFacts, NullAssumption
    <3> QED BY <3>2 DEF On
  <2>5. SendQueuesAre(u)'
    BY <2>1, <2>3, <2>4 DEF SendQueuesAre
  <2> QED BY <2>2, <2>5 DEF MessagesInv, SendQueuesOK
<1>3. CASE ~ IsEmpty(sq, clearing)
  <2>1. sender \in Slots /\ state[sender] = "RECEIVE_BLOCKED"
    BY <1>0, <1>3, SenderIsBlocked DEF MessagesInv
  <2>2. /\ clearing' = clearing /\ mode' = "clear" /\ sq' = Dequeue(sq, clearing)
        /\ state' = [state EXCEPT ![sender] = "RUNNABLE"]
    BY <1>3, <2>1 DEF ClearSendQueue
  <2>3. state \in [Slots -> TaskStates] /\ state' \in [Slots -> TaskStates]
    BY DEF KernelInv, TypeOK
  <2>4. ClearingOK' /\ EventsOK' /\ LiveOK'
    BY <1>1, <2>1, <2>2, <2>3, EventsSame DEF ClearingOK, MessagesInv
  <2>5. SendQueuesOK'
    BY <1>0, <1>3, <2>1, <2>2, <2>3, SenderTaken DEF MessagesInv
  <2> QED BY <2>4, <2>5 DEF MessagesInv
<1> QED BY <1>2, <1>3

\* Pass.
LEMMA PassMessages ==
    ASSUME KernelInv, MessagesInv, SyscallPass
    PROVE  MessagesInv'
<1>1. clearing = NULL
  BY DEF MessagesInv, ClearingOK, SyscallPass, Trap
<1>2. UNCHANGED <<state, sq, clearing, blockedOn, nextGeneration, eventVars>>
  BY DEF SyscallPass, taskVars, slotVars
<1> QED BY <1>1, <1>2, QuietStep

\* Exit: the caller is on no send queue, and its own is about to be cleared.
LEMMA ExitMessages ==
    ASSUME KernelInv, MessagesInv, SyscallExit
    PROVE  MessagesInv'
<1>1. /\ current \in Slots /\ state[current] = "ACTIVE" /\ clearing = NULL
      /\ state \in [Slots -> TaskStates]
  BY DEF KernelInv, TypeOK, ControlOK, MessagesInv, ClearingOK, SyscallExit, Trap
<1>2. /\ state' = [state EXCEPT ![current] = "ZOMBIE"]
      /\ mode' = "clear" /\ clearing' = current
      /\ UNCHANGED <<sq, blockedOn, nextGeneration, eventVars>>
  BY DEF SyscallExit
<1>3. ClearingOK' /\ EventsOK' /\ LiveOK'
  BY <1>1, <1>2, EventsSame DEF ClearingOK, MessagesInv
<1>4. PICK u \in [Slots -> Seq(Slots)] : SendQueuesAre(u)
  BY DEF MessagesInv, SendQueuesOK
<1>5. SendQueuesAre(u)'
  BY <1>1, <1>2, <1>4, NullAssumption DEF SendQueuesAre
<1> QED BY <1>3, <1>5 DEF MessagesInv, SendQueuesOK

\* Create: the slot that is taken has no senders and no registration left from its
\* last task.
LEMMA CreateMessages ==
    ASSUME KernelInv, KernelInv', MessagesInv, NEW p \in Priorities \cup {MaxPriority + 1},
           SyscallCreate(p)
    PROVE  MessagesInv'
<1> DEFINE s == CHOOSE t \in available : \A u \in available : t <= u
<1>1. clearing = NULL /\ UNCHANGED <<clearing, eventVars>>
  BY DEF MessagesInv, ClearingOK, SyscallCreate, Trap
<1>2. CASE UNCHANGED <<taskVars, slotVars, sq>>
  BY <1>1, <1>2, QuietStep DEF taskVars, slotVars
<1>3. CASE available # {} /\ TaskInit(s, p)
  <2>1. s \in available
    BY <1>3, LowestIsAvailable, Zenon DEF KernelInv, TypeOK
  <2> HIDE DEF s
  <2>2. s \in Slots /\ state[s] = "ZOMBIE"
    BY <2>1 DEF KernelInv, TypeOK, SlotsExact, SlotZeroUnused
  <2>3. /\ state' = [state EXCEPT ![s] = "RUNNABLE"]
        /\ blockedOn' = [blockedOn EXCEPT ![s] = NotBlocked]
        /\ nextGeneration' = [nextGeneration EXCEPT ![s] = @ + 1]
        /\ sq' = [sq EXCEPT !.head[s] = NULL]
    BY <1>3 DEF TaskInit
  <2>4. /\ state \in [Slots -> TaskStates] /\ nextGeneration \in [Slots -> 0 .. MaxGeneration]
        /\ blockedOn \in [Slots -> Events \cup {NotBlocked}]
        /\ registered \in [Events -> Slots \cup {NULL}]
        /\ sq \in Families(Slots, Slots)
    BY DEF KernelInv, TypeOK
  <2>5. LiveOK' /\ ClearingOK'
    BY <1>1, <2>2, <2>3, <2>4, BoundsAssumption DEF MessagesInv, LiveOK, ClearingOK
  <2>6. EventsOK'
    <3>1. InState("EVENT_BLOCKED")' = InState("EVENT_BLOCKED")
      BY <2>2, <2>3, <2>4 DEF InState
    <3>2. (eventBlocked = Cardinality(InState("EVENT_BLOCKED")))'
      BY <1>1, <3>1 DEF MessagesInv, EventsOK, EventsExact, eventVars
    <3>3. \A e \in Events : registered[e] # NULL =>
             registered[e] \in Slots /\ registered[e] # s
      BY <2>2, <2>4 DEF MessagesInv, EventsOK
    <3>4. \A t \in Slots \ {s} :
             state'[t] = state[t] /\ blockedOn'[t] = blockedOn[t]
             /\ nextGeneration'[t] = nextGeneration[t]
      BY <2>3, <2>4
    <3>5. state'[s] = "RUNNABLE" /\ blockedOn'[s] = NotBlocked /\ registered' = registered
      BY <1>1, <2>2, <2>3, <2>4 DEF eventVars
    <3> QED BY <3>2, <3>3, <3>4, <3>5 DEF MessagesInv, EventsOK, EventsExact
  <2>7. PICK u \in [Slots -> Seq(Slots)] : SendQueuesAre(u)
    BY DEF MessagesInv, SendQueuesOK
  <2>8. sq' = sq
    <3>1. sq.head[s] = NULL
      BY <1>1, <2>2, DeadHasNoSenders
    <3> QED BY <2>3, <2>4, <3>1 DEF Families
  <2>9. SendQueuesAre(u)'
    BY <1>1, <2>2, <2>3, <2>4, <2>7, <2>8 DEF SendQueuesAre
  <2> QED BY <2>5, <2>6, <2>9 DEF MessagesInv, SendQueuesOK
<1> QED BY <1>2, <1>3 DEF SyscallCreate

\* Send: refused, taken by a receiver that waits, or put on the receiver's queue.
LEMMA SendMessages ==
    ASSUME KernelInv, KernelInv', MessagesInv, NEW tid \in Tids, NEW fits \in BOOLEAN,
           SyscallSend(tid, fits)
    PROVE  MessagesInv'
<1> DEFINE r == SlotOf(tid)
<1>1. /\ current \in Slots /\ state[current] = "ACTIVE" /\ clearing = NULL /\ r \in Slots
      /\ mode' = "return" /\ state \in [Slots -> TaskStates]
      /\ UNCHANGED <<clearing, blockedOn, nextGeneration, eventVars>>
  BY SlotOfIsSlot
  DEF KernelInv, TypeOK, ControlOK, MessagesInv, ClearingOK, SyscallSend, Trap, Tids, slotVars
<1> HIDE DEF r
<1>2. CASE UNCHANGED <<state, sq>>
  BY <1>1, <1>2, QuietStep
<1>3. CASE /\ state[r] = "SEND_BLOCKED" /\ UNCHANGED sq
           /\ state' = [state EXCEPT ![current] = "REPLY_BLOCKED", ![r] = "RUNNABLE"]
  <2>1. \A s \in Slots :
           /\ state'[s] = "RECEIVE_BLOCKED" <=> state[s] = "RECEIVE_BLOCKED"
           /\ state'[s] = "EVENT_BLOCKED" <=> state[s] = "EVENT_BLOCKED"
           /\ state'[s] = "ZOMBIE" <=> state[s] = "ZOMBIE"
    BY <1>1, <1>3
  <2> QED BY <1>1, <1>3, <2>1, QuietStep
<1>4. CASE /\ state[r] # "ZOMBIE" /\ sq' = Enqueue(sq, r, current)
           /\ state' = [state EXCEPT ![current] = "RECEIVE_BLOCKED"]
  <2>1. ClearingOK' /\ EventsOK' /\ LiveOK'
    BY <1>1, <1>4, EventsSame DEF ClearingOK, MessagesInv
  <2>2. PICK u \in [Slots -> Seq(Slots)] : SendQueuesAre(u)
    BY DEF MessagesInv, SendQueuesOK
  <2>3. PICK v \in [Slots -> Seq(Slots)] :
           Holds(sq', Slots, Slots, v) /\ Gains(u, v, Slots, Slots, r, current)
    <3>1. Holds(sq, Slots, Slots, u) /\ \A j \in Slots : ~ On(u, j, current)
      BY <1>1, <2>2 DEF SendQueuesAre
    <3>2. /\ Holds(Enqueue(sq, r, current), Slots, Slots, Joined(u, r, current))
          /\ Gains(u, Joined(u, r, current), Slots, Slots, r, current)
      BY <1>1, <3>1, EnqueueInFamily, NullAssumption
    <3>3. Joined(u, r, current) \in [Slots -> Seq(Slots)]
      BY <3>2 DEF Holds
    <3> QED BY <1>4, <3>2, <3>3
  <2>5. SendQueuesAre(v)'
    <3>1. \A j, s \in Slots : On(v, j, s) =>
             state'[s] = "RECEIVE_BLOCKED" /\ (state'[j] = "ZOMBIE" => j = clearing')
      BY <1>1, <1>4, <2>2, <2>3 DEF SendQueuesAre, Gains
    <3>2. \A s \in Slots : state'[s] = "RECEIVE_BLOCKED" => \E j \in Slots : On(v, j, s)
      BY <1>1, <1>4, <2>2, <2>3 DEF SendQueuesAre, Gains
    <3> QED BY <2>3, <3>1, <3>2 DEF SendQueuesAre
  <2> QED BY <2>1, <2>5 DEF MessagesInv, SendQueuesOK
<1> QED BY <1>2, <1>3, <1>4 DEF SyscallSend, SendTo, r

\* Receive: the caller waits, or takes the first sender off its queue.
LEMMA ReceiveMessages ==
    ASSUME KernelInv, KernelInv', MessagesInv, NEW fits \in BOOLEAN, SyscallReceive(fits)
    PROVE  MessagesInv'
<1> DEFINE sender == sq.head[current]
<1>1. /\ current \in Slots /\ state[current] = "ACTIVE" /\ clearing = NULL
      /\ state \in [Slots -> TaskStates] /\ state' \in [Slots -> TaskStates]
      /\ UNCHANGED <<clearing, blockedOn, nextGeneration, eventVars>>
  BY DEF KernelInv, TypeOK, ControlOK, MessagesInv, ClearingOK, SyscallReceive, Trap, slotVars
<1>2. CASE IsEmpty(sq, current)
  <2>1. state' = [state EXCEPT ![current] = "SEND_BLOCKED"] /\ UNCHANGED sq
    BY <1>2 DEF SyscallReceive
  <2> QED BY <1>1, <2>1, QuietStep
<1>3. CASE ~ IsEmpty(sq, current)
  <2>1. sender \in Slots /\ state[sender] = "RECEIVE_BLOCKED"
    BY <1>1, <1>3, SenderIsBlocked DEF MessagesInv
  <2>2. /\ sq' = Dequeue(sq, current)
        /\ state' = [state EXCEPT ![current] = "RUNNABLE", ![sender] = "REPLY_BLOCKED"]
    BY <1>3, <2>1 DEF SyscallReceive, TakeSender
  <2>3. state'[sender] = "REPLY_BLOCKED"
    BY <1>1, <2>1, <2>2
  <2>4. \A s \in Slots \ {sender} :
           /\ state'[s] = "RECEIVE_BLOCKED" <=> state[s] = "RECEIVE_BLOCKED"
           /\ state'[s] = "EVENT_BLOCKED" <=> state[s] = "EVENT_BLOCKED"
           /\ state'[s] = "ZOMBIE" <=> state[s] = "ZOMBIE"
    BY <1>1, <2>1, <2>2
  <2>5. ClearingOK' /\ EventsOK' /\ LiveOK'
    BY <1>1, <2>1, <2>3, <2>4, EventsSame DEF ClearingOK, MessagesInv
  <2>6. SendQueuesOK'
    BY <1>1, <1>3, <2>2, <2>3, <2>4, SenderTaken DEF MessagesInv
  <2> QED BY <2>5, <2>6 DEF MessagesInv
<1> QED BY <1>2, <1>3

\* Reply lets a task go that is on no queue.
LEMMA ReplyMessages ==
    ASSUME KernelInv, MessagesInv, NEW tid \in Tids, NEW fits \in BOOLEAN,
           SyscallReply(tid, fits)
    PROVE  MessagesInv'
<1>1. /\ clearing = NULL /\ state \in [Slots -> TaskStates]
      /\ UNCHANGED <<sq, clearing, blockedOn, nextGeneration, eventVars>>
  BY DEF KernelInv, TypeOK, MessagesInv, ClearingOK, SyscallReply, Trap, slotVars
<1>2. \/ UNCHANGED state
      \/ /\ state[SlotOf(tid)] = "REPLY_BLOCKED"
         /\ state' = [state EXCEPT ![SlotOf(tid)] = "RUNNABLE"]
  BY DEF SyscallReply
<1>3. \A s \in Slots :
         /\ state'[s] = "RECEIVE_BLOCKED" <=> state[s] = "RECEIVE_BLOCKED"
         /\ state'[s] = "EVENT_BLOCKED" <=> state[s] = "EVENT_BLOCKED"
         /\ state'[s] = "ZOMBIE" <=> state[s] = "ZOMBIE"
  BY <1>1, <1>2
<1> QED BY <1>1, <1>3, QuietStep

\* AwaitEvent registers the caller for an event nobody waits for.
LEMMA AwaitMessages ==
    ASSUME KernelInv, MessagesInv, NEW e \in AwaitedEvents, SyscallAwaitEvent(e)
    PROVE  MessagesInv'
<1>1. /\ current \in Slots /\ state[current] = "ACTIVE" /\ clearing = NULL
      /\ state \in [Slots -> TaskStates] /\ registered \in [Events -> Slots \cup {NULL}]
      /\ blockedOn \in [Slots -> Events \cup {NotBlocked}] /\ current # NULL
      /\ UNCHANGED <<clearing, sq, nextGeneration>>
  BY NullAssumption
  DEF KernelInv, TypeOK, ControlOK, MessagesInv, ClearingOK, SyscallAwaitEvent, Trap, slotVars
<1>2. CASE UNCHANGED <<state, blockedOn, eventVars>>
  BY <1>1, <1>2, QuietStep
<1>3. CASE /\ e \in Events /\ ~ EventHasTask(e)
           /\ registered' = [registered EXCEPT ![e] = current]
           /\ blockedOn' = [blockedOn EXCEPT ![current] = e]
           /\ state' = [state EXCEPT ![current] = "EVENT_BLOCKED"]
           /\ eventBlocked' = eventBlocked + 1
  <2>1. ClearingOK' /\ LiveOK'
    BY <1>1, <1>3 DEF ClearingOK, LiveOK, MessagesInv
  <2>2. SendQueuesOK'
    BY <1>1, <1>3, SendersSame, NullAssumption DEF MessagesInv
  <2>3. registered[e] = NULL
    BY <1>3 DEF MessagesInv, EventsOK, EventHasTask
  <2>4. (eventBlocked = Cardinality(InState("EVENT_BLOCKED")))'
    <3>1. InState("EVENT_BLOCKED")' = InState("EVENT_BLOCKED") \cup {current}
      BY <1>1, <1>3 DEF InState
    <3>2. InState("EVENT_BLOCKED") \in SUBSET Slots /\ current \notin InState("EVENT_BLOCKED")
      BY <1>1 DEF InState
    <3>3. Cardinality(InState("EVENT_BLOCKED") \cup {current})
            = Cardinality(InState("EVENT_BLOCKED")) + 1
      BY <1>1, <3>2, OneMore
    <3> QED BY <1>3, <3>1, <3>3 DEF MessagesInv, EventsOK, EventsExact
  <2>5. \A d \in Events : registered'[d] # NULL =>
           blockedOn'[registered'[d]] = d /\ state'[registered'[d]] = "EVENT_BLOCKED"
    BY <1>1, <1>3 DEF MessagesInv, EventsOK, EventsExact
  <2>6. \A s \in Slots : nextGeneration'[s] > 0 =>
           IF state'[s] = "EVENT_BLOCKED"
           THEN blockedOn'[s] # NotBlocked /\ registered'[blockedOn'[s]] = s
           ELSE blockedOn'[s] = NotBlocked
    <3> SUFFICES ASSUME NEW s \in Slots, nextGeneration[s] > 0
                 PROVE  IF state'[s] = "EVENT_BLOCKED"
                        THEN blockedOn'[s] # NotBlocked /\ registered'[blockedOn'[s]] = s
                        ELSE blockedOn'[s] = NotBlocked
      BY <1>1
    <3>1. CASE s = current
      <4>1. e # NotBlocked
        BY <1>3 DEF Events, NotBlocked
      <4> QED BY <1>1, <1>3, <3>1, <4>1
    <3>2. CASE s # current
      <4>1. state'[s] = state[s] /\ blockedOn'[s] = blockedOn[s]
        BY <1>1, <1>3, <3>2
      <4>2. CASE state[s] = "EVENT_BLOCKED"
        <5>1. blockedOn[s] # NotBlocked /\ registered[blockedOn[s]] = s
          BY <4>2 DEF MessagesInv, EventsOK, EventsExact
        <5>2. blockedOn[s] \in Events /\ blockedOn[s] # e
          BY <1>1, <2>3, <5>1, NullAssumption
        <5> QED BY <1>1, <1>3, <4>1, <4>2, <5>1, <5>2
      <4>3. CASE state[s] # "EVENT_BLOCKED"
        BY <4>1, <4>3 DEF MessagesInv, EventsOK, EventsExact
      <4> QED BY <4>2, <4>3
    <3> QED BY <3>1, <3>2
  <2>7. EventsOK'
    BY <2>4, <2>5, <2>6 DEF EventsOK, EventsExact
  <2> QED BY <2>1, <2>2, <2>7 DEF MessagesInv
<1> QED BY <1>2, <1>3 DEF SyscallAwaitEvent

\* An interrupt wakes the task that waits for it, if there is one.
LEMMA InterruptMessages ==
    ASSUME KernelInv, MessagesInv, InterruptStep
    PROVE  MessagesInv'
<1>1. PICK e \in Events : EventHandle(e) \/ NoEvent
  BY InterruptShape DEF KernelInv
<1>2. /\ clearing = NULL /\ state \in [Slots -> TaskStates]
      /\ registered \in [Events -> Slots \cup {NULL}]
      /\ UNCHANGED <<clearing, sq, nextGeneration>>
  BY InterruptShape DEF KernelInv, TypeOK, MessagesInv, ClearingOK, slotVars
<1>3. CASE UNCHANGED <<state, blockedOn, eventVars>>
  BY <1>2, <1>3, QuietStep
<1>4. CASE EventHandle(e) /\ EventHasTask(e)
  <2> DEFINE t == registered[e]
  <2>1. t \in Slots /\ state[t] = "EVENT_BLOCKED"
    BY <1>2, <1>4 DEF EventHasTask
  <2>2. /\ state' = [state EXCEPT ![t] = "RUNNABLE"]
        /\ registered' = [registered EXCEPT ![e] = NULL]
        /\ blockedOn' = [blockedOn EXCEPT ![t] = NotBlocked]
        /\ eventBlocked' = eventBlocked - 1
    BY <1>4 DEF EventHandle
  <2>3. ClearingOK' /\ LiveOK'
    BY <1>2, <2>1, <2>2 DEF ClearingOK, LiveOK, MessagesInv
  <2>4. SendQueuesOK'
    BY <1>2, <2>1, <2>2, SendersSame, NullAssumption DEF MessagesInv
  <2>5. EventsOK'
    BY <1>2, <2>1, <2>2, WaiterGone DEF MessagesInv
  <2> QED BY <2>3, <2>4, <2>5 DEF MessagesInv
<1> QED BY <1>1, <1>3, <1>4 DEF EventHandle, NoEvent

\* Kill, of a task that is not itself on a send queue.
LEMMA KillMessages ==
    ASSUME "RECEIVE_BLOCKED" \notin KillStates,
           KernelInv, MessagesInv, NEW tid \in Tids, SyscallKill(tid)
    PROVE  MessagesInv'
<1> DEFINE v == SlotOf(tid)
<1>1. /\ clearing = NULL /\ state \in [Slots -> TaskStates] /\ v \in Slots
      /\ blockedOn \in [Slots -> Events \cup {NotBlocked}]
  BY SlotOfIsSlot DEF KernelInv, TypeOK, MessagesInv, ClearingOK, SyscallKill, Trap, Tids
<1> HIDE DEF v
<1>2. CASE UNCHANGED <<clearing, taskVars, slotVars, sq, eventVars>>
  BY <1>1, <1>2, QuietStep DEF taskVars, slotVars
<1>3. CASE /\ state[v] \in KillStates /\ state[v] # "ZOMBIE"
           /\ DeregisterAsserts(v) /\ KillTask(v)
  <2>1. /\ state' = [state EXCEPT ![v] = "ZOMBIE"]
        /\ blockedOn' = [blockedOn EXCEPT ![v] = NotBlocked]
        /\ mode' = "clear" /\ clearing' = v /\ DropEvent(v)
        /\ UNCHANGED <<nextGeneration, sq>>
    BY <1>3 DEF KillTask
  <2>2. state[v] # "RECEIVE_BLOCKED"
    BY <1>3
  <2>3. ClearingOK' /\ LiveOK'
    BY <1>1, <2>1 DEF ClearingOK, LiveOK, MessagesInv
  <2>4. SendQueuesOK'
    BY <1>1, <2>1, <2>2, SendersSame, NullAssumption DEF MessagesInv
  <2>5. EventsOK'
    <3>1. CASE state[v] = "EVENT_BLOCKED"
      <4>1. blockedOn[v] \in Events /\ registered[blockedOn[v]] = v
        BY <1>1, <1>3, <3>1 DEF DeregisterAsserts
      <4>2. /\ registered' = [registered EXCEPT ![blockedOn[v]] = NULL]
            /\ eventBlocked' = eventBlocked - 1
        BY <2>1, <3>1 DEF DropEvent
      <4> QED BY <1>1, <2>1, <4>1, <4>2, WaiterGone DEF MessagesInv
    <3>2. CASE state[v] # "EVENT_BLOCKED"
      <4>1. UNCHANGED <<blockedOn, eventVars>>
        BY <1>1, <1>3, <2>1, <3>2 DEF DropEvent, DeregisterAsserts
      <4> QED BY <1>1, <2>1, <3>2, <4>1, EventsSame DEF MessagesInv
    <3> QED BY <3>1, <3>2
  <2> QED BY <2>3, <2>4, <2>5 DEF MessagesInv
<1> QED BY <1>2, <1>3 DEF SyscallKill, Refuse, Crash, v

----------------------------------------------------------------------------
\* Together with KernelInv the invariant is inductive.
LEMMA StepMessages ==
    ASSUME "RECEIVE_BLOCKED" \notin KillStates, KernelInv, KernelInv', MessagesInv,
           [Next]_vars
    PROVE  MessagesInv'
<1>1. CASE KernelStep
  BY <1>1, LoopMessages, ClearMessages DEF KernelStep
<1>2. CASE UserStep
  BY <1>2, PassMessages, ExitMessages, CreateMessages, SendMessages, ReceiveMessages,
     ReplyMessages, AwaitMessages, KillMessages DEF UserStep
<1>3. CASE InterruptStep
  BY <1>3, InterruptMessages
<1>4. CASE UNCHANGED vars
  BY <1>4, QuietStep DEF vars, taskVars, slotVars, eventVars, MessagesInv, ClearingOK
<1> QED BY <1>1, <1>2, <1>3, <1>4 DEF Next

\* It holds in every state the kernel reaches.
THEOREM MessagesHold ==
    ASSUME "RECEIVE_BLOCKED" \notin KillStates
    PROVE  Spec => []MessagesInv
<1>1. KernelInv /\ KernelInv' /\ MessagesInv /\ [Next]_vars => MessagesInv'
  BY StepMessages
<1> QED BY <1>1, InitMessages, InvariantHolds, PTL DEF Spec

\* Who waits for an event is registered for it, and the counter that schedule() stops
\* by is their number (kernel/src/events.c), unless tasks in Send are killed.
THEOREM EventsCorrect ==
    ASSUME "RECEIVE_BLOCKED" \notin KillStates
    PROVE  Spec => []EventsExact
<1>1. MessagesInv => EventsExact
  BY DEF MessagesInv, EventsOK
<1> QED BY <1>1, MessagesHold, PTL

\* The walk of SendQueue and ReadyQueue finds the sequences.
LEMMA FamilyContents ==
    ASSUME NEW Queues, NEW q, NEW u, Holds(q, Queues, Slots, u), NEW r \in Queues
    PROVE  Contents(q, r, MaxTasks) = u[r]
<1>1. /\ q \in Families(Queues, Slots) /\ u[r] \in Seq(Slots) /\ Represents(q, r, u[r])
      /\ MaxTasks \in Nat
  BY TasksAssumption DEF Holds
<1>2. \A j, k \in 1 .. Len(u[r]) : u[r][j] = u[r][k] => j = k
  <2>1. CASE u[r] = << >>
    BY <2>1
  <2>2. CASE u[r] # << >>
    BY <1>1, <2>2 DEF Represents
  <2> QED BY <2>1, <2>2
<1>3. Len(u[r]) <= MaxTasks
  BY <1>1, <1>2, QueueLengthBound, SlotsFinite
<1> QED BY <1>1, <1>3, ContentsAre, NullAssumption

\* The links in the descriptors agree with the sequences, and the walk of SendQueue
\* finds them.
LEMMA SendQueuesFound == KernelInv /\ MessagesInv => SendQueuesExact
<1> SUFFICES ASSUME KernelInv, MessagesInv PROVE SendQueuesExact
  OBVIOUS
<1>1. PICK u \in [Slots -> Seq(Slots)] : SendQueuesAre(u)
  BY DEF MessagesInv, SendQueuesOK
<1>2. \A r \in Slots : Represents(sq, r, u[r]) /\ SendQueue(r) = u[r]
  BY <1>1, FamilyContents DEF SendQueuesAre, Holds, SendQueue
<1>3. \A r, s \in Slots : s \in Members(SendQueue(r)) <=> On(u, r, s)
  <2> SUFFICES ASSUME NEW r \in Slots, NEW s \in Slots
               PROVE  s \in Members(u[r]) <=> On(u, r, s)
    BY <1>2
  <2>1. DOMAIN u[r] = 1 .. Len(u[r])
    BY LenProperties
  <2> QED BY <2>1 DEF Members, On
<1>4. \A r \in Slots : SendQueue(r) # << >> => state[r] # "ZOMBIE" \/ r = clearing
  <2> SUFFICES ASSUME NEW r \in Slots, u[r] # << >>
               PROVE  state[r] # "ZOMBIE" \/ r = clearing
    BY <1>2
  <2>1. Len(u[r]) \in Nat /\ Len(u[r]) # 0
    BY LenProperties, EmptyIffLenZero
  <2>2. 1 \in 1 .. Len(u[r])
    BY <2>1
  <2>3. u[r][1] \in Slots /\ On(u, r, u[r][1])
    BY <2>2, ElementOfSeq DEF On
  <2> QED BY <1>1, <2>3 DEF SendQueuesAre
<1>5. \A s \in Slots :
         Cardinality({r \in Slots : s \in Members(SendQueue(r))})
            = IF state[s] = "RECEIVE_BLOCKED" THEN 1 ELSE 0
  <2> SUFFICES ASSUME NEW s \in Slots
               PROVE  Cardinality({r \in Slots : On(u, r, s)})
                         = IF state[s] = "RECEIVE_BLOCKED" THEN 1 ELSE 0
    <3>1. \A s \in Slots :
             {r \in Slots : s \in Members(SendQueue(r))} = {r \in Slots : On(u, r, s)}
      BY <1>3
    <3> QED BY <3>1
  <2>1. CASE state[s] = "RECEIVE_BLOCKED"
    <3>1. PICK r \in Slots : On(u, r, s)
      BY <1>1, <2>1 DEF SendQueuesAre
    <3>2. {q \in Slots : On(u, q, s)} = {r}
      BY <1>1, <3>1 DEF SendQueuesAre, Holds
    <3> QED BY <2>1, <3>2, FS_Singleton
  <2>2. CASE state[s] # "RECEIVE_BLOCKED"
    <3>1. {q \in Slots : On(u, q, s)} = {}
      BY <1>1, <2>2 DEF SendQueuesAre
    <3> QED BY <2>2, <3>1, FS_EmptySet
  <2> QED BY <2>1, <2>2
<1> QED BY <1>2, <1>4, <1>5 DEF SendQueuesExact

\* Whoever is blocked in Send is on one send queue, of a task that can still receive,
\* and the queues hold nobody else (messaging.c and syscall.c), unless tasks in Send are killed.
THEOREM SendQueuesCorrect ==
    ASSUME "RECEIVE_BLOCKED" \notin KillStates
    PROVE  Spec => []SendQueuesExact
<1> QED BY SendQueuesFound, InvariantHolds, MessagesHold, PTL

----------------------------------------------------------------------------
(***************************************************************************)
(* The ready queues of the kernel, and that no kassert fails, for every    *)
(* number of tasks, priorities and generations.  The tasks may do whatever *)
(* they like, with three exceptions that the code does not survive: Pass   *)
(* queues its caller twice, Kill takes a task that is not ready off a      *)
(* queue it is not on, and schedule() needs a task that is always ready.   *)
(***************************************************************************)

\* The task waits for the processor.
Queued(s) == state[s] = "RUNNABLE" /\ s \notin OnCpu

\* The ready queues are the sequences w, of the tasks that wait for the processor.
ReadyQueuesAre(w) ==
    /\ Holds(rq, Priorities, Slots, w)
    /\ \A p \in Priorities, s \in Slots : On(w, p, s) <=> Queued(s) /\ priority[s] = p

ReadyQueuesOK == \E w \in [Priorities -> Seq(Slots)] : ReadyQueuesAre(w)

\* The task on the processor is the only active one, and does not wait in Send while
\* send queues are cleared.
CpuOK ==
    /\ mode = "clear" => state[current] \in {"ACTIVE", "ZOMBIE"}
    /\ mode \in {"schedule", "user", "clear", "return"} =>
          \A s \in Slots : state[s] = "ACTIVE" => s \in OnCpu

ReadyInv == ReadyQueuesOK /\ CpuOK

----------------------------------------------------------------------------
\* The types, for the lemmas below.
LEMMA KernelTypes ==
    ASSUME KernelInv
    PROVE  /\ state \in [Slots -> TaskStates] /\ priority \in [Slots -> Priorities]
           /\ blockedOn \in [Slots -> Events \cup {NotBlocked}]
           /\ r0 \in [Slots -> Results] /\ registered \in [Events -> Slots \cup {NULL}]
           /\ rq \in Families(Priorities, Slots) /\ sq \in Families(Slots, Slots)
           /\ mode = "user" => current \in Slots /\ state[current] = "ACTIVE"
           /\ mode \in {"clear", "return"} => current \in Slots
           /\ mode = "clear" => clearing \in Slots
BY DEF KernelInv, TypeOK, ControlOK

\* Nobody joins or leaves a ready queue.
LEMMA QueuedSame ==
    ASSUME ReadyQueuesOK, UNCHANGED rq,
           \A s \in Slots : Queued(s)' <=> Queued(s),
           \A s \in Slots : Queued(s) => priority'[s] = priority[s]
    PROVE  ReadyQueuesOK'
<1>1. PICK w \in [Priorities -> Seq(Slots)] : ReadyQueuesAre(w)
  BY DEF ReadyQueuesOK
<1>2. ReadyQueuesAre(w)'
  BY <1>1 DEF ReadyQueuesAre
<1> QED BY <1>2 DEF ReadyQueuesOK

\* A task is registered with the scheduler.
LEMMA TaskQueued ==
    ASSUME ReadyQueuesOK, priority \in [Slots -> Priorities], priority' = priority,
           NEW t \in Slots, ~ Queued(t), Queued(t)', Register(t),
           \A s \in Slots \ {t} : Queued(s)' <=> Queued(s)
    PROVE  ReadyQueuesOK'
<1>0. PICK p \in Priorities : p = priority[t]
  OBVIOUS
<1>1. PICK w \in [Priorities -> Seq(Slots)] : ReadyQueuesAre(w)
  BY DEF ReadyQueuesOK
<1>2. PICK v \in [Priorities -> Seq(Slots)] :
         Holds(rq', Priorities, Slots, v) /\ Gains(w, v, Priorities, Slots, p, t)
  <2>1. Holds(rq, Priorities, Slots, w) /\ \A j \in Priorities : ~ On(w, j, t)
    BY <1>1 DEF ReadyQueuesAre
  <2>2. /\ Holds(Enqueue(rq, p, t), Priorities, Slots, Joined(w, p, t))
        /\ Gains(w, Joined(w, p, t), Priorities, Slots, p, t)
    BY <2>1, EnqueueInFamily, NullAssumption
  <2>3. Joined(w, p, t) \in [Priorities -> Seq(Slots)]
    BY <2>2 DEF Holds
  <2> QED BY <1>0, <2>2, <2>3 DEF Register
<1>3. \A j \in Priorities, s \in Slots : On(v, j, s) <=> Queued(s)' /\ priority'[s] = j
  <2> SUFFICES ASSUME NEW j \in Priorities, NEW s \in Slots
               PROVE  On(v, j, s) <=> Queued(s)' /\ priority'[s] = j
    OBVIOUS
  <2>1. On(v, j, s) <=> On(w, j, s) \/ (j = p /\ s = t)
    BY <1>2 DEF Gains
  <2>2. On(w, j, s) <=> Queued(s) /\ priority[s] = j
    BY <1>1 DEF ReadyQueuesAre
  <2>3. CASE s = t
    BY <1>0, <2>1, <2>2, <2>3
  <2>4. CASE s # t
    BY <2>1, <2>2, <2>4
  <2> QED BY <2>3, <2>4
<1>4. ReadyQueuesAre(v)'
  BY <1>2, <1>3 DEF ReadyQueuesAre
<1> QED BY <1>4 DEF ReadyQueuesOK

\* A call that returns or kills leaves the processor to the task that made it, and
\* makes no other active.
LEMMA CpuStep ==
    ASSUME CpuOK, mode = "user", current' = current,
           mode' \in {"return", "clear", "panic", "fault"},
           \A s \in Slots : s # current /\ state'[s] = "ACTIVE" => state[s] = "ACTIVE",
           mode' = "clear" => state'[current] \in {"ACTIVE", "ZOMBIE"}
    PROVE  CpuOK'
BY DEF CpuOK, OnCpu

\* A call after which nobody else is ready that was not, or the other way round.
LEMMA QuietCall ==
    ASSUME KernelInv, ReadyInv, mode = "user", current' = current,
           mode' \in {"return", "clear", "panic", "fault"},
           mode' \in {"panic", "fault"} => state' = state,
           mode' = "clear" => state'[current] \in {"ACTIVE", "ZOMBIE"},
           UNCHANGED <<rq, priority>>,
           \A s \in Slots : s # current =>
              /\ state'[s] = "ACTIVE" => state[s] = "ACTIVE"
              /\ state'[s] = "RUNNABLE" <=> state[s] = "RUNNABLE"
    PROVE  ReadyInv'
<1>1. CpuOK'
  BY CpuStep DEF ReadyInv
<1>2. current \in Slots /\ state[current] = "ACTIVE"
  BY KernelTypes
<1>3. \A s \in Slots : Queued(s)' <=> Queued(s)
  BY <1>2 DEF Queued, OnCpu
<1>4. ReadyQueuesOK'
  BY <1>3, QueuedSame DEF ReadyInv
<1> QED BY <1>1, <1>4 DEF ReadyInv

\* A call or an interrupt that makes one task ready that was blocked.
LEMMA WakingCall ==
    ASSUME KernelInv, ReadyInv, mode = "user", current' = current, priority' = priority,
           mode' \in {"return", "panic"},
           NEW t \in Slots, state[t] \notin {"RUNNABLE", "ACTIVE"}, Register(t),
           state'[t] = "RUNNABLE",
           mode' = "panic" => state'[current] = state[current],
           \A s \in Slots \ {t} : s # current =>
              /\ state'[s] = "ACTIVE" => state[s] = "ACTIVE"
              /\ state'[s] = "RUNNABLE" <=> state[s] = "RUNNABLE"
    PROVE  ReadyInv'
<1>1. CpuOK'
  BY CpuStep DEF ReadyInv
<1>2. current \in Slots /\ state[current] = "ACTIVE" /\ t # current
  BY KernelTypes
<1>3. ~ Queued(t) /\ Queued(t)' /\ \A s \in Slots \ {t} : Queued(s)' <=> Queued(s)
  BY <1>2 DEF Queued, OnCpu
<1>4. ReadyQueuesOK'
  BY <1>3, TaskQueued, KernelTypes DEF ReadyInv
<1> QED BY <1>1, <1>4 DEF ReadyInv

----------------------------------------------------------------------------
(* One lemma per action. *)

\* The first user task is queued.
LEMMA InitReady == Init => ReadyInv
<1> SUFFICES ASSUME Init PROVE ReadyInv
  OBVIOUS
<1>0. FirstTask \in Slots
  BY TasksAssumption DEF FirstTask, Slots
<1>1. PICK p \in Priorities : priority = [s \in Slots |-> IF s = FirstTask THEN p ELSE 0]
  BY DEF Init
<1> DEFINE u == [i \in Priorities |-> << >>]
           none == NoQueues(Priorities, Slots)
<1>2. u \in [Priorities -> Seq(Slots)] /\ \A i \in Priorities : u[i] = << >> /\ Len(u[i]) = 0
  BY EmptySeq
<1>3. none \in Families(Priorities, Slots) /\ \A i \in Priorities : none.head[i] = NULL
  BY DEF NoQueues, Families
<1>4. rq = Enqueue(none, p, FirstTask)
  BY <1>0, <1>1 DEF Init
<1> HIDE DEF u, none
<1>5. \A i \in Priorities, t \in Slots : ~ On(u, i, t)
  BY <1>2 DEF On
<1>6. Holds(none, Priorities, Slots, u)
  BY <1>2, <1>3, <1>5 DEF Holds, Represents
<1>7. /\ Holds(Enqueue(none, p, FirstTask), Priorities, Slots, Joined(u, p, FirstTask))
      /\ Gains(u, Joined(u, p, FirstTask), Priorities, Slots, p, FirstTask)
  BY <1>0, <1>5, <1>6, EnqueueInFamily, NullAssumption
<1>8. PICK v \in [Priorities -> Seq(Slots)] :
         Holds(rq, Priorities, Slots, v) /\ Gains(u, v, Priorities, Slots, p, FirstTask)
  BY <1>4, <1>7 DEF Holds
<1>9. \A s \in Slots : Queued(s) <=> s = FirstTask
  BY DEF Init, Queued, OnCpu
<1>10. ReadyQueuesAre(v)
  BY <1>0, <1>1, <1>5, <1>8, <1>9 DEF ReadyQueuesAre, Gains
<1>11. CpuOK
  BY DEF Init, CpuOK
<1> QED BY <1>10, <1>11 DEF ReadyInv, ReadyQueuesOK

\* The bitmap and the queues: schedule() finds a task exactly when one waits, and it is
\* one of the highest priority.
LEMMA NextTask ==
    ASSUME KernelInv, ReadyQueuesOK, nonempty # {}
    PROVE  /\ HighestReady \in Priorities /\ ~ IsEmpty(rq, HighestReady)
           /\ rq.head[HighestReady] \in Slots /\ Queued(rq.head[HighestReady])
<1>1. HighestReady \in nonempty /\ HighestReady \in Priorities
  BY HighestReadyIsReady DEF KernelInv, TypeOK
<1>2. ~ IsEmpty(rq, HighestReady)
  BY <1>1 DEF KernelInv, BitmapExact
<1> HIDE DEF HighestReady
<1>3. PICK w \in [Priorities -> Seq(Slots)] : ReadyQueuesAre(w)
  BY DEF ReadyQueuesOK
<1>4. Holds(rq, Priorities, Slots, w) /\ w[HighestReady] # << >>
  <2>1. Holds(rq, Priorities, Slots, w) /\ Represents(rq, HighestReady, w[HighestReady])
    BY <1>1, <1>3 DEF ReadyQueuesAre, Holds
  <2> QED BY <1>2, <2>1 DEF Represents, IsEmpty
<1>5. rq.head[HighestReady] \in Slots /\ On(w, HighestReady, rq.head[HighestReady])
  BY <1>1, <1>4, DequeueInFamily, NullAssumption
<1> QED BY <1>1, <1>2, <1>3, <1>5 DEF ReadyQueuesAre

\* schedule() takes the task it dispatches off its queue.
LEMMA ScheduleReady ==
    ASSUME KernelInv, ReadyInv, Schedule
    PROVE  ReadyInv'
<1>1. mode = "schedule" /\ OnCpu = {} /\ \A s \in Slots : state[s] # "ACTIVE"
  BY DEF Schedule, ReadyInv, CpuOK, OnCpu
<1>2. CASE nonempty = {} \/ IsEmpty(rq, HighestReady)
  <2>1. mode' \in {"halted", "panic"} /\ UNCHANGED <<current, state, priority, rq>>
    BY <1>2 DEF Schedule, taskVars, readyVars
  <2>2. \A s \in Slots : Queued(s)' <=> Queued(s)
    BY <1>1, <2>1 DEF Queued, OnCpu
  <2>3. ReadyQueuesOK'
    BY <2>1, <2>2, QueuedSame DEF ReadyInv
  <2> QED BY <2>1, <2>3 DEF ReadyInv, CpuOK
<1>3. CASE ~ (nonempty = {} \/ IsEmpty(rq, HighestReady))
  <2>1. PICK p \in Priorities : p = HighestReady
    BY <1>3, NextTask DEF ReadyInv
  <2>2. PICK next \in Slots : next = rq.head[p] /\ Queued(next)
    BY <1>3, <2>1, NextTask DEF ReadyInv
  <2>3. /\ rq' = Dequeue(rq, p) /\ mode' = "user" /\ current' = next
        /\ state' = [state EXCEPT ![next] = "ACTIVE"] /\ priority' = priority
    BY <1>3, <2>1, <2>2 DEF Schedule, Queued
  <2>4. state \in [Slots -> TaskStates]
    BY KernelTypes
  <2>5. PICK w \in [Priorities -> Seq(Slots)] : ReadyQueuesAre(w)
    BY DEF ReadyInv, ReadyQueuesOK
  <2>6. PICK v \in [Priorities -> Seq(Slots)] :
           Holds(rq', Priorities, Slots, v) /\ Loses(w, v, Priorities, Slots, next)
    <3>1. Holds(rq, Priorities, Slots, w) /\ w[p] # << >>
      <4>1. Holds(rq, Priorities, Slots, w) /\ Represents(rq, p, w[p])
        BY <2>5 DEF ReadyQueuesAre, Holds
      <4> QED BY <1>3, <2>1, <4>1 DEF Represents, IsEmpty
    <3>2. /\ Holds(Dequeue(rq, p), Priorities, Slots, Served(w, p))
          /\ Loses(w, Served(w, p), Priorities, Slots, rq.head[p])
      BY <3>1, DequeueInFamily, NullAssumption
    <3>3. Served(w, p) \in [Priorities -> Seq(Slots)]
      BY <3>2 DEF Holds
    <3> QED BY <2>2, <2>3, <3>2, <3>3
  <2>7. \A s \in Slots : Queued(s)' <=> Queued(s) /\ s # next
    BY <1>1, <2>3, <2>4 DEF Queued, OnCpu
  <2>8. ReadyQueuesAre(v)'
    BY <2>3, <2>5, <2>6, <2>7 DEF ReadyQueuesAre, Loses
  <2>9. CpuOK'
    BY <1>1, <2>3, <2>4 DEF CpuOK, OnCpu
  <2> QED BY <2>8, <2>9 DEF ReadyInv, ReadyQueuesOK
<1> QED BY <1>2, <1>3

\* The task that was on the processor goes back to its queue, if it can run.
LEMMA ReturnReady ==
    ASSUME KernelInv, ReadyInv, Return
    PROVE  ReadyInv'
<1>1. /\ mode = "return" /\ mode' = "schedule" /\ current' = current /\ priority' = priority
      /\ current \in Slots /\ state \in [Slots -> TaskStates]
      /\ priority \in [Slots -> Priorities] /\ OnCpu = {current} /\ OnCpu' = {}
  BY KernelTypes DEF Return, OnCpu
<1>2. \A s \in Slots : state[s] = "ACTIVE" => s = current
  BY <1>1 DEF ReadyInv, CpuOK
<1>3. CASE state[current] \in {"RUNNABLE", "ACTIVE"}
  <2>1. state' = [state EXCEPT ![current] = "RUNNABLE"] /\ Register(current)
    BY <1>3 DEF Return
  <2>2. ~ Queued(current) /\ Queued(current)'
        /\ \A s \in Slots \ {current} : Queued(s)' <=> Queued(s)
    BY <1>1, <2>1 DEF Queued
  <2>3. ReadyQueuesOK'
    BY <1>1, <2>1, <2>2, TaskQueued DEF ReadyInv
  <2> QED BY <1>1, <1>2, <2>1, <2>3 DEF ReadyInv, CpuOK
<1>4. CASE state[current] \notin {"RUNNABLE", "ACTIVE"}
  <2>1. UNCHANGED <<state, rq>>
    BY <1>4 DEF Return, readyVars
  <2>2. \A s \in Slots : Queued(s)' <=> Queued(s)
    BY <1>1, <1>4, <2>1 DEF Queued
  <2>3. ReadyQueuesOK'
    BY <1>1, <2>1, <2>2, QueuedSame DEF ReadyInv
  <2> QED BY <1>1, <1>2, <1>4, <2>1, <2>3 DEF ReadyInv, CpuOK
<1> QED BY <1>3, <1>4

\* The senders that clear_send_queue lets go are queued.
LEMMA ClearReady ==
    ASSUME KernelInv, MessagesInv, ReadyInv, ClearSendQueue
    PROVE  ReadyInv'
<1>1. /\ mode = "clear" /\ mode' \in {"clear", "return"} /\ clearing \in Slots
      /\ current \in Slots /\ current' = current /\ priority' = priority
      /\ state \in [Slots -> TaskStates] /\ priority \in [Slots -> Priorities]
      /\ OnCpu = {current} /\ OnCpu' = {current}
      /\ state[current] \in {"ACTIVE", "ZOMBIE"}
      /\ \A s \in Slots : state[s] = "ACTIVE" => s = current
  BY KernelTypes DEF ClearSendQueue, ReadyInv, CpuOK, OnCpu
<1>2. CASE IsEmpty(sq, clearing)
  <2>1. UNCHANGED <<state, rq>>
    BY <1>2 DEF ClearSendQueue, readyVars
  <2>2. \A s \in Slots : Queued(s)' <=> Queued(s)
    BY <1>1, <2>1 DEF Queued
  <2>3. ReadyQueuesOK'
    BY <1>1, <2>1, <2>2, QueuedSame DEF ReadyInv
  <2> QED BY <1>1, <2>1, <2>3 DEF ReadyInv, CpuOK
<1>3. CASE ~ IsEmpty(sq, clearing)
  <2>1. PICK sender \in Slots : sender = sq.head[clearing] /\ state[sender] = "RECEIVE_BLOCKED"
    BY <1>1, <1>3, SenderIsBlocked DEF MessagesInv
  <2>2. state' = [state EXCEPT ![sender] = "RUNNABLE"] /\ Register(sender)
    BY <1>3, <2>1 DEF ClearSendQueue
  <2>3. sender # current /\ ~ Queued(sender) /\ Queued(sender)'
        /\ \A s \in Slots \ {sender} : Queued(s)' <=> Queued(s)
    BY <1>1, <2>1, <2>2 DEF Queued
  <2>4. ReadyQueuesOK'
    BY <1>1, <2>1, <2>2, <2>3, TaskQueued DEF ReadyInv
  <2>5. CpuOK'
    BY <1>1, <2>1, <2>2, <2>3 DEF CpuOK
  <2> QED BY <2>4, <2>5 DEF ReadyInv
<1> QED BY <1>2, <1>3

\* Exit leaves the ready queues alone.
LEMMA ExitReady ==
    ASSUME KernelInv, ReadyInv, SyscallExit
    PROVE  ReadyInv'
<1>1. /\ mode = "user" /\ mode' = "clear" /\ current' = current /\ current \in Slots
      /\ state' = [state EXCEPT ![current] = "ZOMBIE"] /\ state \in [Slots -> TaskStates]
      /\ UNCHANGED <<rq, priority>>
  BY KernelTypes DEF SyscallExit, Trap, readyVars
<1> QED BY <1>1, QuietCall

\* The links of a task that is on no queue are nobody's business.
LEMMA LinksCleared ==
    ASSUME NEW w, Holds(rq, Priorities, Slots, w), NEW s \in Slots,
           \A j \in Priorities : ~ On(w, j, s)
    PROVE  Holds([rq EXCEPT !.next[s] = NULL, !.prev[s] = NULL], Priorities, Slots, w)
<1> DEFINE q == [rq EXCEPT !.next[s] = NULL, !.prev[s] = NULL]
<1>1. /\ rq \in Families(Priorities, Slots)
      /\ rq.next \in [Slots -> Slots \cup {NULL}] /\ rq.prev \in [Slots -> Slots \cup {NULL}]
  BY DEF Holds, Families
<1>2. /\ q \in Families(Priorities, Slots) /\ q.head = rq.head
      /\ q.next = [rq.next EXCEPT ![s] = NULL] /\ q.prev = [rq.prev EXCEPT ![s] = NULL]
  BY <1>1 DEF Families
<1> HIDE DEF q
<1>3. ASSUME NEW j \in Priorities PROVE Represents(q, j, w[j])
  <2>1. w[j] \in Seq(Slots) /\ Represents(rq, j, w[j])
    BY DEF Holds
  <2>2. \A k \in 1 .. Len(w[j]) : w[j][k] \in Slots /\ w[j][k] # s
    BY <2>1, ElementOfSeq DEF On
  <2>3. \A k \in 1 .. Len(w[j]) :
           q.next[w[j][k]] = rq.next[w[j][k]] /\ q.prev[w[j][k]] = rq.prev[w[j][k]]
    BY <1>1, <1>2, <2>2
  <2> QED BY <1>2, <2>1, <2>3, RepresentsFrame
<1>4. Holds(q, Priorities, Slots, w)
  BY <1>2, <1>3 DEF Holds
<1> QED BY <1>4 DEF q

\* A new task is queued; its links are cleared first, which hurts nobody because the
\* last task of its slot is on no queue.
LEMMA CreateReady ==
    ASSUME KernelInv, ReadyInv, NEW p \in Priorities \cup {MaxPriority + 1}, SyscallCreate(p)
    PROVE  ReadyInv'
<1> DEFINE s0 == CHOOSE t \in available : \A u \in available : t <= u
<1>1. /\ mode = "user" /\ current' = current /\ current \in Slots /\ state[current] = "ACTIVE"
      /\ state \in [Slots -> TaskStates] /\ priority \in [Slots -> Priorities]
      /\ rq \in Families(Priorities, Slots)
  BY KernelTypes DEF SyscallCreate, Trap
<1>2. CASE mode' = "return" /\ UNCHANGED <<taskVars, readyVars>>
  BY <1>1, <1>2, QuietCall DEF taskVars, readyVars
<1>3. CASE available # {} /\ p \in Priorities /\ TaskInit(s0, p)
           /\ mode' = IF state[s0] = "ZOMBIE" THEN "return" ELSE "panic"
  <2>1. PICK s \in available : s = s0
    BY <1>3, LowestIsAvailable, Zenon DEF KernelInv, TypeOK
  <2> HIDE DEF s0
  <2>2. s \in Slots /\ state[s] = "ZOMBIE" /\ mode' = "return" /\ s # current
    BY <1>1, <1>3, <2>1 DEF KernelInv, TypeOK, SlotsExact, SlotZeroUnused
  <2>3. /\ state' = [state EXCEPT ![s] = "RUNNABLE"]
        /\ priority' = [priority EXCEPT ![s] = p]
        /\ rq' = Enqueue([rq EXCEPT !.next[s] = NULL, !.prev[s] = NULL], p, s)
    BY <1>3, <2>1 DEF TaskInit
  <2>4. PICK w \in [Priorities -> Seq(Slots)] : ReadyQueuesAre(w)
    BY DEF ReadyInv, ReadyQueuesOK
  <2>5. \A j \in Priorities : ~ On(w, j, s)
    BY <2>2, <2>4 DEF ReadyQueuesAre, Queued
  <2> DEFINE q == [rq EXCEPT !.next[s] = NULL, !.prev[s] = NULL]
  <2>9. rq' = Enqueue(q, p, s) /\ Holds(q, Priorities, Slots, w)
    BY <2>2, <2>3, <2>4, <2>5, LinksCleared DEF ReadyQueuesAre
  <2> HIDE DEF q
  <2>10. PICK v \in [Priorities -> Seq(Slots)] :
           Holds(rq', Priorities, Slots, v) /\ Gains(w, v, Priorities, Slots, p, s)
    <3>1. /\ Holds(Enqueue(q, p, s), Priorities, Slots, Joined(w, p, s))
          /\ Gains(w, Joined(w, p, s), Priorities, Slots, p, s)
      BY <1>3, <2>2, <2>5, <2>9, EnqueueInFamily, NullAssumption
    <3>2. Joined(w, p, s) \in [Priorities -> Seq(Slots)]
      BY <3>1 DEF Holds
    <3> QED BY <2>9, <3>1, <3>2
  <2>11. \A t \in Slots : Queued(t)' <=> Queued(t) \/ t = s
    BY <1>1, <2>2, <2>3 DEF Queued, OnCpu
  <2>12. ~ Queued(s)
    BY <2>2 DEF Queued
  <2>13. \A j \in Priorities, t \in Slots : On(v, j, t) <=> Queued(t)' /\ priority'[t] = j
    <3> SUFFICES ASSUME NEW j \in Priorities, NEW t \in Slots
                 PROVE  On(v, j, t) <=> Queued(t)' /\ priority'[t] = j
      OBVIOUS
    <3>1. On(v, j, t) <=> On(w, j, t) \/ (j = p /\ t = s)
      BY <2>10 DEF Gains
    <3>2. On(w, j, t) <=> Queued(t) /\ priority[t] = j
      BY <2>4 DEF ReadyQueuesAre
    <3>3. priority'[t] = IF t = s THEN p ELSE priority[t]
      BY <1>1, <2>3
    <3> QED BY <2>11, <2>12, <3>1, <3>2, <3>3
  <2>14. ReadyQueuesAre(v)'
    BY <2>10, <2>13 DEF ReadyQueuesAre
  <2>15. CpuOK'
    BY <1>1, <2>2, <2>3, CpuStep DEF ReadyInv
  <2> QED BY <2>14, <2>15 DEF ReadyInv, ReadyQueuesOK
<1> QED BY <1>2, <1>3 DEF SyscallCreate

\* Send: the caller stops, and a receiver that waits becomes ready.
LEMMA SendReady ==
    ASSUME KernelInv, ReadyInv, NEW tid \in Tids, NEW fits \in BOOLEAN,
           SyscallSend(tid, fits)
    PROVE  ReadyInv'
<1> DEFINE r == SlotOf(tid)
<1>1. /\ mode = "user" /\ mode' = "return" /\ current' = current /\ current \in Slots
      /\ state[current] = "ACTIVE" /\ state \in [Slots -> TaskStates]
      /\ priority' = priority /\ r \in Slots
  BY KernelTypes, SlotOfIsSlot DEF SyscallSend, Trap, Tids
<1> HIDE DEF r
<1>2. CASE /\ UNCHANGED rq
           /\ state' = state \/ state' = [state EXCEPT ![current] = "RECEIVE_BLOCKED"]
  BY <1>1, <1>2, QuietCall
<1>3. CASE /\ state[r] = "SEND_BLOCKED" /\ Register(r)
           /\ state' = [state EXCEPT ![current] = "REPLY_BLOCKED", ![r] = "RUNNABLE"]
  BY <1>1, <1>3, WakingCall
<1> QED BY <1>2, <1>3 DEF SyscallSend, SendTo, readyVars, r

\* Receive: the caller stops or goes on; the sender it receives from stays blocked.
LEMMA ReceiveReady ==
    ASSUME KernelInv, MessagesInv, ReadyInv, NEW fits \in BOOLEAN, SyscallReceive(fits)
    PROVE  ReadyInv' /\ mode' = "return"
<1>1. /\ mode = "user" /\ current' = current /\ current \in Slots
      /\ state[current] = "ACTIVE" /\ state \in [Slots -> TaskStates]
      /\ UNCHANGED <<rq, priority>>
  BY KernelTypes DEF SyscallReceive, Trap, readyVars
<1>2. CASE IsEmpty(sq, current)
  <2>1. mode' = "return" /\ state' = [state EXCEPT ![current] = "SEND_BLOCKED"]
    BY <1>2 DEF SyscallReceive
  <2> QED BY <1>1, <2>1, QuietCall
<1>3. CASE ~ IsEmpty(sq, current)
  <2>1. PICK sender \in Slots : sender = sq.head[current] /\ state[sender] = "RECEIVE_BLOCKED"
    BY <1>1, <1>3, SenderIsBlocked DEF MessagesInv
  <2>2. /\ mode' = "return"
        /\ state' = [state EXCEPT ![current] = "RUNNABLE", ![sender] = "REPLY_BLOCKED"]
    BY <1>3, <2>1 DEF SyscallReceive
  <2> QED BY <1>1, <2>1, <2>2, QuietCall
<1> QED BY <1>2, <1>3

\* Reply makes a task ready that waits for one.
LEMMA ReplyReady ==
    ASSUME KernelInv, ReadyInv, NEW tid \in Tids, NEW fits \in BOOLEAN,
           SyscallReply(tid, fits)
    PROVE  ReadyInv'
<1> DEFINE t == SlotOf(tid)
<1>1. /\ mode = "user" /\ mode' = "return" /\ current' = current /\ current \in Slots
      /\ state[current] = "ACTIVE" /\ state \in [Slots -> TaskStates]
      /\ priority' = priority /\ t \in Slots
  BY KernelTypes, SlotOfIsSlot DEF SyscallReply, Trap, Tids
<1> HIDE DEF t
<1>2. CASE UNCHANGED <<state, rq>>
  BY <1>1, <1>2, QuietCall
<1>3. CASE /\ state[t] = "REPLY_BLOCKED" /\ Register(t)
           /\ state' = [state EXCEPT ![t] = "RUNNABLE"]
  BY <1>1, <1>3, WakingCall
<1> QED BY <1>2, <1>3 DEF SyscallReply, readyVars, t

\* AwaitEvent stops the caller or refuses.
LEMMA AwaitReady ==
    ASSUME KernelInv, ReadyInv, NEW e \in AwaitedEvents, SyscallAwaitEvent(e)
    PROVE  ReadyInv'
<1>1. /\ mode = "user" /\ mode' = "return" /\ current' = current /\ current \in Slots
      /\ state \in [Slots -> TaskStates] /\ UNCHANGED <<rq, priority>>
      /\ state' = state \/ state' = [state EXCEPT ![current] = "EVENT_BLOCKED"]
  BY KernelTypes DEF SyscallAwaitEvent, Trap, readyVars
<1> QED BY <1>1, QuietCall

\* An interrupt makes the task ready that waits for it.
LEMMA InterruptReady ==
    ASSUME KernelInv, ReadyInv, InterruptStep
    PROVE  ReadyInv'
<1>1. PICK e \in Events : EventHandle(e) \/ NoEvent
  BY InterruptShape DEF KernelInv
<1>2. /\ mode = "user" /\ current' = current /\ priority' = priority
      /\ state \in [Slots -> TaskStates] /\ registered \in [Events -> Slots \cup {NULL}]
      /\ current \in Slots /\ state[current] = "ACTIVE"
  BY InterruptShape, KernelTypes DEF KernelInv
<1>3. CASE mode' \in {"return", "panic"} /\ UNCHANGED <<state, rq>>
  BY <1>2, <1>3, QuietCall
<1>4. CASE EventHandle(e) /\ EventHasTask(e)
  <2>1. PICK t \in Slots : t = registered[e] /\ state[t] = "EVENT_BLOCKED"
    BY <1>2, <1>4 DEF EventHasTask
  <2>2. /\ mode' \in {"return", "panic"} /\ Register(t)
        /\ state' = [state EXCEPT ![t] = "RUNNABLE"]
    BY <1>4, <2>1 DEF EventHandle
  <2> QED BY <1>2, <2>1, <2>2, WakingCall
<1> QED BY <1>1, <1>3, <1>4 DEF EventHandle, NoEvent, readyVars

\* Kill takes its victim off the queue it is on.
LEMMA KillReady ==
    ASSUME KillStates \subseteq {"RUNNABLE"},
           KernelInv, ReadyInv, NEW tid \in Tids, SyscallKill(tid)
    PROVE  ReadyInv'
<1> DEFINE v == SlotOf(tid)
<1>1. /\ mode = "user" /\ current' = current /\ current \in Slots
      /\ state[current] = "ACTIVE" /\ state \in [Slots -> TaskStates]
      /\ priority \in [Slots -> Priorities] /\ v \in Slots
  BY KernelTypes, SlotOfIsSlot DEF SyscallKill, Trap, Tids
<1> HIDE DEF v
<1>2. CASE mode' \in {"return", "panic", "fault"} /\ UNCHANGED <<state, rq, priority>>
  BY <1>1, <1>2, QuietCall
<1>3. CASE state[v] \in KillStates /\ KillTask(v)
  <2>1. PICK p \in Priorities : p = priority[v]
    BY <1>1
  <2>2. /\ state[v] = "RUNNABLE" /\ v # current /\ Queued(v)
        /\ mode' = "clear" /\ state' = [state EXCEPT ![v] = "ZOMBIE"]
        /\ rq' = Remove(rq, p, v) /\ priority' = priority
    BY <1>1, <1>3, <2>1 DEF KillTask, Deregister, Queued, OnCpu
  <2>3. PICK w \in [Priorities -> Seq(Slots)] : ReadyQueuesAre(w)
    BY DEF ReadyInv, ReadyQueuesOK
  <2>4. PICK m \in 1 .. Len(w[p]) : w[p][m] = v
    <3>1. On(w, p, v)
      BY <1>1, <2>1, <2>2, <2>3 DEF ReadyQueuesAre
    <3> QED BY <3>1 DEF On
  <2>5. PICK x \in [Priorities -> Seq(Slots)] :
           Holds(rq', Priorities, Slots, x) /\ Loses(w, x, Priorities, Slots, v)
    <3>1. Holds(rq, Priorities, Slots, w)
      BY <2>3 DEF ReadyQueuesAre
    <3>2. /\ Holds(Remove(rq, p, w[p][m]), Priorities, Slots, Without(w, p, m))
          /\ Loses(w, Without(w, p, m), Priorities, Slots, w[p][m])
      BY <3>1, RemoveInFamily, NullAssumption
    <3>3. Without(w, p, m) \in [Priorities -> Seq(Slots)]
      BY <3>2 DEF Holds
    <3> QED BY <2>2, <2>4, <3>2, <3>3
  <2>6. \A s \in Slots : Queued(s)' <=> Queued(s) /\ s # v
    BY <1>1, <2>2 DEF Queued, OnCpu
  <2>7. ReadyQueuesAre(x)'
    BY <2>2, <2>3, <2>5, <2>6 DEF ReadyQueuesAre, Loses
  <2>8. CpuOK'
    BY <1>1, <2>2, CpuStep DEF ReadyInv
  <2> QED BY <2>7, <2>8 DEF ReadyInv, ReadyQueuesOK
<1> QED BY <1>2, <1>3 DEF SyscallKill, Refuse, Crash, taskVars, readyVars, v

----------------------------------------------------------------------------
\* Together with KernelInv and MessagesInv the invariant is inductive.
LEMMA StepReady ==
    ASSUME KillStates \subseteq {"RUNNABLE"}, "Pass" \notin Workload,
           KernelInv, MessagesInv, ReadyInv, [Next]_vars
    PROVE  ReadyInv'
<1>1. CASE KernelStep
  BY <1>1, ScheduleReady, ReturnReady, ClearReady DEF KernelStep
<1>2. CASE UserStep
  <2>1. ~ SyscallPass
    BY DEF SyscallPass, Trap
  <2> QED BY <1>2, <2>1, ExitReady, CreateReady, SendReady, ReceiveReady, ReplyReady,
             AwaitReady, KillReady DEF UserStep
<1>3. CASE InterruptStep
  BY <1>3, InterruptReady
<1>4. CASE UNCHANGED vars
  <2>1. UNCHANGED <<mode, current, state, priority, rq>>
    BY <1>4 DEF vars, taskVars, readyVars
  <2>2. UNCHANGED OnCpu /\ \A s \in Slots : Queued(s)' <=> Queued(s)
    BY <2>1 DEF Queued, OnCpu
  <2>3. ReadyQueuesOK'
    BY <2>1, <2>2, QueuedSame DEF ReadyInv
  <2> QED BY <2>1, <2>2, <2>3 DEF ReadyInv, CpuOK
<1> QED BY <1>1, <1>2, <1>3, <1>4 DEF Next

\* It holds in every state the kernel reaches.
THEOREM ReadyHolds ==
    ASSUME KillStates \subseteq {"RUNNABLE"}, "Pass" \notin Workload
    PROVE  Spec => [](KernelInv /\ MessagesInv /\ ReadyInv)
<1>1. "RECEIVE_BLOCKED" \notin KillStates
  OBVIOUS
<1>2. KernelInv /\ MessagesInv /\ ReadyInv /\ [Next]_vars => ReadyInv'
  BY StepReady
<1> QED BY <1>1, <1>2, InitReady, InvariantHolds, MessagesHold, PTL DEF Spec

\* The walk of ReadyQueue finds the sequences.
LEMMA ReadyQueuesFound == KernelInv /\ ReadyInv => ReadyQueuesExact
<1> SUFFICES ASSUME KernelInv, ReadyInv, NEW p \in Priorities
             PROVE  /\ Represents(rq, p, ReadyQueue(p))
                    /\ Members(ReadyQueue(p))
                          = {s \in InState("RUNNABLE") \ OnCpu : priority[s] = p}
  BY DEF ReadyQueuesExact
<1>1. PICK w \in [Priorities -> Seq(Slots)] : ReadyQueuesAre(w)
  BY DEF ReadyInv, ReadyQueuesOK
<1>2. /\ rq \in Families(Priorities, Slots) /\ w[p] \in Seq(Slots) /\ Represents(rq, p, w[p])
      /\ MaxTasks \in Nat
  BY <1>1, TasksAssumption DEF ReadyQueuesAre, Holds
<1>4. ReadyQueue(p) = w[p]
  BY <1>1, FamilyContents DEF ReadyQueuesAre, ReadyQueue
<1>5. \A s \in Slots : s \in Members(w[p]) <=> On(w, p, s)
  <2>1. DOMAIN w[p] = 1 .. Len(w[p])
    BY <1>2, LenProperties
  <2> QED BY <2>1 DEF Members, On
<1>6. Members(w[p]) \subseteq Slots
  <2>1. DOMAIN w[p] = 1 .. Len(w[p]) /\ \A k \in 1 .. Len(w[p]) : w[p][k] \in Slots
    BY <1>2, LenProperties, ElementOfSeq
  <2> QED BY <2>1 DEF Members
<1>7. \A s \in Slots : On(w, p, s) <=> s \in InState("RUNNABLE") \ OnCpu /\ priority[s] = p
  BY <1>1 DEF ReadyQueuesAre, Queued, InState
<1>8. Members(w[p]) = {s \in InState("RUNNABLE") \ OnCpu : priority[s] = p}
  BY <1>5, <1>6, <1>7 DEF InState
<1> QED BY <1>2, <1>4, <1>8

\* Every ready task that is not on the processor is on the ready queue of its priority,
\* once, and the queues hold nothing else (scheduler.c, queue.h), if only ready tasks
\* are killed and nobody calls Pass.
THEOREM ReadyQueuesCorrect ==
    ASSUME KillStates \subseteq {"RUNNABLE"}, "Pass" \notin Workload
    PROVE  Spec => []ReadyQueuesExact
<1> QED BY ReadyQueuesFound, ReadyHolds, PTL

----------------------------------------------------------------------------
(* No kassert fails.  The first task stands for the idle task here.          *)

\* An interrupt is enabled only while its task waits, so is the wish to know that the
\* train controller takes a byte; who waits has not got its event yet.
WatchedOK ==
    /\ \A e \in irqEnabled : EventHasTask(e)
    /\ txfe => EventHasTask(TRAIN_TX) /\ TRAIN_TX \notin irqEnabled
    /\ \A s \in Slots : state[s] = "EVENT_BLOCKED" => r0[s] = BadData

\* The idle task can always run.
IdleOK == state[FirstTask] \in {"RUNNABLE", "ACTIVE"}

SafeInv == NoPanic /\ IdleOK /\ WatchedOK

\* A step that touches neither the tasks that wait for events nor the interrupts.
LEMMA SafeStep ==
    ASSUME KernelInv, SafeInv, mode' \notin {"panic", "fault"},
           UNCHANGED <<registered, irqEnabled, txfe>>,
           state'[FirstTask] \in {"RUNNABLE", "ACTIVE"},
           \A s \in Slots :
              /\ state'[s] = "EVENT_BLOCKED" <=> state[s] = "EVENT_BLOCKED"
              /\ state[s] = "EVENT_BLOCKED" => r0'[s] = r0[s]
    PROVE  SafeInv'
<1>1. registered \in [Events -> Slots \cup {NULL}] /\ irqEnabled \subseteq Events
      /\ TRAIN_TX \in Events
  BY DEF KernelInv, TypeOK, TRAIN_TX, Events, MaxEventId
<1>2. \A e \in Events : EventHasTask(e)' <=> EventHasTask(e)
  BY <1>1 DEF EventHasTask
<1>3. WatchedOK'
  <2>1. \A e \in irqEnabled' : EventHasTask(e)'
    BY <1>1, <1>2 DEF SafeInv, WatchedOK
  <2>2. txfe' => EventHasTask(TRAIN_TX)' /\ TRAIN_TX \notin irqEnabled'
    BY <1>1, <1>2 DEF SafeInv, WatchedOK
  <2>3. \A s \in Slots : state'[s] = "EVENT_BLOCKED" => r0'[s] = BadData
    BY DEF SafeInv, WatchedOK
  <2> QED BY <2>1, <2>2, <2>3 DEF WatchedOK, EventHasTask
<1> QED BY <1>3 DEF SafeInv, NoPanic, IdleOK

\* schedule() does not miss a task that waits.
LEMMA WaitingIsFound ==
    ASSUME KernelInv, ReadyQueuesOK, NEW s \in Slots, Queued(s)
    PROVE  nonempty # {}
<1>1. PICK w \in [Priorities -> Seq(Slots)] : ReadyQueuesAre(w)
  BY DEF ReadyQueuesOK
<1>2. PICK p \in Priorities : p = priority[s]
  BY KernelTypes
<1>3. On(w, p, s) /\ w[p] \in Seq(Slots) /\ Represents(rq, p, w[p])
      /\ rq \in Families(Priorities, Slots)
  BY <1>1, <1>2 DEF ReadyQueuesAre, Holds
<1>4. PICK k \in 1 .. Len(w[p]) : w[p][k] = s
  BY <1>3 DEF On
<1>5. /\ Len(w[p]) \in Nat
      /\ IsEmpty(rq, p) <=> w[p] = << >>
      /\ w[p] = << >> <=> Len(w[p]) = 0
  BY <1>3, RingFacts, NullAssumption
<1>6. ~ IsEmpty(rq, p)
  BY <1>4, <1>5
<1> QED BY <1>6 DEF KernelInv, BitmapExact

\* schedule() finds a task, at least the idle task, and it is one that can run.
LEMMA ScheduleSafe ==
    ASSUME KernelInv, ReadyInv, SafeInv, Schedule
    PROVE  SafeInv'
<1>0. FirstTask \in Slots
  BY TasksAssumption DEF FirstTask, Slots
<1>1. /\ mode = "schedule" /\ Queued(FirstTask) /\ state \in [Slots -> TaskStates]
      /\ r0 \in [Slots -> Results]
      /\ UNCHANGED <<registered, irqEnabled, txfe>>
  BY <1>0, KernelTypes
  DEF Schedule, ReadyInv, CpuOK, SafeInv, IdleOK, Queued, OnCpu, eventVars, uartVars
<1>2. nonempty # {}
  BY <1>0, <1>1, WaitingIsFound DEF ReadyInv
<1>3. ~ IsEmpty(rq, HighestReady) /\ rq.head[HighestReady] \in Slots
      /\ Queued(rq.head[HighestReady])
  BY <1>2, NextTask DEF ReadyInv
<1>4. PICK next \in Slots : next = rq.head[HighestReady] /\ state[next] = "RUNNABLE"
  BY <1>3 DEF Queued
<1>5. /\ mode' = "user" /\ state' = [state EXCEPT ![next] = "ACTIVE"]
      /\ r0' = [r0 EXCEPT ![next] = 0]
  BY <1>2, <1>3, <1>4 DEF Schedule
<1> QED BY <1>0, <1>1, <1>4, <1>5, SafeStep DEF SafeInv, IdleOK

\* The other two steps of the kernel's loop change no task but from blocked in Send or
\* active to ready.
LEMMA LoopSafe ==
    ASSUME KernelInv, MessagesInv, SafeInv, Return \/ ClearSendQueue
    PROVE  SafeInv'
<1>0. FirstTask \in Slots
  BY TasksAssumption DEF FirstTask, Slots
<1>1. state \in [Slots -> TaskStates] /\ r0 \in [Slots -> Results]
  BY KernelTypes
<1>2. CASE Return
  <2>1. /\ mode' = "schedule" /\ UNCHANGED <<r0, registered, irqEnabled, txfe>>
        /\ \/ state' = state
           \/ /\ state' = [state EXCEPT ![current] = "RUNNABLE"] /\ current \in Slots
              /\ state[current] \in {"RUNNABLE", "ACTIVE"}
    BY <1>2, KernelTypes DEF Return, eventVars, uartVars
  <2> QED BY <1>0, <1>1, <2>1, SafeStep DEF SafeInv, IdleOK
<1>3. CASE ClearSendQueue
  <2>1. /\ mode' \in {"clear", "return"} /\ UNCHANGED <<registered, irqEnabled, txfe>>
        /\ clearing \in Slots
    BY <1>3, KernelTypes DEF ClearSendQueue, eventVars, uartVars
  <2>2. CASE IsEmpty(sq, clearing)
    <3>1. UNCHANGED <<r0, state>>
      BY <1>3, <2>2 DEF ClearSendQueue
    <3> QED BY <2>1, <3>1, SafeStep DEF SafeInv, IdleOK
  <2>3. CASE ~ IsEmpty(sq, clearing)
    <3>1. PICK sender \in Slots : sender = sq.head[clearing] /\ state[sender] = "RECEIVE_BLOCKED"
      BY <2>1, <2>3, SenderIsBlocked DEF MessagesInv
    <3>2. /\ state' = [state EXCEPT ![sender] = "RUNNABLE"]
          /\ r0' = [r0 EXCEPT ![sender] = -2]
      BY <1>3, <2>3, <3>1 DEF ClearSendQueue
    <3> QED BY <1>0, <1>1, <2>1, <3>1, <3>2, SafeStep DEF SafeInv, IdleOK
  <2> QED BY <2>2, <2>3
<1> QED BY <1>2, <1>3

\* The calls that block in a message or end the caller, which is not the idle task.
LEMMA CallSafe ==
    ASSUME FirstTask \in NeverBlocks, KernelInv, MessagesInv, SafeInv, mode = "user",
           \/ SyscallExit
           \/ \E tid \in Tids, fits \in BOOLEAN : SyscallSend(tid, fits)
           \/ \E tid \in Tids, fits \in BOOLEAN : SyscallReply(tid, fits)
           \/ \E fits \in BOOLEAN : SyscallReceive(fits)
    PROVE  SafeInv'
<1>0. FirstTask \in Slots
  BY TasksAssumption DEF FirstTask, Slots
<1>1. state \in [Slots -> TaskStates] /\ r0 \in [Slots -> Results] /\ current \in Slots
      /\ state[current] = "ACTIVE"
  BY KernelTypes
<1>2. CASE SyscallExit
  <2>1. /\ current # FirstTask /\ mode' = "clear"
        /\ state' = [state EXCEPT ![current] = "ZOMBIE"]
        /\ r0' = [r0 EXCEPT ![current] = 0]
        /\ UNCHANGED <<registered, irqEnabled, txfe>>
    BY <1>2 DEF SyscallExit, eventVars, uartVars
  <2> QED BY <1>0, <1>1, <2>1, SafeStep DEF SafeInv, IdleOK
<1>3. ASSUME NEW tid \in Tids, NEW fits \in BOOLEAN, SyscallSend(tid, fits) PROVE SafeInv'
  <2>1. PICK r \in Slots : r = SlotOf(tid)
    BY SlotOfIsSlot DEF Tids
  <2>2. current # FirstTask /\ mode' = "return" /\ UNCHANGED <<registered, irqEnabled, txfe>>
    BY <1>3 DEF SyscallSend, eventVars, uartVars
  <2>3. \/ state' = state /\ r0' = [r0 EXCEPT ![current] = -2]
        \/ state' = [state EXCEPT ![current] = "RECEIVE_BLOCKED"] /\ r0' = r0
        \/ /\ state[r] = "SEND_BLOCKED" /\ r0' = [r0 EXCEPT ![r] = Delivered(fits)]
           /\ state' = [state EXCEPT ![current] = "REPLY_BLOCKED", ![r] = "RUNNABLE"]
    BY <1>3, <2>1 DEF SyscallSend, SendTo
  <2>4. /\ state'[FirstTask] \in {"RUNNABLE", "ACTIVE"}
        /\ \A s \in Slots :
              /\ state'[s] = "EVENT_BLOCKED" <=> state[s] = "EVENT_BLOCKED"
              /\ state[s] = "EVENT_BLOCKED" => r0'[s] = r0[s]
    BY <1>0, <1>1, <2>2, <2>3 DEF SafeInv, IdleOK
  <2> QED BY <2>2, <2>4, SafeStep
<1>4. ASSUME NEW tid \in Tids, NEW fits \in BOOLEAN, SyscallReply(tid, fits) PROVE SafeInv'
  <2>1. PICK t \in Slots : t = SlotOf(tid)
    BY SlotOfIsSlot DEF Tids
  <2>2. mode' = "return" /\ UNCHANGED <<registered, irqEnabled, txfe>>
    BY <1>4 DEF SyscallReply, eventVars, uartVars
  <2>3. \/ state' = state /\ \E x \in {-2, -3} : r0' = [r0 EXCEPT ![current] = x]
        \/ /\ state[t] = "REPLY_BLOCKED" /\ state' = [state EXCEPT ![t] = "RUNNABLE"]
           /\ r0' = [r0 EXCEPT ![t] = Delivered(fits), ![current] = IF fits THEN 0 ELSE -1]
    BY <1>4, <2>1 DEF SyscallReply
  <2>4. /\ state'[FirstTask] \in {"RUNNABLE", "ACTIVE"}
        /\ \A s \in Slots :
              /\ state'[s] = "EVENT_BLOCKED" <=> state[s] = "EVENT_BLOCKED"
              /\ state[s] = "EVENT_BLOCKED" => r0'[s] = r0[s]
    BY <1>0, <1>1, <2>3 DEF SafeInv, IdleOK
  <2> QED BY <2>2, <2>4, SafeStep
<1>5. ASSUME NEW fits \in BOOLEAN, SyscallReceive(fits) PROVE SafeInv'
  <2>1. current # FirstTask /\ UNCHANGED <<registered, irqEnabled, txfe>>
    BY <1>5 DEF SyscallReceive, eventVars, uartVars
  <2>2. CASE IsEmpty(sq, current)
    <3>1. /\ mode' = "return" /\ r0' = r0
          /\ state' = [state EXCEPT ![current] = "SEND_BLOCKED"]
      BY <1>5, <2>2 DEF SyscallReceive
    <3> QED BY <1>0, <1>1, <2>1, <3>1, SafeStep DEF SafeInv, IdleOK
  <2>3. CASE ~ IsEmpty(sq, current)
    <3>1. PICK sender \in Slots : sender = sq.head[current] /\ state[sender] = "RECEIVE_BLOCKED"
      BY <1>1, <2>3, SenderIsBlocked DEF MessagesInv
    <3>2. /\ mode' = "return" /\ r0' = [r0 EXCEPT ![current] = Delivered(fits)]
          /\ state' = [state EXCEPT ![current] = "RUNNABLE", ![sender] = "REPLY_BLOCKED"]
      BY <1>5, <2>3, <3>1 DEF SyscallReceive
    <3> QED BY <1>0, <1>1, <2>1, <3>1, <3>2, SafeStep DEF SafeInv, IdleOK
  <2> QED BY <2>2, <2>3
<1> QED BY <1>2, <1>3, <1>4, <1>5

\* Nobody waits for an event when the kernel starts.
LEMMA InitSafe == Init => SafeInv
<1> SUFFICES ASSUME Init PROVE SafeInv
  OBVIOUS
<1>0. FirstTask \in Slots
  BY TasksAssumption DEF FirstTask, Slots
<1>1. \A s \in Slots : state[s] # "EVENT_BLOCKED"
  BY DEF Init
<1>2. irqEnabled = {} /\ txfe = FALSE /\ mode = "schedule" /\ state[FirstTask] = "RUNNABLE"
  BY <1>0 DEF Init
<1> QED BY <1>1, <1>2 DEF SafeInv, NoPanic, IdleOK, WatchedOK

\* The new task gets a slot that is free, so the assertion in task_init holds.
LEMMA CreateSafe ==
    ASSUME KernelInv, SafeInv, NEW p \in Priorities \cup {MaxPriority + 1}, SyscallCreate(p)
    PROVE  SafeInv'
<1> DEFINE s0 == CHOOSE t \in available : \A u \in available : t <= u
<1>0. FirstTask \in Slots
  BY TasksAssumption DEF FirstTask, Slots
<1>1. /\ mode = "user" /\ current \in Slots /\ state[current] = "ACTIVE"
      /\ state \in [Slots -> TaskStates] /\ r0 \in [Slots -> Results]
      /\ UNCHANGED <<registered, irqEnabled, txfe>>
  BY KernelTypes DEF SyscallCreate, Trap, eventVars, uartVars
<1>2. CASE /\ mode' = "return" /\ UNCHANGED state
           /\ \E x \in {-1, -2} : r0' = [r0 EXCEPT ![current] = x]
  BY <1>0, <1>1, <1>2, SafeStep DEF SafeInv, IdleOK
<1>3. CASE /\ available # {} /\ state' = [state EXCEPT ![s0] = "RUNNABLE"]
           /\ r0' = [r0 EXCEPT ![current] = Positive, ![s0] = 0]
           /\ mode' = IF state[s0] = "ZOMBIE" THEN "return" ELSE "panic"
  <2>1. PICK s \in available : s = s0
    BY <1>3, LowestIsAvailable, Zenon DEF KernelInv, TypeOK
  <2> HIDE DEF s0
  <2>2. s \in Slots /\ state[s] = "ZOMBIE"
    BY <2>1 DEF KernelInv, TypeOK, SlotsExact, SlotZeroUnused
  <2>3. /\ mode' = "return" /\ state' = [state EXCEPT ![s] = "RUNNABLE"]
        /\ r0' = [r0 EXCEPT ![current] = Positive, ![s] = 0]
    BY <1>3, <2>1, <2>2
  <2> QED BY <1>0, <1>1, <2>2, <2>3, SafeStep DEF SafeInv, IdleOK
<1> QED BY <1>2, <1>3 DEF SyscallCreate, TaskInit, taskVars

\* AwaitEvent enables the interrupt as its task starts to wait; a task that waits for
\* another event keeps its registration.
LEMMA AwaitSafe ==
    ASSUME FirstTask \in NeverBlocks, KernelInv, SafeInv,
           NEW e \in AwaitedEvents, SyscallAwaitEvent(e)
    PROVE  SafeInv'
<1>0. FirstTask \in Slots
  BY TasksAssumption DEF FirstTask, Slots
<1>1. /\ mode = "user" /\ mode' = "return" /\ current \in Slots /\ state[current] = "ACTIVE"
      /\ current # FirstTask /\ state \in [Slots -> TaskStates] /\ r0 \in [Slots -> Results]
      /\ registered \in [Events -> Slots \cup {NULL}] /\ irqEnabled \subseteq Events
      /\ txfe' = txfe /\ current # NULL /\ TRAIN_TX \in Events
  BY KernelTypes, NullAssumption
  DEF SyscallAwaitEvent, Trap, KernelInv, TypeOK, TRAIN_TX, Events, MaxEventId
<1>2. CASE /\ UNCHANGED <<state, registered, irqEnabled>>
           /\ \E x \in {-1, -3} : r0' = [r0 EXCEPT ![current] = x]
  BY <1>0, <1>1, <1>2, SafeStep DEF SafeInv, IdleOK
<1>3. CASE /\ e \in Events /\ ~ EventHasTask(e)
           /\ registered' = [registered EXCEPT ![e] = current]
           /\ state' = [state EXCEPT ![current] = "EVENT_BLOCKED"]
           /\ irqEnabled' = irqEnabled \cup ({e} \ {TIMER})
           /\ r0' = [r0 EXCEPT ![current] = BadData]
  <2>1. EventHasTask(e)'
    BY <1>1, <1>3 DEF EventHasTask
  <2>2. \A d \in Events : EventHasTask(d) => d # e /\ EventHasTask(d)'
    BY <1>1, <1>3 DEF EventHasTask
  <2>3. \A d \in irqEnabled' : EventHasTask(d)'
    BY <1>1, <1>3, <2>1, <2>2 DEF SafeInv, WatchedOK
  <2>4. txfe' => EventHasTask(TRAIN_TX)' /\ TRAIN_TX \notin irqEnabled'
    BY <1>1, <1>3, <2>2 DEF SafeInv, WatchedOK
  <2>5. \A s \in Slots : state'[s] = "EVENT_BLOCKED" => r0'[s] = BadData
    BY <1>1, <1>3 DEF SafeInv, WatchedOK
  <2>6. WatchedOK'
    BY <2>3, <2>4, <2>5 DEF WatchedOK
  <2> QED BY <1>0, <1>1, <1>3, <2>6 DEF SafeInv, IdleOK, NoPanic
<1> QED BY <1>2, <1>3 DEF SyscallAwaitEvent, eventVars

\* The assertions of event_handle hold for a task that waits, and the registrations of
\* the other events are those of other tasks.
LEMMA EventTaken ==
    ASSUME KernelInv, EventsOK, SafeInv, NEW e \in Events, EventHasTask(e), EventHandle(e),
           irqEnabled' \subseteq irqEnabled, e \notin irqEnabled',
           txfe' => txfe /\ e # TRAIN_TX
    PROVE  SafeInv'
<1>0. FirstTask \in Slots /\ TRAIN_TX \in Events
  BY TasksAssumption DEF FirstTask, Slots, TRAIN_TX, Events, MaxEventId
<1>1. /\ state \in [Slots -> TaskStates] /\ r0 \in [Slots -> Results]
      /\ registered \in [Events -> Slots \cup {NULL}] /\ irqEnabled \subseteq Events
  BY KernelTypes DEF KernelInv, TypeOK
<1>2. PICK t \in Slots : /\ t = registered[e] /\ state[t] = "EVENT_BLOCKED"
                         /\ blockedOn[t] = e /\ r0[t] = BadData
  BY <1>1 DEF EventHasTask, EventsOK, EventsExact, SafeInv, WatchedOK
<1>3. /\ mode' = "return" /\ r0' = [r0 EXCEPT ![t] = 0]
      /\ state' = [state EXCEPT ![t] = "RUNNABLE"]
      /\ registered' = [registered EXCEPT ![e] = NULL]
  BY <1>2 DEF EventHandle
<1>4. \A d \in Events \ {e} : EventHasTask(d) => EventHasTask(d)'
  <2> SUFFICES ASSUME NEW d \in Events \ {e}, EventHasTask(d) PROVE EventHasTask(d)'
    OBVIOUS
  <2>1. PICK u \in Slots : u = registered[d] /\ state[u] = "EVENT_BLOCKED" /\ u # NULL
    BY <1>1 DEF EventHasTask
  <2>2. blockedOn[u] = d
    BY <2>1 DEF EventsOK, EventsExact
  <2>3. registered'[d] = u /\ state'[u] = "EVENT_BLOCKED"
    BY <1>1, <1>2, <1>3, <2>1, <2>2
  <2> QED BY <2>1, <2>3 DEF EventHasTask
<1>5. WatchedOK'
  <2>1. \A d \in irqEnabled' : EventHasTask(d)'
    BY <1>1, <1>4 DEF SafeInv, WatchedOK
  <2>2. txfe' => EventHasTask(TRAIN_TX)' /\ TRAIN_TX \notin irqEnabled'
    BY <1>0, <1>4 DEF SafeInv, WatchedOK
  <2>3. \A s \in Slots : state'[s] = "EVENT_BLOCKED" => r0'[s] = BadData
    BY <1>1, <1>3 DEF SafeInv, WatchedOK
  <2> QED BY <2>1, <2>2, <2>3 DEF WatchedOK
<1> QED BY <1>0, <1>1, <1>2, <1>3, <1>5 DEF SafeInv, IdleOK, NoPanic

\* An interrupt that wakes nobody.
LEMMA NobodyWoken ==
    ASSUME KernelInv, SafeInv, mode' = "return", UNCHANGED <<state, r0, registered>>,
           irqEnabled' \subseteq irqEnabled,
           txfe' => EventHasTask(TRAIN_TX) /\ TRAIN_TX \notin irqEnabled'
    PROVE  SafeInv'
<1>1. \A d \in Events : EventHasTask(d)' <=> EventHasTask(d)
  BY DEF EventHasTask
<1>2. irqEnabled \subseteq Events /\ TRAIN_TX \in Events
  BY DEF KernelInv, TypeOK, TRAIN_TX, Events, MaxEventId
<1>3. WatchedOK'
  <2>1. \A d \in irqEnabled' : EventHasTask(d)'
    BY <1>1, <1>2 DEF SafeInv, WatchedOK
  <2>2. txfe' => EventHasTask(TRAIN_TX)' /\ TRAIN_TX \notin irqEnabled'
    BY <1>1, <1>2
  <2>3. \A s \in Slots : state'[s] = "EVENT_BLOCKED" => r0'[s] = BadData
    BY DEF SafeInv, WatchedOK
  <2> QED BY <2>1, <2>2, <2>3 DEF WatchedOK
<1> QED BY <1>3 DEF SafeInv, IdleOK, NoPanic

\* No event comes that nobody waits for: the interrupts of the devices are enabled only
\* while somebody does, and the timer is assumed not to be early.
LEMMA InterruptSafe ==
    ASSUME TimerIsTimely, KernelInv, EventsOK, SafeInv, InterruptStep
    PROVE  SafeInv'
<1>0. TRAIN_TX \in Events /\ TRAIN_TX # TIMER
  BY DEF TRAIN_TX, TIMER, Events, MaxEventId
<1>1. CASE ModemInterrupt
  <2>1. PICK up \in BOOLEAN : TrainSend(txfe, cts \/ up)
    BY <1>1 DEF ModemInterrupt
  <2>2. irqEnabled' = irqEnabled
    BY <1>1 DEF ModemInterrupt
  <2>3. CASE txfe /\ (cts \/ up)
    <3>1. EventHandle(TRAIN_TX) /\ txfe' = FALSE /\ EventHasTask(TRAIN_TX)
          /\ TRAIN_TX \notin irqEnabled
      BY <2>1, <2>3 DEF TrainSend, SafeInv, WatchedOK
    <3> QED BY <1>0, <2>2, <3>1, EventTaken
  <2>4. CASE ~ (txfe /\ (cts \/ up))
    <3>1. txfe' = txfe /\ mode' = "return" /\ UNCHANGED <<state, r0, registered>>
      BY <2>1, <2>4 DEF TrainSend, NoEvent, eventVars
    <3>2. txfe => EventHasTask(TRAIN_TX) /\ TRAIN_TX \notin irqEnabled
      BY DEF SafeInv, WatchedOK
    <3> QED BY <2>2, <3>1, <3>2, NobodyWoken
  <2> QED BY <2>3, <2>4
<1>2. ASSUME NEW e \in Events, HardwareInterrupt(e) PROVE SafeInv'
  <2>1. irqEnabled' = irqEnabled \ {e}
    BY <1>2 DEF HardwareInterrupt, InterruptClear
  <2>2. CASE e = TRAIN_TX
    <3>1. TrainSend(TRUE, cts) /\ EventHasTask(TRAIN_TX)
      BY <1>0, <1>2, <2>2 DEF HardwareInterrupt, SafeInv, WatchedOK
    <3>2. CASE cts
      <4>1. EventHandle(TRAIN_TX) /\ txfe' = FALSE
        BY <3>1, <3>2 DEF TrainSend
      <4> QED BY <2>1, <2>2, <3>1, <4>1, EventTaken
    <3>3. CASE ~ cts
      <4>1. mode' = "return" /\ UNCHANGED <<state, r0, registered>>
        BY <3>1, <3>3 DEF TrainSend, NoEvent, eventVars
      <4> QED BY <2>1, <2>2, <3>1, <4>1, NobodyWoken
    <3> QED BY <3>2, <3>3
  <2>3. CASE e # TRAIN_TX
    <3>1. /\ EventHandle(e) /\ txfe' = txfe
          /\ EventHasTask(e) \/ e \notin everRegistered
      BY <1>2, <2>3 DEF HardwareInterrupt, SafeInv, WatchedOK
    <3>2. CASE EventHasTask(e)
      BY <2>1, <2>3, <3>1, <3>2, EventTaken
    <3>3. CASE ~ EventHasTask(e)
      <4>1. mode' = "return" /\ UNCHANGED <<state, r0, registered>>
        BY <3>1, <3>3 DEF EventHandle, eventVars
      <4>2. txfe => EventHasTask(TRAIN_TX) /\ TRAIN_TX \notin irqEnabled
        BY DEF SafeInv, WatchedOK
      <4> QED BY <2>1, <3>1, <4>1, <4>2, NobodyWoken
    <3> QED BY <3>2, <3>3
  <2> QED BY <2>2, <2>3
<1> QED BY <1>1, <1>2 DEF InterruptStep

\* The assertions of event_deregister hold for a victim that is ready, so it is not
\* registered for an event.
LEMMA KillSafe ==
    ASSUME KillStates \subseteq {"RUNNABLE"}, FirstTask \in NeverBlocks,
           KernelInv, MessagesInv, SafeInv, NEW tid \in Tids, SyscallKill(tid)
    PROVE  SafeInv'
<1> DEFINE v == SlotOf(tid)
<1>0. FirstTask \in Slots
  BY TasksAssumption DEF FirstTask, Slots
<1>1. /\ mode = "user" /\ current \in Slots /\ state[current] = "ACTIVE" /\ v \in Slots
      /\ state \in [Slots -> TaskStates] /\ r0 \in [Slots -> Results]
  BY KernelTypes, SlotOfIsSlot DEF SyscallKill, Trap, Tids
<1> HIDE DEF v
<1>2. CASE \E x \in {-1, -2} : Refuse(x)
  <2>1. /\ mode' = "return" /\ UNCHANGED <<state, registered, irqEnabled, txfe>>
        /\ \E x \in {-1, -2} : r0' = [r0 EXCEPT ![current] = x]
    BY <1>2 DEF Refuse, taskVars, eventVars, uartVars
  <2> QED BY <1>0, <1>1, <2>1, SafeStep DEF SafeInv, IdleOK
<1>3. CASE state[v] = "RUNNABLE" /\ v \notin NeverBlocks /\ KillTask(v)
  <2>1. /\ mode' = "clear" /\ UNCHANGED <<registered, irqEnabled, txfe>> /\ v # FirstTask
        /\ state' = [state EXCEPT ![v] = "ZOMBIE"]
        /\ r0' = [r0 EXCEPT ![v] = 0, ![current] = 0]
    BY <1>1, <1>3 DEF KillTask, DropEvent, eventVars, uartVars
  <2> QED BY <1>0, <1>1, <1>3, <2>1, SafeStep DEF SafeInv, IdleOK
<1>4. state[v] = "RUNNABLE" => DeregisterAsserts(v)
  <2> SUFFICES ASSUME state[v] = "RUNNABLE" PROVE DeregisterAsserts(v)
    OBVIOUS
  <2>1. nextGeneration[v] > 0
    BY <1>1 DEF MessagesInv, LiveOK
  <2> QED BY <1>1, <2>1 DEF DeregisterAsserts, MessagesInv, EventsOK, EventsExact
<1> QED BY <1>2, <1>3, <1>4 DEF SyscallKill, v

----------------------------------------------------------------------------
\* Together with the other three the invariant is inductive.
LEMMA StepSafe ==
    ASSUME KillStates \subseteq {"RUNNABLE"}, "Pass" \notin Workload,
           FirstTask \in NeverBlocks, TimerIsTimely,
           KernelInv, MessagesInv, ReadyInv, SafeInv, [Next]_vars
    PROVE  SafeInv'
<1>1. CASE KernelStep
  BY <1>1, ScheduleSafe, LoopSafe DEF KernelStep
<1>2. CASE UserStep
  <2>1. ~ SyscallPass
    BY DEF SyscallPass, Trap
  <2>2. mode = "user"
    BY <1>2 DEF UserStep, SyscallPass, SyscallExit, SyscallCreate, SyscallSend, SyscallReceive,
                SyscallReply, SyscallAwaitEvent, SyscallKill, Trap
  <2> QED BY <1>2, <2>1, <2>2, CallSafe, CreateSafe, AwaitSafe, KillSafe DEF UserStep
<1>3. CASE InterruptStep
  BY <1>3, InterruptSafe DEF MessagesInv
<1>4. CASE UNCHANGED vars
  <2>1. UNCHANGED <<mode, state, r0, registered, irqEnabled, txfe>>
    BY <1>4 DEF vars, taskVars, eventVars, uartVars
  <2> QED BY <2>1, SafeStep DEF SafeInv, NoPanic, IdleOK
<1> QED BY <1>1, <1>2, <1>3, <1>4 DEF Next

\* No kassert of the kernel fails, and it never goes through the trap frame of a dead
\* task, if only ready tasks are killed, nobody calls Pass, the first task never blocks
\* and the timer does not tick while its notifier is away.
THEOREM NeverPanics ==
    ASSUME KillStates \subseteq {"RUNNABLE"}, "Pass" \notin Workload,
           FirstTask \in NeverBlocks, TimerIsTimely
    PROVE  Spec => []NoPanic
<1>1. KernelInv /\ MessagesInv /\ ReadyInv /\ SafeInv /\ [Next]_vars => SafeInv'
  BY StepSafe
<1>2. SafeInv => NoPanic
  BY DEF SafeInv
<1> QED BY <1>1, <1>2, InitSafe, ReadyHolds, PTL DEF Spec

----------------------------------------------------------------------------
(* Rendezvous.  No task may be killed that waits in a message, which it      *)
(* promises nothing about.                                                   *)

\* The variables of Rendezvous.
PhaseOf == [s \in Slots |-> Phase(s)]
Inbox == [s \in Slots |-> SendQueue(s)]

\* The task whose senders are let go is dead.
ClearedIsDead == mode = "clear" => clearing \in Slots /\ state[clearing] = "ZOMBIE"

----------------------------------------------------------------------------
\* What a task is doing, by its state.
LEMMA PhaseOfState ==
    ASSUME KernelInv, NEW s \in Slots
    PROVE  /\ state[s] \in TaskStates /\ PhaseOf[s] = Phase(s)
           /\ state[s] = "ZOMBIE" <=> Phase(s) = "absent"
           /\ state[s] = "RECEIVE_BLOCKED" <=> Phase(s) = "sending"
           /\ state[s] = "SEND_BLOCKED" <=> Phase(s) = "receiving"
           /\ state[s] = "REPLY_BLOCKED" <=> Phase(s) = "awaiting"
           /\ state[s] \in {"ACTIVE", "RUNNABLE", "EVENT_BLOCKED"} <=> Phase(s) = "free"
<1>1. state[s] \in TaskStates
  BY DEF KernelInv, TypeOK
<1> QED BY <1>1 DEF PhaseOf, Phase, TaskStates

\* One task changes its state.
LEMMA OnePhase ==
    ASSUME state \in [Slots -> TaskStates], NEW t \in Slots, NEW st,
           state' = [state EXCEPT ![t] = st]
    PROVE  PhaseOf' = [PhaseOf EXCEPT ![t] = Phase(t)']
<1>1. \A s \in Slots \ {t} : Phase(s)' = Phase(s)
  BY DEF Phase
<1> QED BY <1>1 DEF PhaseOf

\* The inboxes are what the pointers of the send queues stand for.
LEMMA InboxHolds ==
    ASSUME KernelInv, MessagesInv
    PROVE  /\ Holds(sq, Slots, Slots, Inbox) /\ Inbox \in [Slots -> Seq(Slots)]
           /\ \A r, s \in Slots : On(Inbox, r, s) => state[s] = "RECEIVE_BLOCKED"
<1>1. PICK u \in [Slots -> Seq(Slots)] : SendQueuesAre(u)
  BY DEF MessagesInv, SendQueuesOK
<1>2. \A r \in Slots : SendQueue(r) = u[r]
  BY <1>1, FamilyContents DEF SendQueuesAre, SendQueue
<1>3. Inbox = u
  BY <1>2 DEF Inbox
<1> QED BY <1>1, <1>3 DEF SendQueuesAre

\* The same after a step.
LEMMA InboxAfter ==
    ASSUME NEW v \in [Slots -> Seq(Slots)], Holds(sq', Slots, Slots, v)
    PROVE  Inbox' = v
<1>1. \A r \in Slots : Contents(sq', r, MaxTasks) = v[r]
  BY FamilyContents
<1> QED BY <1>1 DEF Inbox, SendQueue

\* A step that is none for the messages.
LEMMA NoMessage ==
    ASSUME KernelInv, UNCHANGED sq, \A s \in Slots : Phase(s)' = Phase(s)
    PROVE  [Messages!Next]_(Messages!vars)
<1>1. PhaseOf' = PhaseOf /\ Inbox' = Inbox
  BY DEF PhaseOf, Inbox, SendQueue
<1> QED BY <1>1 DEF Messages!vars, PhaseOf, Inbox

\* Steps of Rendezvous, in terms of its variables.
LEMMA PhaseStep ==
    ASSUME NEW t \in Slots, Inbox' = Inbox,
           \/ /\ PhaseOf[t] = "absent" /\ Inbox[t] = << >>
              /\ PhaseOf' = [PhaseOf EXCEPT ![t] = "free"]
           \/ PhaseOf[t] = "free" /\ PhaseOf' = [PhaseOf EXCEPT ![t] = "absent"]
           \/ /\ PhaseOf[t] = "free" /\ Inbox[t] = << >>
              /\ PhaseOf' = [PhaseOf EXCEPT ![t] = "receiving"]
           \/ PhaseOf[t] = "awaiting" /\ PhaseOf' = [PhaseOf EXCEPT ![t] = "free"]
    PROVE  Messages!Next
<1>1. Messages!Appear(t) \/ Messages!Vanish(t) \/ Messages!Wait(t) \/ Messages!Answer(t)
  BY DEF Messages!Appear, Messages!Vanish, Messages!Wait, Messages!Answer, PhaseOf, Inbox
<1> QED BY <1>1 DEF Messages!Next

\* What a task is doing after a step.
LEMMA PhaseAfter ==
    ASSUME NEW s \in Slots
    PROVE  /\ state'[s] = "ZOMBIE" => Phase(s)' = "absent"
           /\ state'[s] = "RECEIVE_BLOCKED" => Phase(s)' = "sending"
           /\ state'[s] = "SEND_BLOCKED" => Phase(s)' = "receiving"
           /\ state'[s] = "REPLY_BLOCKED" => Phase(s)' = "awaiting"
           /\ state'[s] \in {"ACTIVE", "RUNNABLE", "EVENT_BLOCKED"} => Phase(s)' = "free"
BY DEF Phase

\* A task changes its state, but not what it is doing as far as messages go.
LEMMA SamePhase ==
    ASSUME KernelInv, UNCHANGED sq,
           \/ state' = state
           \/ \E t \in Slots : \E st \in {"ACTIVE", "RUNNABLE", "EVENT_BLOCKED"} :
                 /\ state[t] \in {"ACTIVE", "RUNNABLE", "EVENT_BLOCKED"}
                 /\ state' = [state EXCEPT ![t] = st]
    PROVE  [Messages!Next]_(Messages!vars)
<1>1. \A s \in Slots : Phase(s)' = Phase(s)
  <2>1. CASE state' = state
    BY <2>1 DEF Phase
  <2>2. ASSUME NEW t \in Slots, NEW st \in {"ACTIVE", "RUNNABLE", "EVENT_BLOCKED"},
               state[t] \in {"ACTIVE", "RUNNABLE", "EVENT_BLOCKED"},
               state' = [state EXCEPT ![t] = st]
        PROVE  \A s \in Slots : Phase(s)' = Phase(s)
    <3>1. \A s \in Slots \ {t} : Phase(s)' = Phase(s)
      BY <2>2 DEF Phase
    <3>2. Phase(t)' = "free" /\ Phase(t) = "free"
      BY <2>2, PhaseOfState, PhaseAfter DEF KernelInv, TypeOK
    <3> QED BY <3>1, <3>2
  <2> QED BY <2>1, <2>2
<1> QED BY <1>1, NoMessage

\* The inbox of a task is empty exactly when its send queue is.
LEMMA InboxEmpty ==
    ASSUME NEW r \in Slots, IsEmpty(sq, r)
    PROVE  Inbox[r] = << >>
BY DEF Inbox, SendQueue, Contents

\* The first sender is taken off a queue.
LEMMA SenderOff ==
    ASSUME KernelInv, MessagesInv, NEW r \in Slots, ~ IsEmpty(sq, r),
           sq' = Dequeue(sq, r)
    PROVE  /\ Inbox[r] # << >> /\ Head(Inbox[r]) = sq.head[r]
           /\ sq.head[r] \in Slots /\ PhaseOf[sq.head[r]] = "sending"
           /\ Inbox' = [Inbox EXCEPT ![r] = Tail(Inbox[r])]
<1>1. Holds(sq, Slots, Slots, Inbox)
  BY InboxHolds
<1>2. Represents(sq, r, Inbox[r])
  BY <1>1 DEF Holds
<1>3. Inbox[r] # << >>
  BY <1>2 DEF Represents, IsEmpty
<1>4. sq.head[r] = Head(Inbox[r]) /\ Holds(sq', Slots, Slots, Served(Inbox, r))
  BY <1>1, <1>3, DequeueInFamily, NullAssumption
<1>5. Inbox' = Served(Inbox, r)
  BY <1>4, InboxAfter DEF Holds
<1>6. sq.head[r] \in Slots /\ PhaseOf[sq.head[r]] = "sending"
  BY SenderIsBlocked, PhaseOfState DEF MessagesInv
<1> QED BY <1>3, <1>4, <1>5, <1>6 DEF Served

----------------------------------------------------------------------------
(* One lemma per action that is a step of Rendezvous. *)

\* The last task of a slot is dead and has no senders: the new one starts free.
LEMMA CreateStep ==
    ASSUME KernelInv, MessagesInv, NEW p \in Priorities \cup {MaxPriority + 1},
           SyscallCreate(p)
    PROVE  [Messages!Next]_(Messages!vars)
<1> DEFINE s0 == CHOOSE t \in available : \A u \in available : t <= u
<1>1. state \in [Slots -> TaskStates] /\ sq \in Families(Slots, Slots) /\ clearing = NULL
  BY DEF KernelInv, TypeOK, MessagesInv, ClearingOK, SyscallCreate, Trap
<1>2. CASE UNCHANGED <<taskVars, sq>>
  BY <1>2, SamePhase DEF taskVars
<1>3. CASE available # {} /\ TaskInit(s0, p)
  <2>1. PICK s \in available : s = s0
    BY <1>3, LowestIsAvailable, Zenon DEF KernelInv, TypeOK
  <2> HIDE DEF s0
  <2>2. s \in Slots /\ state[s] = "ZOMBIE"
    BY <2>1 DEF KernelInv, TypeOK, SlotsExact, SlotZeroUnused
  <2>3. state' = [state EXCEPT ![s] = "RUNNABLE"] /\ sq' = [sq EXCEPT !.head[s] = NULL]
    BY <1>3, <2>1 DEF TaskInit
  <2>4. sq.head[s] = NULL
    BY <1>1, <2>2, DeadHasNoSenders
  <2>5. sq' = sq /\ IsEmpty(sq, s)
    BY <1>1, <2>2, <2>3, <2>4 DEF Families, IsEmpty
  <2>6. Inbox' = Inbox /\ Inbox[s] = << >>
    BY <2>2, <2>5, InboxEmpty DEF Inbox, SendQueue
  <2>7. PhaseOf[s] = "absent" /\ PhaseOf' = [PhaseOf EXCEPT ![s] = "free"]
    <3>1. PhaseOf' = [PhaseOf EXCEPT ![s] = Phase(s)'] /\ state'[s] = "RUNNABLE"
      BY <1>1, <2>2, <2>3, OnePhase
    <3> QED BY <2>2, <3>1, PhaseOfState, PhaseAfter
  <2> QED BY <2>2, <2>6, <2>7, PhaseStep
<1> QED BY <1>2, <1>3 DEF SyscallCreate

\* A task that can run dies, by Exit or by Kill.
LEMMA DeathStep ==
    ASSUME KernelInv, UNCHANGED sq, NEW t \in Slots,
           state[t] \in {"ACTIVE", "RUNNABLE", "EVENT_BLOCKED"},
           state' = [state EXCEPT ![t] = "ZOMBIE"]
    PROVE  [Messages!Next]_(Messages!vars)
<1>1. state \in [Slots -> TaskStates] /\ Inbox' = Inbox
  BY DEF KernelInv, TypeOK, Inbox, SendQueue
<1>2. PhaseOf' = [PhaseOf EXCEPT ![t] = Phase(t)'] /\ state'[t] = "ZOMBIE"
  BY <1>1, OnePhase
<1>3. PhaseOf[t] = "free" /\ PhaseOf' = [PhaseOf EXCEPT ![t] = "absent"]
  BY <1>2, PhaseOfState, PhaseAfter
<1> QED BY <1>1, <1>3, PhaseStep

\* Send: the message is handed over, or the sender queues up.
LEMMA SendStep ==
    ASSUME KernelInv, MessagesInv, NEW tid \in Tids, NEW fits \in BOOLEAN,
           SyscallSend(tid, fits)
    PROVE  [Messages!Next]_(Messages!vars)
<1>1. PICK r \in Slots : r = SlotOf(tid)
  BY SlotOfIsSlot DEF Tids
<1>2. PICK c \in Slots : /\ c = current /\ state[c] = "ACTIVE" /\ PhaseOf[c] = "free"
                         /\ state \in [Slots -> TaskStates]
  BY PhaseOfState DEF KernelInv, TypeOK, ControlOK, SyscallSend, Trap
<1>3. CASE UNCHANGED <<state, sq>>
  BY <1>3, SamePhase
<1>4. CASE /\ state[r] = "SEND_BLOCKED" /\ UNCHANGED sq
           /\ state' = [state EXCEPT ![c] = "REPLY_BLOCKED", ![r] = "RUNNABLE"]
  <2>1. Inbox' = Inbox /\ PhaseOf[r] = "receiving" /\ r # c
    BY <1>2, <1>4, PhaseOfState DEF Inbox, SendQueue
  <2>2. Phase(c)' = "awaiting" /\ Phase(r)' = "free"
    BY <1>2, <1>4, <2>1, PhaseAfter
  <2>3. \A s \in Slots \ {c, r} : Phase(s)' = Phase(s)
    BY <1>2, <1>4 DEF Phase
  <2>4. PhaseOf' = [PhaseOf EXCEPT ![c] = "awaiting", ![r] = "free"]
    BY <1>2, <2>1, <2>2, <2>3 DEF PhaseOf
  <2>5. Messages!Hand(c, r)
    BY <1>2, <2>1, <2>4 DEF Messages!Hand, PhaseOf, Inbox
  <2> QED BY <1>2, <2>5 DEF Messages!Next
<1>5. CASE /\ state[r] \notin {"ZOMBIE", "SEND_BLOCKED"} /\ sq' = Enqueue(sq, r, c)
           /\ state' = [state EXCEPT ![c] = "RECEIVE_BLOCKED"]
  <2>1. PhaseOf[r] \notin {"absent", "receiving"}
    BY <1>5, PhaseOfState
  <2>2. Inbox' = [Inbox EXCEPT ![r] = Append(Inbox[r], c)]
    <3>1. Holds(sq, Slots, Slots, Inbox) /\ \A j \in Slots : ~ On(Inbox, j, c)
      BY <1>2, InboxHolds
    <3>2. Holds(sq', Slots, Slots, Joined(Inbox, r, c))
      BY <1>2, <1>5, <3>1, EnqueueInFamily, NullAssumption
    <3>3. Inbox' = Joined(Inbox, r, c)
      BY <3>2, InboxAfter DEF Holds
    <3> QED BY <3>3 DEF Joined
  <2>3. PhaseOf' = [PhaseOf EXCEPT ![c] = "sending"]
    <3>1. PhaseOf' = [PhaseOf EXCEPT ![c] = Phase(c)']
          /\ state'[c] = "RECEIVE_BLOCKED"
      BY <1>2, <1>5, OnePhase
    <3> QED BY <1>2, <3>1, PhaseAfter
  <2>4. Messages!Post(c, r)
    BY <1>2, <2>1, <2>2, <2>3 DEF Messages!Post, PhaseOf, Inbox
  <2> QED BY <1>2, <2>4 DEF Messages!Next
<1> QED BY <1>1, <1>2, <1>3, <1>4, <1>5 DEF SyscallSend, SendTo

\* Receive: the caller waits, or takes the message that was sent to it first.
LEMMA ReceiveStep ==
    ASSUME KernelInv, MessagesInv, NEW fits \in BOOLEAN, SyscallReceive(fits)
    PROVE  [Messages!Next]_(Messages!vars)
<1>1. PICK c \in Slots : /\ c = current /\ state[c] = "ACTIVE" /\ PhaseOf[c] = "free"
                         /\ state \in [Slots -> TaskStates]
  BY PhaseOfState DEF KernelInv, TypeOK, ControlOK, SyscallReceive, Trap
<1>2. CASE IsEmpty(sq, c)
  <2>1. state' = [state EXCEPT ![c] = "SEND_BLOCKED"] /\ UNCHANGED sq
    BY <1>1, <1>2 DEF SyscallReceive
  <2>2. Inbox' = Inbox /\ Inbox[c] = << >>
    BY <1>1, <1>2, <2>1, InboxEmpty DEF Inbox, SendQueue
  <2>3. PhaseOf' = [PhaseOf EXCEPT ![c] = Phase(c)']
        /\ state'[c] = "SEND_BLOCKED"
    BY <1>1, <2>1, OnePhase
  <2>4. PhaseOf' = [PhaseOf EXCEPT ![c] = "receiving"]
    BY <1>1, <2>3, PhaseAfter
  <2> QED BY <1>1, <2>2, <2>4, PhaseStep
<1>3. CASE ~ IsEmpty(sq, c)
  <2>1. sq' = Dequeue(sq, c)
    BY <1>1, <1>3 DEF SyscallReceive, TakeSender
  <2>2. PICK sender \in Slots : sender = sq.head[c] /\ state[sender] = "RECEIVE_BLOCKED"
    BY <1>1, <1>3, SenderIsBlocked DEF MessagesInv
  <2>3. state' = [state EXCEPT ![c] = "RUNNABLE", ![sender] = "REPLY_BLOCKED"]
    BY <1>1, <1>3, <2>2 DEF SyscallReceive
  <2>4. /\ Inbox[c] # << >> /\ Head(Inbox[c]) = sender
        /\ PhaseOf[sender] = "sending"
        /\ Inbox' = [Inbox EXCEPT ![c] = Tail(Inbox[c])]
    BY <1>1, <1>3, <2>1, <2>2, SenderOff
  <2>5. Phase(sender)' = "awaiting" /\ Phase(c)' = "free" /\ Phase(c) = "free"
    BY <1>1, <2>2, <2>3, PhaseAfter, PhaseOfState
  <2>6. \A s \in Slots \ {c, sender} : Phase(s)' = Phase(s)
    BY <1>1, <2>2, <2>3 DEF Phase
  <2>7. PhaseOf' = [PhaseOf EXCEPT ![sender] = "awaiting"]
    BY <1>1, <2>2, <2>5, <2>6 DEF PhaseOf
  <2>8. Messages!Take(c)
    BY <1>1, <2>4, <2>7 DEF Messages!Take, PhaseOf, Inbox
  <2> QED BY <1>1, <2>8 DEF Messages!Next
<1> QED BY <1>2, <1>3

\* Reply answers a task that waits for an answer, or changes nothing.
LEMMA ReplyStep ==
    ASSUME KernelInv, NEW tid \in Tids, NEW fits \in BOOLEAN, SyscallReply(tid, fits)
    PROVE  [Messages!Next]_(Messages!vars)
<1>1. PICK t \in Slots : t = SlotOf(tid)
  BY SlotOfIsSlot DEF Tids
<1>2. UNCHANGED sq /\ Inbox' = Inbox /\ state \in [Slots -> TaskStates]
  BY DEF SyscallReply, Inbox, SendQueue, KernelInv, TypeOK
<1>3. CASE state' = state
  BY <1>2, <1>3, SamePhase
<1>4. CASE state[t] = "REPLY_BLOCKED" /\ state' = [state EXCEPT ![t] = "RUNNABLE"]
  <2>1. PhaseOf' = [PhaseOf EXCEPT ![t] = Phase(t)'] /\ state'[t] = "RUNNABLE"
    BY <1>2, <1>4, OnePhase
  <2>2. PhaseOf[t] = "awaiting" /\ PhaseOf' = [PhaseOf EXCEPT ![t] = "free"]
    BY <1>4, <2>1, PhaseOfState, PhaseAfter
  <2> QED BY <1>2, <2>2, PhaseStep
<1> QED BY <1>1, <1>3, <1>4 DEF SyscallReply

\* One turn of clear_send_queue lets the first sender of a dead task go.
LEMMA ClearStep ==
    ASSUME KernelInv, MessagesInv, ClearedIsDead, ClearSendQueue
    PROVE  [Messages!Next]_(Messages!vars)
<1>1. PICK r \in Slots : /\ r = clearing /\ PhaseOf[r] = "absent"
                         /\ sq' = Dequeue(sq, r) /\ state \in [Slots -> TaskStates]
  BY PhaseOfState DEF ClearedIsDead, ClearSendQueue, KernelInv, TypeOK
<1>2. CASE IsEmpty(sq, r)
  <2>1. UNCHANGED <<state, sq>>
    BY <1>1, <1>2 DEF ClearSendQueue, Dequeue
  <2> QED BY <2>1, SamePhase
<1>3. CASE ~ IsEmpty(sq, r)
  <2>1. PICK sender \in Slots : sender = sq.head[r] /\ state[sender] = "RECEIVE_BLOCKED"
    BY <1>1, <1>3, SenderIsBlocked DEF MessagesInv
  <2>2. state' = [state EXCEPT ![sender] = "RUNNABLE"]
    BY <1>1, <1>3, <2>1 DEF ClearSendQueue
  <2>3. /\ Inbox[r] # << >> /\ Head(Inbox[r]) = sender
        /\ PhaseOf[sender] = "sending"
        /\ Inbox' = [Inbox EXCEPT ![r] = Tail(Inbox[r])]
    BY <1>1, <1>3, <2>1, SenderOff
  <2>4. PhaseOf' = [PhaseOf EXCEPT ![sender] = Phase(sender)'] /\ state'[sender] = "RUNNABLE"
    BY <1>1, <2>1, <2>2, OnePhase
  <2>5. PhaseOf' = [PhaseOf EXCEPT ![sender] = "free"]
    BY <2>1, <2>4, PhaseAfter
  <2>6. Messages!Refuse(r)
    BY <1>1, <2>3, <2>5 DEF Messages!Refuse, PhaseOf, Inbox
  <2> QED BY <1>1, <2>6 DEF Messages!Next
<1> QED BY <1>2, <1>3

----------------------------------------------------------------------------
\* Exit and Kill bury a task before its queue is cleared, and nobody is brought to life
\* meanwhile.
LEMMA DeadStaysDead ==
    ASSUME KernelInv, MessagesInv, ClearedIsDead, [Next]_vars
    PROVE  ClearedIsDead'
<1>1. /\ state \in [Slots -> TaskStates]
      /\ mode = "user" => current \in Slots /\ state[current] = "ACTIVE"
  BY DEF KernelInv, TypeOK, ControlOK
<1>2. CASE Schedule \/ Return
  BY <1>2 DEF Schedule, Return, ClearedIsDead
<1>3. CASE ClearSendQueue
  <2>1. PICK r \in Slots : r = clearing /\ state[r] = "ZOMBIE"
    BY <1>3 DEF ClearedIsDead, ClearSendQueue
  <2>2. CASE IsEmpty(sq, r)
    BY <1>3, <2>1, <2>2 DEF ClearSendQueue, ClearedIsDead
  <2>3. CASE ~ IsEmpty(sq, r)
    <3>1. PICK sender \in Slots : sender = sq.head[r] /\ state[sender] = "RECEIVE_BLOCKED"
      BY <2>3, SenderIsBlocked DEF MessagesInv
    <3>2. clearing' = clearing /\ state' = [state EXCEPT ![sender] = "RUNNABLE"]
      BY <1>3, <2>1, <2>3, <3>1 DEF ClearSendQueue
    <3> QED BY <1>1, <2>1, <3>1, <3>2 DEF ClearedIsDead
  <2> QED BY <2>2, <2>3
<1>4. CASE SyscallExit
  BY <1>1, <1>4 DEF SyscallExit, Trap, ClearedIsDead
<1>5. ASSUME NEW tid \in Tids, SyscallKill(tid) PROVE ClearedIsDead'
  <2>1. PICK v \in Slots : v = SlotOf(tid)
    BY SlotOfIsSlot DEF Tids
  <2> QED BY <1>1, <1>5, <2>1 DEF SyscallKill, KillTask, Refuse, Crash, ClearedIsDead
<1>6. CASE \/ SyscallPass
           \/ \E p \in Priorities \cup {MaxPriority + 1} : SyscallCreate(p)
           \/ \E tid \in Tids, fits \in BOOLEAN : SyscallSend(tid, fits)
           \/ \E fits \in BOOLEAN : SyscallReceive(fits)
           \/ \E tid \in Tids, fits \in BOOLEAN : SyscallReply(tid, fits)
           \/ \E e \in AwaitedEvents : SyscallAwaitEvent(e)
  <2>1. mode' # "clear"
    BY <1>6 DEF SyscallPass, SyscallCreate, SyscallSend, SyscallReceive, SyscallReply,
       SyscallAwaitEvent
  <2> QED BY <2>1 DEF ClearedIsDead
<1>7. CASE InterruptStep
  <2>1. mode' # "clear"
    BY <1>7, InterruptShape DEF EventHandle, NoEvent, KernelInv
  <2> QED BY <2>1 DEF ClearedIsDead
<1>8. CASE UNCHANGED vars
  BY <1>8 DEF vars, taskVars, ClearedIsDead
<1> QED BY <1>2, <1>3, <1>4, <1>5, <1>6, <1>7, <1>8 DEF Next, KernelStep, UserStep

\* No message has been sent when the kernel starts.
LEMMA InitRendezvous == Init => Messages!Init
<1> SUFFICES ASSUME Init PROVE Messages!Init
  OBVIOUS
<1>1. KernelInv
  BY InitInv
<1>2. \A s \in Slots : Phase(s) \in {"absent", "free"}
  <2>1. \A s \in Slots : state[s] \in {"RUNNABLE", "ZOMBIE"}
    BY DEF Init
  <2> QED BY <1>1, <2>1, PhaseOfState
<1>3. PhaseOf \in [Slots -> {"absent", "free"}]
  BY <1>2 DEF PhaseOf
<1>4. \A r \in Slots : Inbox[r] = << >>
  <2>1. \A r \in Slots : IsEmpty(sq, r)
    BY DEF Init, NoQueues, IsEmpty
  <2> QED BY <2>1, InboxEmpty
<1>5. Inbox = [r \in Slots |-> << >>]
  BY <1>4 DEF Inbox
<1> QED BY <1>3, <1>5 DEF Messages!Init, PhaseOf, Inbox

\* Every step of the kernel is a step of Rendezvous or none.
LEMMA StepRendezvous ==
    ASSUME KillStates \cap {"RECEIVE_BLOCKED", "SEND_BLOCKED", "REPLY_BLOCKED"} = {},
           KernelInv, MessagesInv, ClearedIsDead, [Next]_vars
    PROVE  [Messages!Next]_(Messages!vars)
<1>1. /\ state \in [Slots -> TaskStates] /\ registered \in [Events -> Slots \cup {NULL}]
      /\ mode = "user" => current \in Slots /\ state[current] = "ACTIVE"
      /\ mode = "return" => current \in Slots
  BY DEF KernelInv, TypeOK, ControlOK
<1>2. CASE Schedule
  <2>1. /\ UNCHANGED sq
        /\ \/ state' = state
           \/ /\ nonempty # {} /\ ~ IsEmpty(rq, HighestReady)
              /\ state[rq.head[HighestReady]] \in {"RUNNABLE", "ACTIVE"}
              /\ state' = [state EXCEPT ![rq.head[HighestReady]] = "ACTIVE"]
    BY <1>2 DEF Schedule, taskVars
  <2>2. CASE state' = state
    BY <2>1, <2>2, SamePhase
  <2>3. CASE state' # state
    <3>1. HighestReady \in Priorities
      BY <2>1, <2>3, HighestReadyIsReady DEF KernelInv, TypeOK
    <3> HIDE DEF HighestReady
    <3>2. PICK next \in Slots : next = rq.head[HighestReady]
      BY <2>1, <2>3, <3>1 DEF KernelInv, TypeOK, Families, IsEmpty
    <3> QED BY <2>1, <2>3, <3>2, SamePhase
  <2> QED BY <2>2, <2>3
<1>3. CASE Return
  <2>1. /\ UNCHANGED sq /\ current \in Slots
        /\ \/ state' = state
           \/ /\ state[current] \in {"RUNNABLE", "ACTIVE"}
              /\ state' = [state EXCEPT ![current] = "RUNNABLE"]
    BY <1>1, <1>3 DEF Return
  <2> QED BY <2>1, SamePhase
<1>4. CASE SyscallPass
  BY <1>4, SamePhase DEF SyscallPass, taskVars
<1>5. CASE SyscallExit
  <2>1. /\ UNCHANGED sq /\ current \in Slots /\ state[current] = "ACTIVE"
        /\ state' = [state EXCEPT ![current] = "ZOMBIE"]
    BY <1>1, <1>5 DEF SyscallExit, Trap
  <2> QED BY <2>1, DeathStep
<1>6. ASSUME NEW e \in AwaitedEvents, SyscallAwaitEvent(e)
      PROVE  [Messages!Next]_(Messages!vars)
  <2>1. /\ UNCHANGED sq /\ current \in Slots /\ state[current] = "ACTIVE"
        /\ state' = state \/ state' = [state EXCEPT ![current] = "EVENT_BLOCKED"]
    BY <1>1, <1>6 DEF SyscallAwaitEvent, Trap
  <2> QED BY <2>1, SamePhase
<1>7. ASSUME NEW tid \in Tids, SyscallKill(tid)
      PROVE  [Messages!Next]_(Messages!vars)
  <2>1. PICK v \in Slots : v = SlotOf(tid)
    BY SlotOfIsSlot DEF Tids
  <2>2. CASE UNCHANGED <<state, sq>>
    BY <2>2, SamePhase
  <2>3. CASE /\ state[v] \in KillStates \ {"ZOMBIE"} /\ UNCHANGED sq
             /\ state' = [state EXCEPT ![v] = "ZOMBIE"]
    <3>1. state[v] \in {"ACTIVE", "RUNNABLE", "EVENT_BLOCKED"}
      BY <1>1, <2>3 DEF TaskStates
    <3> QED BY <2>3, <3>1, DeathStep
  <2> QED BY <1>7, <2>1, <2>2, <2>3 DEF SyscallKill, KillTask, Refuse, Crash, taskVars
<1>8. CASE InterruptStep
  <2>1. PICK e \in Events : EventHandle(e) \/ NoEvent
    BY <1>8, InterruptShape DEF KernelInv
  <2>2. /\ UNCHANGED sq
        /\ \/ state' = state
           \/ /\ registered[e] \in Slots /\ state[registered[e]] = "EVENT_BLOCKED"
              /\ state' = [state EXCEPT ![registered[e]] = "RUNNABLE"]
    BY <1>1, <1>8, <2>1, InterruptShape DEF EventHandle, EventHasTask, NoEvent, KernelInv
  <2> QED BY <2>2, SamePhase
<1>9. CASE UNCHANGED vars
  BY <1>9, SamePhase DEF vars, taskVars
<1> QED BY <1>2, <1>3, <1>4, <1>5, <1>6, <1>7, <1>8, <1>9,
           ClearStep, CreateStep, SendStep, ReceiveStep, ReplyStep
        DEF Next, KernelStep, UserStep

\* The kernel implements Rendezvous: a message is handed over once and in the order of
\* the Sends, its sender waits until it is answered, and the senders still queued at a
\* task that dies are let go (messaging.c, send_queue.c, syscall.c).
THEOREM RendezvousImplemented ==
    ASSUME KillStates \cap {"RECEIVE_BLOCKED", "SEND_BLOCKED", "REPLY_BLOCKED"} = {}
    PROVE  Spec => MessagesImplemented
<1>1. "RECEIVE_BLOCKED" \notin KillStates
  OBVIOUS
<1>2. Init => ClearedIsDead
  BY DEF Init, ClearedIsDead
<1>3. KernelInv /\ MessagesInv /\ ClearedIsDead /\ [Next]_vars
         => ClearedIsDead' /\ [Messages!Next]_(Messages!vars)
  BY DeadStaysDead, StepRendezvous
<1> QED BY <1>1, <1>2, <1>3, InitRendezvous, InvariantHolds, MessagesHold, PTL
        DEF Spec, MessagesImplemented, Messages!Spec

----------------------------------------------------------------------------
(* PriorityScheduler, when no kassert fails (NeverPanics).                   *)

\* The variables of PriorityScheduler but rank, which is priority.
Ready == [p \in Priorities |-> ReadyQueue(p)]
Running == IF mode \in {"user", "clear", "return"} THEN current ELSE NULL

\* The abstract queues are what the pointers of the ready queues stand for.
LEMMA ReadyIs ==
    ASSUME KernelInv, ReadyInv
    PROVE  /\ Holds(rq, Priorities, Slots, Ready) /\ Ready \in [Priorities -> Seq(Slots)]
           /\ \A p \in Priorities, s \in Slots :
                 On(Ready, p, s) <=> Queued(s) /\ priority[s] = p
<1>1. PICK w \in [Priorities -> Seq(Slots)] : ReadyQueuesAre(w)
  BY DEF ReadyInv, ReadyQueuesOK
<1>2. \A p \in Priorities : ReadyQueue(p) = w[p]
  BY <1>1, FamilyContents DEF ReadyQueuesAre, ReadyQueue
<1>3. Ready = w
  BY <1>2 DEF Ready
<1> QED BY <1>1, <1>3 DEF ReadyQueuesAre

\* The same after a step.
LEMMA ReadyAfter ==
    ASSUME NEW v \in [Priorities -> Seq(Slots)], Holds(rq', Priorities, Slots, v)
    PROVE  Ready' = v
<1>1. \A p \in Priorities : Contents(rq', p, MaxTasks) = v[p]
  BY FamilyContents
<1> QED BY <1>1 DEF Ready, ReadyQueue

\* A step that is none for the scheduler.
LEMMA NoDispatch ==
    ASSUME UNCHANGED <<rq, priority, Running>>
    PROVE  [Dispatching!Next]_(Dispatching!vars)
<1>1. Ready' = Ready
  BY DEF Ready, ReadyQueue
<1> QED BY <1>1 DEF Dispatching!vars, Ready, Running

\* A task that was blocked, or let go, is put on the queue of its priority.
LEMMA MakeReadyStep ==
    ASSUME KernelInv, ReadyInv, NEW t \in Slots, ~ Queued(t), Running # t,
           Running' = Running, priority' = priority, Register(t)
    PROVE  [Dispatching!Next]_(Dispatching!vars)
<1>1. PICK p \in Priorities : p = priority[t]
  BY KernelTypes
<1>2. Holds(rq, Priorities, Slots, Ready) /\ \A j \in Priorities : ~ On(Ready, j, t)
  BY ReadyIs
<1>3. Holds(rq', Priorities, Slots, Joined(Ready, p, t))
  <2>1. Holds(Enqueue(rq, p, t), Priorities, Slots, Joined(Ready, p, t))
    BY <1>2, EnqueueInFamily, NullAssumption
  <2> QED BY <1>1, <2>1 DEF Register
<1>4. Ready' = [Ready EXCEPT ![p] = Append(Ready[p], t)]
  <2>1. Ready' = Joined(Ready, p, t)
    BY <1>3, ReadyAfter DEF Holds
  <2> QED BY <2>1 DEF Joined
<1>5. priority' = [priority EXCEPT ![t] = p]
  BY <1>1, KernelTypes
<1>6. ~ Dispatching!IsReady(t)
  <2>1. \A j \in Priorities : DOMAIN Ready[j] = 1 .. Len(Ready[j])
    BY ReadyIs, LenProperties
  <2>2. ~ \E j \in Priorities : \E k \in DOMAIN Ready[j] : Ready[j][k] = t
    BY <1>2, <2>1 DEF On
  <2> QED BY <2>2 DEF Dispatching!IsReady, Ready
<1>7. Dispatching!MakeReady(t, p)
  BY <1>4, <1>5, <1>6 DEF Dispatching!MakeReady, Ready, Running
<1> QED BY <1>7 DEF Dispatching!Next

\* schedule() takes the first task of the highest priority that has one.
LEMMA ScheduleStep ==
    ASSUME KernelInv, ReadyInv, SafeInv', Schedule
    PROVE  [Dispatching!Next]_(Dispatching!vars)
<1>1. mode = "schedule" /\ Running = NULL
  BY DEF Schedule, Running
<1>2. CASE nonempty = {} \/ IsEmpty(rq, HighestReady)
  <2>1. mode' \in {"halted", "panic"} /\ UNCHANGED <<rq, priority>>
    BY <1>2 DEF Schedule, taskVars, readyVars
  <2> QED BY <1>1, <2>1, NoDispatch DEF Running
<1>3. CASE ~ (nonempty = {} \/ IsEmpty(rq, HighestReady))
  <2>1. PICK p \in Priorities : p = HighestReady
    BY <1>3, NextTask DEF ReadyInv
  <2>2. PICK next \in Slots : next = rq.head[p] /\ Queued(next)
    BY <1>3, <2>1, NextTask DEF ReadyInv
  <2>3. rq' = Dequeue(rq, p) /\ Running' = next /\ priority' = priority
    BY <1>3, <2>1, <2>2 DEF Schedule, Queued, Running
  <2>4. Holds(rq, Priorities, Slots, Ready)
        /\ \A q \in Priorities : IsEmpty(rq, q) <=> Ready[q] = << >>
    <3>1. Holds(rq, Priorities, Slots, Ready)
      BY ReadyIs
    <3>2. /\ rq \in Families(Priorities, Slots)
          /\ \A q \in Priorities : Ready[q] \in Seq(Slots) /\ Represents(rq, q, Ready[q])
      BY <3>1 DEF Holds
    <3> QED BY <3>1, <3>2, RingFacts, NullAssumption
  <2>5. \A q \in Priorities : Ready[q] # << >> => q <= p
    <3>1. \A q \in Priorities : Ready[q] # << >> => q \in nonempty
      BY <2>4 DEF KernelInv, BitmapExact
    <3>2. \A q \in nonempty : q <= HighestReady
      <4>1. \E h \in nonempty : \A q \in nonempty : q <= h
        BY <1>3, GreatestElement, BoundsAssumption, Zenon DEF KernelInv, TypeOK, Priorities
      <4> QED BY <4>1, Zenon DEF HighestReady
    <3> HIDE DEF HighestReady
    <3> QED BY <2>1, <3>1, <3>2
  <2>6. /\ Ready[p] # << >> /\ Head(Ready[p]) = next
        /\ Holds(rq', Priorities, Slots, Served(Ready, p))
    BY <1>3, <2>1, <2>2, <2>3, <2>4, DequeueInFamily, NullAssumption
  <2>7. Ready' = [Ready EXCEPT ![p] = Tail(Ready[p])]
    <3>1. Ready' = Served(Ready, p)
      BY <2>6, ReadyAfter DEF Holds
    <3> QED BY <3>1 DEF Served
  <2>8. Dispatching!Dispatch
    BY <1>1, <2>3, <2>5, <2>6, <2>7 DEF Dispatching!Dispatch, Ready, Running
  <2> QED BY <2>8 DEF Dispatching!Next
<1> QED BY <1>2, <1>3

\* The task on the processor goes back behind the others, or leaves.
LEMMA ReturnStep ==
    ASSUME KernelInv, ReadyInv, Return
    PROVE  [Dispatching!Next]_(Dispatching!vars)
<1>1. PICK c \in Slots : c = current /\ OnCpu = {c} /\ Running = c
  BY KernelTypes DEF Return, Running, OnCpu
<1>2. Running' = NULL /\ priority' = priority /\ Running # NULL
  BY <1>1, NullAssumption DEF Return, Running
<1>3. CASE state[c] \in {"RUNNABLE", "ACTIVE"}
  <2>1. PICK p \in Priorities : p = priority[c]
    BY KernelTypes
  <2>2. Holds(rq, Priorities, Slots, Ready) /\ \A j \in Priorities : ~ On(Ready, j, c)
    BY <1>1, ReadyIs DEF Queued
  <2>3. rq' = Enqueue(rq, p, c)
    BY <1>1, <1>3, <2>1 DEF Return, Register
  <2>4. Holds(rq', Priorities, Slots, Joined(Ready, p, c))
    BY <2>2, <2>3, EnqueueInFamily, NullAssumption
  <2>5. Ready' = [Ready EXCEPT ![p] = Append(Ready[p], c)]
    <3>1. Ready' = Joined(Ready, p, c)
      BY <2>4, ReadyAfter DEF Holds
    <3> QED BY <3>1 DEF Joined
  <2>6. Ready' = [Ready EXCEPT ![priority[Running]] = Append(@, Running)]
    BY <1>1, <2>1, <2>5
  <2>7. Dispatching!Yield
    BY <1>2, <2>6 DEF Dispatching!Yield, Ready, Running
  <2> QED BY <2>7 DEF Dispatching!Next
<1>4. CASE state[c] \notin {"RUNNABLE", "ACTIVE"}
  <2>1. Ready' = Ready
    BY <1>1, <1>4 DEF Return, readyVars, Ready, ReadyQueue
  <2>2. Dispatching!Leave
    BY <1>2, <2>1 DEF Dispatching!Leave, Ready, Running
  <2> QED BY <2>2 DEF Dispatching!Next
<1> QED BY <1>3, <1>4

\* A call that moves nobody on or off the ready queues.
LEMMA QuietDispatch ==
    ASSUME mode = "user", mode' \in {"return", "clear"}, UNCHANGED <<current, rq, priority>>
    PROVE  [Dispatching!Next]_(Dispatching!vars)
<1>1. Running' = Running
  BY DEF Running
<1> QED BY <1>1, NoDispatch

\* A call, an interrupt or a turn of clear_send_queue that makes a blocked task ready.
LEMMA WakingDispatch ==
    ASSUME KernelInv, ReadyInv, mode \in {"user", "clear"}, mode' \in {"return", "clear"},
           UNCHANGED <<current, priority>>,
           NEW t \in Slots, state[t] \notin {"RUNNABLE", "ACTIVE", "ZOMBIE"}, Register(t)
    PROVE  [Dispatching!Next]_(Dispatching!vars)
<1>1. Running' = Running /\ Running = current
  BY DEF Running
<1>2. current \in Slots /\ state[current] \in {"ACTIVE", "ZOMBIE"}
  BY KernelTypes DEF ReadyInv, CpuOK
<1>3. ~ Queued(t) /\ Running # t
  BY <1>1, <1>2 DEF Queued
<1> QED BY <1>1, <1>3, MakeReadyStep

\* A new task is put on the queue of the priority it was given.
LEMMA CreateDispatch ==
    ASSUME KernelInv, ReadyInv, SafeInv', NEW p \in Priorities \cup {MaxPriority + 1},
           SyscallCreate(p)
    PROVE  [Dispatching!Next]_(Dispatching!vars)
<1> DEFINE s0 == CHOOSE t \in available : \A u \in available : t <= u
<1>1. /\ mode = "user" /\ mode' = "return" /\ current' = current /\ current \in Slots
      /\ state[current] = "ACTIVE" /\ priority \in [Slots -> Priorities]
  BY KernelTypes DEF SyscallCreate, Trap, SafeInv, NoPanic
<1>2. CASE UNCHANGED <<taskVars, readyVars>>
  BY <1>1, <1>2, QuietDispatch DEF taskVars, readyVars
<1>3. CASE available # {} /\ p \in Priorities /\ TaskInit(s0, p)
  <2>1. PICK s \in available : s = s0
    BY <1>3, LowestIsAvailable, Zenon DEF KernelInv, TypeOK
  <2> HIDE DEF s0
  <2>2. s \in Slots /\ state[s] = "ZOMBIE" /\ s # current
    BY <1>1, <2>1 DEF KernelInv, TypeOK, SlotsExact, SlotZeroUnused
  <2>3. /\ priority' = [priority EXCEPT ![s] = p]
        /\ rq' = Enqueue([rq EXCEPT !.next[s] = NULL, !.prev[s] = NULL], p, s)
    BY <1>3, <2>1 DEF TaskInit
  <2>4. Holds(rq, Priorities, Slots, Ready) /\ \A j \in Priorities : ~ On(Ready, j, s)
    BY <2>2, ReadyIs DEF Queued
  <2>5. Holds(rq', Priorities, Slots, Joined(Ready, p, s))
    <3>1. Holds([rq EXCEPT !.next[s] = NULL, !.prev[s] = NULL], Priorities, Slots, Ready)
      BY <2>2, <2>4, LinksCleared
    <3> QED BY <1>3, <2>2, <2>3, <2>4, <3>1, EnqueueInFamily, NullAssumption
  <2>6. Ready' = [Ready EXCEPT ![p] = Append(Ready[p], s)]
    <3>1. Ready' = Joined(Ready, p, s)
      BY <2>5, ReadyAfter DEF Holds
    <3> QED BY <3>1 DEF Joined
  <2>7. ~ Dispatching!IsReady(s)
    <3>1. \A j \in Priorities : DOMAIN Ready[j] = 1 .. Len(Ready[j])
      BY ReadyIs, LenProperties
    <3>2. ~ \E j \in Priorities : \E k \in DOMAIN Ready[j] : Ready[j][k] = s
      BY <2>4, <3>1 DEF On
    <3> QED BY <3>2 DEF Dispatching!IsReady, Ready
  <2>8. Running' = Running /\ Running # s
    BY <1>1, <2>2 DEF Running
  <2>9. Dispatching!MakeReady(s, p)
    BY <2>3, <2>6, <2>7, <2>8 DEF Dispatching!MakeReady, Ready, Running
  <2> QED BY <1>3, <2>2, <2>9 DEF Dispatching!Next
<1> QED BY <1>2, <1>3 DEF SyscallCreate

\* The calls on messages and events, and Exit.
LEMMA CallDispatch ==
    ASSUME KernelInv, MessagesInv, ReadyInv, SafeInv',
           \/ SyscallExit
           \/ \E tid \in Tids, fits \in BOOLEAN : SyscallSend(tid, fits)
           \/ \E fits \in BOOLEAN : SyscallReceive(fits)
           \/ \E tid \in Tids, fits \in BOOLEAN : SyscallReply(tid, fits)
           \/ \E e \in AwaitedEvents : SyscallAwaitEvent(e)
    PROVE  [Dispatching!Next]_(Dispatching!vars)
<1>1. CASE SyscallExit
  BY <1>1, QuietDispatch DEF SyscallExit, Trap, readyVars
<1>2. ASSUME NEW tid \in Tids, NEW fits \in BOOLEAN, SyscallSend(tid, fits)
      PROVE  [Dispatching!Next]_(Dispatching!vars)
  <2>1. PICK r \in Slots : r = SlotOf(tid)
    BY SlotOfIsSlot DEF Tids
  <2>2. mode = "user" /\ mode' = "return" /\ UNCHANGED <<current, priority>>
    BY <1>2 DEF SyscallSend, Trap
  <2>3. CASE UNCHANGED rq
    BY <2>2, <2>3, QuietDispatch
  <2>4. CASE state[r] = "SEND_BLOCKED" /\ Register(r)
    BY <2>2, <2>4, WakingDispatch
  <2> QED BY <1>2, <2>1, <2>3, <2>4 DEF SyscallSend, SendTo, readyVars
<1>3. ASSUME NEW fits \in BOOLEAN, SyscallReceive(fits)
      PROVE  [Dispatching!Next]_(Dispatching!vars)
  <2>1. mode = "user" /\ mode' = "return" /\ UNCHANGED <<current, rq, priority>>
    BY <1>3, ReceiveReady DEF SyscallReceive, Trap, readyVars
  <2> QED BY <2>1, QuietDispatch
<1>4. ASSUME NEW tid \in Tids, NEW fits \in BOOLEAN, SyscallReply(tid, fits)
      PROVE  [Dispatching!Next]_(Dispatching!vars)
  <2>1. PICK t \in Slots : t = SlotOf(tid)
    BY SlotOfIsSlot DEF Tids
  <2>2. mode = "user" /\ mode' = "return" /\ UNCHANGED <<current, priority>>
    BY <1>4 DEF SyscallReply, Trap
  <2>3. CASE UNCHANGED rq
    BY <2>2, <2>3, QuietDispatch
  <2>4. CASE state[t] = "REPLY_BLOCKED" /\ Register(t)
    BY <2>2, <2>4, WakingDispatch
  <2> QED BY <1>4, <2>1, <2>3, <2>4 DEF SyscallReply, readyVars
<1>5. ASSUME NEW e \in AwaitedEvents, SyscallAwaitEvent(e)
      PROVE  [Dispatching!Next]_(Dispatching!vars)
  BY <1>5, QuietDispatch DEF SyscallAwaitEvent, Trap, readyVars
<1> QED BY <1>1, <1>2, <1>3, <1>4, <1>5

\* A sender that is let go becomes ready.
LEMMA ClearDispatch ==
    ASSUME KernelInv, MessagesInv, ReadyInv, ClearSendQueue
    PROVE  [Dispatching!Next]_(Dispatching!vars)
<1>1. PICK r \in Slots : r = clearing
  BY KernelTypes DEF ClearSendQueue
<1>2. mode = "clear" /\ mode' \in {"clear", "return"} /\ UNCHANGED <<current, priority>>
  BY DEF ClearSendQueue
<1>3. CASE IsEmpty(sq, r)
  <2>1. UNCHANGED <<rq, Running>>
    BY <1>1, <1>2, <1>3 DEF ClearSendQueue, readyVars, Running
  <2> QED BY <1>2, <2>1, NoDispatch
<1>4. CASE ~ IsEmpty(sq, r)
  <2>1. PICK sender \in Slots : sender = sq.head[r] /\ state[sender] = "RECEIVE_BLOCKED"
    BY <1>4, SenderIsBlocked DEF MessagesInv
  <2>2. Register(sender)
    BY <1>1, <1>4, <2>1 DEF ClearSendQueue
  <2> QED BY <1>2, <2>1, <2>2, WakingDispatch
<1> QED BY <1>3, <1>4

\* The task that waited for the event becomes ready.
LEMMA InterruptDispatch ==
    ASSUME KernelInv, ReadyInv, SafeInv', InterruptStep
    PROVE  [Dispatching!Next]_(Dispatching!vars)
<1>1. PICK e \in Events : EventHandle(e) \/ NoEvent
  BY InterruptShape DEF KernelInv
<1>2. mode = "user" /\ mode' = "return" /\ UNCHANGED <<current, priority>>
  BY <1>1, InterruptShape DEF EventHandle, NoEvent, KernelInv, SafeInv, NoPanic
<1>3. CASE UNCHANGED rq
  BY <1>2, <1>3, QuietDispatch
<1>4. CASE EventHandle(e) /\ EventHasTask(e)
  <2>1. PICK t \in Slots : t = registered[e] /\ state[t] = "EVENT_BLOCKED"
    BY <1>4, KernelTypes DEF EventHasTask
  <2>2. Register(t)
    BY <1>4, <2>1 DEF EventHandle
  <2> QED BY <1>2, <2>1, <2>2, WakingDispatch
<1> QED BY <1>1, <1>3, <1>4 DEF EventHandle, NoEvent, readyVars

\* Kill takes a ready task away, from wherever in its queue it is.
LEMMA KillDispatch ==
    ASSUME KillStates \subseteq {"RUNNABLE"},
           KernelInv, ReadyInv, SafeInv', NEW tid \in Tids, SyscallKill(tid)
    PROVE  [Dispatching!Next]_(Dispatching!vars)
<1>1. PICK v \in Slots : v = SlotOf(tid)
  BY SlotOfIsSlot DEF Tids
<1>2. /\ mode = "user" /\ mode' \in {"return", "clear"} /\ current' = current
      /\ current \in Slots /\ state[current] = "ACTIVE"
  BY KernelTypes
  DEF SyscallKill, Trap, Refuse, Crash, KillTask, SafeInv, NoPanic
<1>3. CASE UNCHANGED <<rq, priority>>
  BY <1>2, <1>3, QuietDispatch
<1>4. CASE state[v] \in KillStates /\ KillTask(v)
  <2>1. PICK p \in Priorities : p = priority[v]
    BY KernelTypes
  <2>2. Queued(v) /\ rq' = Remove(rq, p, v) /\ priority' = priority /\ Running' = Running
    BY <1>2, <1>4, <2>1 DEF KillTask, Deregister, Queued, OnCpu, Running
  <2>3. Holds(rq, Priorities, Slots, Ready) /\ On(Ready, p, v)
    BY <2>1, <2>2, ReadyIs
  <2>4. PICK m \in 1 .. Len(Ready[p]) : Ready[p][m] = v
    BY <2>3 DEF On
  <2>5. Holds(rq', Priorities, Slots, Without(Ready, p, m))
    <3>1. Holds(Remove(rq, p, Ready[p][m]), Priorities, Slots, Without(Ready, p, m))
      BY <2>3, RemoveInFamily, NullAssumption
    <3> QED BY <2>2, <2>4, <3>1
  <2>6. Ready' = [Ready EXCEPT ![p] = [j \in 1 .. Len(Ready[p]) - 1 |->
                                          Ready[p][IF j < m THEN j ELSE j + 1]]]
    <3>1. Ready' = Without(Ready, p, m)
      BY <2>5, ReadyAfter DEF Holds
    <3> QED BY <3>1 DEF Without
  <2>7. Dispatching!Withdraw(v)
    BY <2>2, <2>4, <2>6 DEF Dispatching!Withdraw, Ready, Running
  <2> QED BY <2>7 DEF Dispatching!Next
<1> QED BY <1>1, <1>2, <1>3, <1>4
        DEF SyscallKill, Refuse, Crash, SafeInv, NoPanic, taskVars, readyVars

\* The first user task is the only one that is ready when the kernel starts.
LEMMA InitDispatching == Init => Dispatching!Init
<1> SUFFICES ASSUME Init PROVE Dispatching!Init
  OBVIOUS
<1>0. FirstTask \in Slots
  BY TasksAssumption DEF FirstTask, Slots
<1>1. KernelInv /\ ReadyInv
  BY InitInv, InitReady
<1>2. PICK p \in Priorities : priority[FirstTask] = p /\ priority \in [Slots -> Priorities]
  BY <1>0, <1>1, KernelTypes
<1> DEFINE u == [i \in Priorities |-> << >>]
           none == NoQueues(Priorities, Slots)
<1>3. u \in [Priorities -> Seq(Slots)] /\ \A i \in Priorities : u[i] = << >> /\ Len(u[i]) = 0
  BY EmptySeq
<1>4. none \in Families(Priorities, Slots) /\ \A i \in Priorities : none.head[i] = NULL
  BY DEF NoQueues, Families
<1>5. rq = Enqueue(none, p, FirstTask)
  BY <1>2 DEF Init
<1> HIDE DEF u, none
<1>6. \A i \in Priorities, t \in Slots : ~ On(u, i, t)
  BY <1>3 DEF On
<1>7. Holds(none, Priorities, Slots, u)
  BY <1>3, <1>4, <1>6 DEF Holds, Represents
<1>8. Holds(rq, Priorities, Slots, Joined(u, p, FirstTask))
  BY <1>0, <1>5, <1>6, <1>7, EnqueueInFamily, NullAssumption
<1>9. \A q \in Priorities : ReadyQueue(q) = Joined(u, p, FirstTask)[q]
  BY <1>8, FamilyContents DEF ReadyQueue
<1>10. \A q \in Priorities :
          ReadyQueue(q) = IF q = p THEN <<FirstTask>> ELSE << >>
  <2>1. Append(<< >>, FirstTask) = <<FirstTask>>
    OBVIOUS
  <2> QED BY <1>3, <1>9, <2>1 DEF Joined
<1>11. Ready = [q \in Priorities |-> IF q = priority[FirstTask] THEN <<FirstTask>> ELSE << >>]
  BY <1>2, <1>10 DEF Ready
<1>12. mode = "schedule"
  BY DEF Init
<1> QED BY <1>0, <1>2, <1>11, <1>12 DEF Dispatching!Init, Ready

----------------------------------------------------------------------------
\* Every step of the kernel is a step of PriorityScheduler or none.
LEMMA StepDispatching ==
    ASSUME KillStates \subseteq {"RUNNABLE"}, "Pass" \notin Workload,
           KernelInv, MessagesInv, ReadyInv, SafeInv', [Next]_vars
    PROVE  [Dispatching!Next]_(Dispatching!vars)
<1>1. CASE KernelStep
  BY <1>1, ScheduleStep, ReturnStep, ClearDispatch DEF KernelStep
<1>2. CASE UserStep
  <2>1. ~ SyscallPass
    BY DEF SyscallPass, Trap
  <2> QED BY <1>2, <2>1, CreateDispatch, CallDispatch, KillDispatch DEF UserStep
<1>3. CASE InterruptStep
  BY <1>3, InterruptDispatch
<1>4. CASE UNCHANGED vars
  <2>1. UNCHANGED <<rq, priority, Running>>
    BY <1>4 DEF vars, taskVars, readyVars, Running
  <2> QED BY <2>1, NoDispatch
<1> QED BY <1>1, <1>2, <1>3, <1>4 DEF Next

\* The kernel implements PriorityScheduler: the ready task of the highest priority that
\* has waited longest runs next, whoever is created, blocks, wakes, exits or is killed
\* in between (schedule.c, scheduler.c, queue.h), as long as no kassert fails.
THEOREM DispatchingCorrect ==
    ASSUME KillStates \subseteq {"RUNNABLE"}, "Pass" \notin Workload,
           FirstTask \in NeverBlocks, TimerIsTimely
    PROVE  Spec => DispatchingImplemented
<1>1. KernelInv /\ MessagesInv /\ ReadyInv /\ SafeInv /\ [Next]_vars => SafeInv'
  BY StepSafe
<1>2. KernelInv /\ MessagesInv /\ ReadyInv /\ SafeInv' /\ [Next]_vars
         => [Dispatching!Next]_(Dispatching!vars)
  BY StepDispatching
<1> QED BY <1>1, <1>2, InitSafe, InitDispatching, ReadyHolds, PTL
        DEF Spec, DispatchingImplemented, Dispatching!Spec

=============================================================================

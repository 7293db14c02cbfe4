-------------------------- MODULE KernelProperties --------------------------
(***************************************************************************)
(* What makes the kernel correct.  The invariants tie the task states to   *)
(* the three structures that must agree with them (ready queues, send      *)
(* queues, event registrations); the action properties say what no step    *)
(* does; the last property is the promise of the scheduler.                *)
(***************************************************************************)
EXTENDS Kernel

ReadyQueue(p) == Contents(rq, p, MaxTasks)
SendQueue(r) == Contents(sq, r, MaxTasks)
Members(s) == {s[k] : k \in DOMAIN s}

InState(st) == {s \in Slots : state[s] = st}

\* The task that is running or whose trap is being handled.
OnCpu == IF mode \in {"user", "clear", "return"} THEN {current} ELSE {}

\* Every variable has the type of its C counterpart.
TypeOK ==
    /\ mode \in {"schedule", "user", "clear", "return", "halted", "panic", "fault"}
    /\ current \in Slots \cup {NULL}
    /\ call \in [op : Calls \cup {"none"}, arg : Int]
    /\ clearing \in Slots \cup {NULL}
    /\ state \in [Slots -> TaskStates]
    /\ generation \in [Slots -> 0 .. MaxGeneration]
    /\ priority \in [Slots -> Priorities]
    /\ blockedOn \in [Slots -> Events \cup {NotBlocked}]
    /\ r0 \in [Slots -> Results]
    /\ nextGeneration \in [Slots -> 0 .. MaxGeneration]
    /\ available \subseteq Slots
    /\ rq \in Families(Priorities, Slots)
    /\ nonempty \subseteq Priorities
    /\ sq \in Families(Slots, Slots)
    /\ registered \in [Events -> Slots \cup {NULL}]
    /\ everRegistered \subseteq Events
    /\ eventBlocked \in Int
    /\ irqEnabled \subseteq Events
    /\ cts \in BOOLEAN
    /\ txfe \in BOOLEAN

\* The bitmap that scheduler_next_task searches has exactly the bits of the
\* non-empty ready queues, whatever was enqueued, dequeued or removed.
BitmapExact == nonempty = {p \in Priorities : ~ IsEmpty(rq, p)}

\* Every runnable task that is not on the processor is on the ready queue of its
\* priority, once, and the queues hold nothing else; following prev is following next
\* backwards, which ready_queue_remove needs.  (While a trap is handled the
\* caller of Pass is on its queue already, so the property is about the moments
\* before and after.)
ReadyQueuesExact ==
    mode \in {"schedule", "user"} =>
        \A p \in Priorities :
            LET ready == {s \in InState("RUNNABLE") \ OnCpu : priority[s] = p}
            IN  /\ Represents(rq, p, ReadyQueue(p))
                /\ Members(ReadyQueue(p)) = ready

\* A task blocked in Send is on exactly one send queue, that of a task that can
\* still receive (or whose queue is just being cleared), and a send queue holds
\* only such tasks.
SendQueuesExact ==
    /\ \A r \in Slots : Represents(sq, r, SendQueue(r))
    /\ \A r \in Slots : SendQueue(r) # << >> => state[r] # "ZOMBIE" \/ r = clearing
    /\ \A s \in Slots :
          Cardinality({r \in Slots : s \in Members(SendQueue(r))})
              = IF state[s] = "RECEIVE_BLOCKED" THEN 1 ELSE 0

\* The registration table, the tasks' blocked_on fields, their states and the
\* counter that schedule() relies on all say the same.
EventsExact ==
    /\ eventBlocked = Cardinality(InState("EVENT_BLOCKED"))
    /\ \A e \in Events : registered[e] # NULL => blockedOn[registered[e]] = e
    /\ \A s \in Slots : nextGeneration[s] > 0 =>
          IF state[s] = "EVENT_BLOCKED"
          THEN blockedOn[s] # NotBlocked /\ registered[blockedOn[s]] = s
          ELSE blockedOn[s] = NotBlocked

\* No kassert fails, and the kernel never goes through the trap frame of a task
\* that is dead.
NoPanic == mode \notin {"panic", "fault"}

\* A slot is free exactly when its task is dead and it may be used again: none is
\* leaked, none is handed out while its task lives.
SlotsExact ==
    \A s \in Slots \ {0} :
        s \in available <=> state[s] = "ZOMBIE" /\ nextGeneration[s] < MaxGeneration

\* Where kmain's loop is fits what it is doing: there is a current task, which is
\* the active one while it runs, and clear_send_queue has its argument.
ControlOK ==
    /\ mode \in {"user", "clear", "return"} => current \in Slots
    /\ mode = "user" => state[current] = "ACTIVE"
    /\ mode = "clear" => clearing \in Slots

\* Slot 0 is never given to a task.
SlotZeroUnused == state[0] = "ZOMBIE" /\ 0 \notin available

\* The inductive invariant of KernelProofs.
KernelInv ==
    TypeOK /\ BitmapExact /\ SlotsExact /\ ControlOK /\ SlotZeroUnused

LiveTids == {UserlandTid(s) : s \in Slots \ InState("ZOMBIE")}
IssuedTids == {tid \in Tids : tid > 0 /\ tid \div MaxTasks < nextGeneration[SlotOf(tid)]}

\* The userland tid of a dead task is never the tid of a living one again.
TidsNotReused == [][LiveTids' \cap (IssuedTids \ LiveTids) = {}]_vars

\* Tasks of one priority take turns: a runnable task runs in the end, unless it is
\* killed or there is always a more urgent one.
RoundRobin ==
    \A s \in Slots :
        state[s] = "RUNNABLE" ~>
            \/ state[s] \in {"ACTIVE", "ZOMBIE"}
            \/ \E t \in Slots : /\ priority[t] > priority[s]
                                 /\ state[t] \in {"RUNNABLE", "ACTIVE"}

=============================================================================

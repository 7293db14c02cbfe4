------------------------------- MODULE Kernel -------------------------------
(***************************************************************************)
(* The microkernel: task table, priority scheduler, Send/Receive/Reply,    *)
(* events and interrupts, Exit and Kill (kernel/src).                      *)
(*                                                                         *)
(* The machine has one processor and the kernel runs with interrupts off,  *)
(* so a behaviour alternates between user mode, where the current task may *)
(* make any system call and any enabled device may interrupt, and the      *)
(* kernel, which handles that one trap to the end and dispatches again.    *)
(* "mode" is the kernel's place in kmain's loop                            *)
(*                                                                         *)
(*    schedule --Schedule--> user --a trap--> [clear ->] return --> ...    *)
(*                                                                         *)
(* What the tasks do is left open: a task in user mode is any program.  The *)
(* constants of the second group bound that program.                       *)
(*                                                                         *)
(* The loop ends in one of three modes: "halted" when schedule() returns   *)
(* false, "panic" when a kassert fails (it leaves the kernel at once), and *)
(* "fault" when the kernel goes through the NULL trap frame of a dead task *)
(* (what comes of that is up to the hardware, so the model stops).         *)
(*                                                                         *)
(* A definition marked "slip" is the one after it with a mistake in it; no *)
(* action uses it.  The mutants in PROJECT.json put it in place to see that *)
(* a property notices.                                                     *)
(***************************************************************************)
EXTENDS IntrusiveQueue, FiniteSets

CONSTANTS
    MaxTasks,      \* MAX_TASKS, the size of the task table
    MaxPriority,   \* MAX_PRIORITY
    MaxGeneration  \* 1000 in task_retire: a slot is reused while below it

CONSTANTS
    Workload,      \* the system calls that the tasks make
    KillStates,    \* the states a task may be in when another one kills it
    NeverBlocks,   \* slots whose task, like the idle task, never blocks or exits
    AwaitedEvents, \* the events that tasks wait for
    TimerIsTimely  \* a tick never comes while its notifier is away

TERMINAL_TX == 0
TERMINAL_RX == 1
TRAIN_TX == 2
TRAIN_RX == 3
TIMER == 4
MaxEventId == 4
NotBlocked == -1   \* NOT_BLOCKED, a value that is no event

Slots == 0 .. MaxTasks - 1
Priorities == 0 .. MaxPriority
Events == 0 .. MaxEventId
Tids == -1 .. MaxGeneration * MaxTasks - 1

TaskStates == {"ACTIVE", "RUNNABLE", "ZOMBIE", "RECEIVE_BLOCKED",
               "SEND_BLOCKED", "REPLY_BLOCKED", "EVENT_BLOCKED"}

Calls == {"Exit", "Pass", "Create", "Send", "Receive", "Reply", "AwaitEvent",
          "Kill"}

ASSUME TasksAssumption == MaxTasks \in Nat /\ MaxTasks > 1
ASSUME BoundsAssumption == MaxPriority \in Nat /\ MaxGeneration \in Nat \ {0}
ASSUME NullAssumption == NULL \notin Slots
ASSUME WorkloadAssumption ==
    /\ Workload \subseteq Calls
    /\ KillStates \subseteq TaskStates
    /\ NeverBlocks \subseteq Slots
    /\ AwaitedEvents \subseteq Int
    /\ TimerIsTimely \in BOOLEAN

VARIABLES
    mode,        \* where kmain's loop is, or how it ended
    current,     \* current_task
    call,        \* registers r0 and r1 of the trap being handled
    clearing,    \* the argument of clear_send_queue while it loops
    state, generation, priority, blockedOn,   \* fields of the descriptors
    r0,          \* the r0 slot of each task's trap frame
    nextGeneration, available,                \* the_next_generation, available_tids
    rq, nonempty,                             \* ready queues and their bitmap
    sq,                                       \* send queues
    registered, everRegistered, eventBlocked, \* events.c
    irqEnabled, cts, txfe                     \* interrupt enables, uart0 flags

taskVars  == <<state, generation, priority, blockedOn>>
slotVars  == <<nextGeneration, available>>
readyVars == <<rq, nonempty>>
eventVars == <<registered, everRegistered, eventBlocked>>
uartVars  == <<irqEnabled, cts, txfe>>
vars == <<mode, current, call, clearing, taskVars, r0, slotVars, readyVars, sq,
          eventVars, uartVars>>

----------------------------------------------------------------------------
(* Values left in r0.  A positive length or task id is abstracted to one. *)
Positive == 1
BadData == 2          \* 0xBADDA7A, left there by AwaitEvent until the event
Results == {-3, -2, -1, 0, Positive, BadData}

NoCall == [op |-> "none", arg |-> 0]

UserlandTid_Sum(s) == generation[s] + s      \* slip

UserlandTid(s) == generation[s] * MaxTasks + s

SlotOf(tid) == tid % MaxTasks

\* The generation in the tid is not looked at.
IsValidTid(tid) == tid > 0 /\ SlotOf(tid) \notin available

EventHasTask_Never(e) == FALSE               \* slip

EventHasTask(e) ==
    registered[e] # NULL /\ state[registered[e]] = "EVENT_BLOCKED"

Register(t) ==
    /\ rq' = Enqueue(rq, priority[t], t)
    /\ nonempty' = nonempty \cup {priority[t]}

Deregister_KeepsBit(t) ==                    \* slip
    /\ rq' = Remove(rq, priority[t], t)
    /\ nonempty' = nonempty

Deregister(t) ==
    /\ rq' = Remove(rq, priority[t], t)
    /\ nonempty' = IF IsEmpty(rq', priority[t])
                   THEN nonempty \ {priority[t]} ELSE nonempty

----------------------------------------------------------------------------
(* kmain: the state in which schedule() is first called, with the first user *)
(* task created by syscall_create before there is a current task.            *)

FirstTask == 1

Init ==
    /\ mode = "schedule"
    /\ current = NULL
    /\ call = NoCall
    /\ clearing = NULL
    /\ state = [s \in Slots |-> IF s = FirstTask THEN "RUNNABLE" ELSE "ZOMBIE"]
    /\ generation = [s \in Slots |-> 0]
    /\ priority \in {[s \in Slots |-> IF s = FirstTask THEN p ELSE 0] : p \in Priorities}
    /\ blockedOn = [s \in Slots |-> IF s = FirstTask THEN NotBlocked ELSE 0]
    /\ r0 = [s \in Slots |-> 0]
    /\ nextGeneration = [s \in Slots |-> IF s = FirstTask THEN 1 ELSE 0]
    /\ available = Slots \ {0, FirstTask}
    /\ rq = Enqueue(NoQueues(Priorities, Slots), priority[FirstTask], FirstTask)
    /\ nonempty = {priority[FirstTask]}
    /\ sq = NoQueues(Slots, Slots)
    /\ registered = [e \in Events |-> NULL]
    /\ everRegistered = {}
    /\ eventBlocked = 0
    /\ irqEnabled = {}
    /\ cts \in BOOLEAN
    /\ txfe = FALSE

----------------------------------------------------------------------------
(* The kernel's loop. *)

HighestReady_Lowest == CHOOSE p \in nonempty : \A q \in nonempty : p <= q   \* slip

HighestReady == CHOOSE p \in nonempty : \A q \in nonempty : q <= p

\* schedule() up to the moment the chosen task is running.
Schedule ==
    /\ mode = "schedule"
    /\ IF nonempty = {} \/ IsEmpty(rq, HighestReady)
       THEN \* no next task: the loop ends, unless somebody waits for an event
            /\ mode' = IF eventBlocked = 0 THEN "halted" ELSE "panic"
            /\ UNCHANGED <<current, taskVars, r0, readyVars>>
       ELSE LET p == HighestReady
                next == rq.head[p]
            IN  /\ rq' = Dequeue(rq, p)
                /\ nonempty' = IF IsEmpty(rq', p) THEN nonempty \ {p} ELSE nonempty
                /\ \/ /\ state[next] \in {"RUNNABLE", "ACTIVE"}
                      /\ mode' = "user"
                      /\ current' = next
                      /\ state' = [state EXCEPT ![next] = "ACTIVE"]
                      /\ r0' = [r0 EXCEPT ![next] = 0]  \* the frame is popped
                      /\ UNCHANGED <<generation, priority, blockedOn>>
                   \/ /\ state[next] \notin {"RUNNABLE", "ACTIVE"}
                      /\ mode' = IF state[next] = "ZOMBIE" THEN "fault" ELSE "panic"
                      /\ UNCHANGED <<current, taskVars, r0>>
    /\ UNCHANGED <<call, clearing, slotVars, sq, eventVars, uartVars>>

\* schedule() after the trap: a task that can still run goes back to its queue.
Return ==
    /\ mode = "return"
    /\ mode' = "schedule"
    /\ call' = NoCall
    /\ IF state[current] \in {"RUNNABLE", "ACTIVE"}
       THEN /\ state' = [state EXCEPT ![current] = "RUNNABLE"]
            /\ Register(current)
       ELSE UNCHANGED <<state, readyVars>>
    /\ UNCHANGED <<current, clearing, generation, priority, blockedOn, r0, slotVars,
                   sq, eventVars, uartVars>>

\* One turn of the loop in clear_send_queue, or its end.
ClearSendQueue ==
    /\ mode = "clear"
    /\ LET sender == sq.head[clearing]
           waits == ~ IsEmpty(sq, clearing) /\ state[sender] = "RECEIVE_BLOCKED"
       IN  /\ mode' = IF IsEmpty(sq, clearing) THEN "return" ELSE "clear"
           /\ clearing' = IF IsEmpty(sq, clearing) THEN NULL ELSE clearing
           /\ sq' = Dequeue(sq, clearing)
           /\ IF waits
              THEN /\ r0' = [r0 EXCEPT ![sender] = -2]
                   /\ state' = [state EXCEPT ![sender] = "RUNNABLE"]
                   /\ Register(sender)
              ELSE UNCHANGED <<r0, state, readyVars>>
    /\ UNCHANGED <<current, call, generation, priority, blockedOn, slotVars, eventVars,
                   uartVars>>

----------------------------------------------------------------------------
(* Task life cycle. *)

Trap(op, arg) ==
    /\ mode = "user"
    /\ op \in Workload
    /\ call' = [op |-> op, arg |-> arg]

SyscallPass ==
    /\ Trap("Pass", 0)
    /\ Register(current)
    /\ mode' = "return"
    /\ UNCHANGED <<current, clearing, taskVars, r0, slotVars, sq, eventVars, uartVars>>

\* task_init on the lowest free slot, then register_task.
TaskInit(s, p) ==
    /\ generation' = [generation EXCEPT ![s] = nextGeneration[s]]
    /\ nextGeneration' = [nextGeneration EXCEPT ![s] = @ + 1]
    /\ available' = available \ {s}
    /\ priority' = [priority EXCEPT ![s] = p]
    /\ state' = [state EXCEPT ![s] = "RUNNABLE"]
    /\ blockedOn' = [blockedOn EXCEPT ![s] = NotBlocked]
    /\ sq' = [sq EXCEPT !.head[s] = NULL]
    /\ rq' = Enqueue([rq EXCEPT !.next[s] = NULL, !.prev[s] = NULL], p, s)
    /\ nonempty' = nonempty \cup {p}

SyscallCreate(p) ==
    /\ Trap("Create", p)
    /\ LET s == CHOOSE t \in available : \A u \in available : t <= u
       IN  \/ /\ available = {} \/ p \notin Priorities
              /\ r0' = [r0 EXCEPT ![current] = IF available = {} THEN -2 ELSE -1]
              /\ mode' = "return"
              /\ UNCHANGED <<taskVars, slotVars, readyVars, sq>>
           \/ /\ available # {} /\ p \in Priorities
              /\ TaskInit(s, p)
              /\ r0' = [r0 EXCEPT ![current] = Positive, ![s] = 0]
              /\ mode' = IF state[s] = "ZOMBIE" THEN "return" ELSE "panic"
    /\ UNCHANGED <<current, clearing, eventVars, uartVars>>

Retire_Always(s) == available' = available \cup {s}   \* slip
Retire_Never(s) == available' = available             \* slip

\* task_retire's part on the slot: it is free again below MaxGeneration.
Retire(s) ==
    available' = IF nextGeneration[s] < MaxGeneration THEN available \cup {s}
                 ELSE available

SyscallExit ==
    /\ Trap("Exit", 0)
    /\ current \notin NeverBlocks
    /\ state' = [state EXCEPT ![current] = "ZOMBIE"]
    /\ r0' = [r0 EXCEPT ![current] = 0]
    /\ Retire(current)
    /\ mode' = "clear"
    /\ clearing' = current
    /\ UNCHANGED <<current, generation, priority, blockedOn, nextGeneration, readyVars,
                   sq, eventVars, uartVars>>

----------------------------------------------------------------------------
(* Messages.  "fits" is the outcome of comparing the length sent with the    *)
(* length of the buffer: the copy is whole, or truncated and reported as -1. *)

Delivered(fits) == IF fits THEN Positive ELSE -1

\* send() on a tid that passed is_valid_userland_tid.
SendTo(receiver, fits) ==
    \/ /\ state[receiver] = "ZOMBIE"
       /\ r0' = [r0 EXCEPT ![current] = -2]
       /\ UNCHANGED <<state, readyVars, sq>>
    \/ /\ state[receiver] = "SEND_BLOCKED"
       /\ r0' = [r0 EXCEPT ![receiver] = Delivered(fits)]
       /\ state' = [state EXCEPT ![current] = "REPLY_BLOCKED", ![receiver] = "RUNNABLE"]
       /\ Register(receiver)
       /\ UNCHANGED sq
    \/ /\ state[receiver] \notin {"ZOMBIE", "SEND_BLOCKED"}
       /\ state' = [state EXCEPT ![current] = "RECEIVE_BLOCKED"]
       /\ sq' = Enqueue(sq, receiver, current)
       /\ UNCHANGED <<r0, readyVars>>

SyscallSend(tid, fits) ==
    /\ Trap("Send", tid)
    /\ current \notin NeverBlocks
    /\ \/ /\ IsValidTid(tid)
          /\ SendTo(SlotOf(tid), fits)
       \/ /\ ~ IsValidTid(tid)
          /\ r0' = [r0 EXCEPT ![current] = -2]
          /\ UNCHANGED <<state, readyVars, sq>>
    /\ mode' = "return"
    /\ UNCHANGED <<current, clearing, generation, priority, blockedOn, slotVars,
                   eventVars, uartVars>>

TakeSender_Peeks(receiver) == sq                 \* slip

TakeSender(receiver) == Dequeue(sq, receiver)

SyscallReceive(fits) ==
    /\ Trap("Receive", 0)
    /\ current \notin NeverBlocks
    /\ \/ /\ IsEmpty(sq, current)
          /\ state' = [state EXCEPT ![current] = "SEND_BLOCKED"]
          /\ mode' = "return"
          /\ UNCHANGED <<r0, sq>>
       \/ /\ ~ IsEmpty(sq, current)
          /\ sq' = TakeSender(current)
          /\ LET sender == sq.head[current]
             IN  IF state[sender] = "ZOMBIE"
                 THEN /\ mode' = "fault"      \* its trap frame is NULL
                      /\ UNCHANGED <<state, r0>>
                 ELSE /\ r0' = [r0 EXCEPT ![current] = Delivered(fits)]
                      /\ state' = [state EXCEPT ![current] = "RUNNABLE",
                                                ![sender] = "REPLY_BLOCKED"]
                      /\ mode' = "return"
    /\ UNCHANGED <<current, clearing, generation, priority, blockedOn, slotVars,
                   readyVars, eventVars, uartVars>>

\* reply() looks at the target's state only: whom it sent to is not recorded.
SyscallReply(tid, fits) ==
    /\ Trap("Reply", tid)
    /\ LET target == SlotOf(tid)
           refusal == IF ~ IsValidTid(tid) \/ state[target] = "ZOMBIE" THEN -2 ELSE -3
           waits == IsValidTid(tid) /\ state[target] = "REPLY_BLOCKED"
       IN  \/ /\ ~ waits
              /\ r0' = [r0 EXCEPT ![current] = refusal]
              /\ UNCHANGED <<state, readyVars>>
           \/ /\ waits
              /\ r0' = [r0 EXCEPT ![target] = Delivered(fits),
                                  ![current] = IF fits THEN 0 ELSE -1]
              /\ state' = [state EXCEPT ![target] = "RUNNABLE"]
              /\ Register(target)
    /\ mode' = "return"
    /\ UNCHANGED <<current, clearing, generation, priority, blockedOn, slotVars, sq,
                   eventVars, uartVars>>

----------------------------------------------------------------------------
(* Events and interrupts. *)

SyscallAwaitEvent(e) ==
    /\ Trap("AwaitEvent", e)
    /\ current \notin NeverBlocks
    /\ \/ /\ e \notin Events
          /\ r0' = [r0 EXCEPT ![current] = -1]
          /\ UNCHANGED <<state, blockedOn, eventVars, irqEnabled>>
       \/ /\ e \in Events /\ EventHasTask(e)
          /\ r0' = [r0 EXCEPT ![current] = -3]
          /\ UNCHANGED <<state, blockedOn, eventVars, irqEnabled>>
       \/ /\ e \in Events /\ ~ EventHasTask(e)
          /\ registered' = [registered EXCEPT ![e] = current]
          /\ blockedOn' = [blockedOn EXCEPT ![current] = e]
          /\ state' = [state EXCEPT ![current] = "EVENT_BLOCKED"]
          /\ eventBlocked' = eventBlocked + 1
          /\ irqEnabled' = irqEnabled \cup ({e} \ {TIMER})
          /\ everRegistered' = everRegistered \cup {e}
          /\ r0' = [r0 EXCEPT ![current] = BadData]
    /\ mode' = "return"
    /\ UNCHANGED <<current, clearing, generation, priority, slotVars, readyVars, sq,
                   cts, txfe>>

\* event_handle: the waiting task is woken; an event nobody waits for is an
\* error once somebody has waited for it.
EventHandle(e) ==
    LET t == registered[e]
    IN  \/ /\ EventHasTask(e)
           /\ mode' = IF blockedOn[t] = e /\ r0[t] = BadData THEN "return" ELSE "panic"
           /\ r0' = [r0 EXCEPT ![t] = 0]
           /\ state' = [state EXCEPT ![t] = "RUNNABLE"]
           /\ eventBlocked' = eventBlocked - 1
           /\ registered' = [registered EXCEPT ![e] = NULL]
           /\ blockedOn' = [blockedOn EXCEPT ![t] = NotBlocked]
           /\ Register(t)
           /\ UNCHANGED everRegistered
        \/ /\ ~ EventHasTask(e)
           /\ mode' = IF e \in everRegistered THEN "panic" ELSE "return"
           /\ UNCHANGED <<r0, state, blockedOn, eventVars, readyVars>>

NoEvent ==
    /\ mode' = "return"
    /\ UNCHANGED <<r0, state, blockedOn, eventVars, readyVars>>

InterruptClear_NotTx(e) ==                   \* slip
    irqEnabled' = irqEnabled \ ({e} \ {TRAIN_TX, TERMINAL_TX})

\* interrupt_tx_clear and interrupt_rx_clear disable the interrupt that has come.
InterruptClear(e) == irqEnabled' = irqEnabled \ {e}

\* try_clear_train_send, with the flags as they are by then: a byte can go to the
\* train controller when the transmitter is empty and CTS has been up since.
TrainSend(ready, up) ==
    IF ready /\ up
    THEN /\ txfe' = FALSE
         /\ cts' = FALSE
         /\ EventHandle(TRAIN_TX)
    ELSE /\ txfe' = ready
         /\ cts' = up
         /\ NoEvent

\* An interrupt the VIC reports by number.  A UART interrupt comes only while it
\* is enabled; the timer has no such mask.
HardwareInterrupt(e) ==
    /\ mode = "user"
    /\ e \in irqEnabled \/ (e = TIMER /\ TIMER \in AwaitedEvents)
    /\ (e = TIMER /\ TimerIsTimely) => EventHasTask(e) \/ e \notin everRegistered
    /\ InterruptClear(e)
    /\ IF e = TRAIN_TX THEN TrainSend(TRUE, cts)
       ELSE EventHandle(e) /\ UNCHANGED <<cts, txfe>>
    /\ UNCHANGED <<current, call, clearing, generation, priority, slotVars, sq>>

\* The modem status interrupt, which has no number: CTS is up or down.
ModemInterrupt ==
    /\ mode = "user"
    /\ TRAIN_TX \in AwaitedEvents
    /\ \E up \in BOOLEAN : TrainSend(txfe, cts \/ up)
    /\ UNCHANGED <<current, call, clearing, generation, priority, slotVars, sq,
                   irqEnabled>>

----------------------------------------------------------------------------
(* Kill. *)

\* The kasserts of event_deregister.
DeregisterAsserts(v) ==
    IF state[v] = "EVENT_BLOCKED"
    THEN blockedOn[v] # NotBlocked /\ registered[blockedOn[v]] = v
    ELSE blockedOn[v] = NotBlocked

\* event_deregister, and handle_vic_event for the event the victim waited for: the
\* interrupt is acknowledged as if it had come, but by now nobody waits for it.
DropEvent(v) ==
    LET e == blockedOn[v]
    IN  IF state[v] = "EVENT_BLOCKED"
        THEN /\ registered' = [registered EXCEPT ![e] = NULL]
             /\ everRegistered' = everRegistered \ {e}
             /\ eventBlocked' = eventBlocked - 1
             /\ irqEnabled' = irqEnabled \ {e}
             /\ txfe' = IF e = TRAIN_TX THEN ~ cts ELSE txfe
             /\ cts' = IF e = TRAIN_TX THEN FALSE ELSE cts
        ELSE UNCHANGED <<eventVars, uartVars>>

\* syscall_kill on a task that is alive.
KillTask(v) ==
    /\ DropEvent(v)
    /\ blockedOn' = [blockedOn EXCEPT ![v] = NotBlocked]
    /\ Deregister(v)
    /\ state' = [state EXCEPT ![v] = "ZOMBIE"]
    /\ Retire(v)
    /\ mode' = "clear"
    /\ clearing' = v
    /\ r0' = [r0 EXCEPT ![v] = 0, ![current] = 0]
    /\ UNCHANGED <<generation, priority, nextGeneration, sq>>

Refuse(result) ==
    /\ r0' = [r0 EXCEPT ![current] = result]
    /\ mode' = "return"
    /\ UNCHANGED <<clearing, taskVars, slotVars, readyVars, sq, eventVars, uartVars>>

Crash(how) ==
    /\ mode' = how
    /\ UNCHANGED <<clearing, taskVars, r0, slotVars, readyVars, sq, eventVars, uartVars>>

\* Neither the generation in the tid nor the state of the slot is checked.  On a
\* dead slot task_retire writes through its NULL trap frame.
SyscallKill(tid) ==
    LET v == SlotOf(tid)
        isSelf == tid = UserlandTid(current)
    IN  /\ Trap("Kill", tid)
        /\ \/ isSelf /\ Refuse(-2)
           \/ ~ isSelf /\ tid < 0 /\ Refuse(-1)
           \/ /\ ~ isSelf /\ tid >= 0
              /\ state[v] \in KillStates /\ v \notin NeverBlocks
              /\ IF ~ DeregisterAsserts(v) THEN Crash("panic")
                 ELSE IF state[v] = "ZOMBIE" THEN Crash("fault")
                 ELSE KillTask(v)
        /\ UNCHANGED current

----------------------------------------------------------------------------
KernelStep == Schedule \/ Return \/ ClearSendQueue

UserStep ==
    \/ SyscallPass
    \/ SyscallExit
    \/ \E p \in Priorities \cup {MaxPriority + 1} : SyscallCreate(p)
    \/ \E tid \in Tids, fits \in BOOLEAN : SyscallSend(tid, fits)
    \/ \E fits \in BOOLEAN : SyscallReceive(fits)
    \/ \E tid \in Tids, fits \in BOOLEAN : SyscallReply(tid, fits)
    \/ \E e \in AwaitedEvents : SyscallAwaitEvent(e)
    \/ \E tid \in Tids : SyscallKill(tid)

InterruptStep == (\E e \in Events : HardwareInterrupt(e)) \/ ModemInterrupt

Next == KernelStep \/ UserStep \/ InterruptStep

Spec == Init /\ [][Next]_vars

\* Kernel code runs to completion, and a task that runs traps sooner or later, if
\* only because the timer interrupts it.
FairSpec == Spec /\ WF_vars(Next)

=============================================================================

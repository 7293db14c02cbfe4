----------------------------- MODULE ClockServer -----------------------------
(***************************************************************************)
(* The clock server (usr/clock.c), its notifier (usr/notifier.c) and the   *)
(* tasks that ask it for the time or wait in it (lib/codes.c).             *)
(*                                                                         *)
(* The kernel appears as it is seen from here (Kernel.tla): an inbox in    *)
(* the order of the Sends, and a Reply that finds its task by slot alone:  *)
(* it fails with -2 on a dead slot, with -3 on a task that waits for no    *)
(* reply, and otherwise lets go whoever waits there, for whatever reason.  *)
(***************************************************************************)
EXTENDS Integers, Sequences

CONSTANTS
    Slots,           \* task slots of the clients
    MaxGeneration,   \* how often a slot is used (bound)
    QueueSize,       \* CLOCK_WAIT_QUEUE_SIZE
    MaxTicks,        \* timer interrupts (bound)
    Delays, Untils,  \* the arguments of Delay and of DelayUntil
    MayKill,         \* the states in which a client may be killed
    IntMax           \* greatest int32_t

ASSUME ClockAssumption ==
    /\ MaxGeneration \in Nat \ {0} /\ QueueSize \in Nat /\ MaxTicks \in Nat
    /\ Delays \subseteq Int /\ Untils \subseteq Int
    /\ IntMax \in Nat /\ IntMax >= MaxTicks
    /\ MayKill \subseteq {"delayed", "elsewhere"}

VARIABLES
    now,        \* history: timer interrupts so far
    ticks,      \* the server's count of them
    queue,      \* its clock_wait_queue
    inbox,      \* messages sent to it and not received
    serverAt,   \* "receive", "wake" in the loop that wakes, "failed" an Assert
    notifier,   \* "awaiting" the interrupt, "woken" by it, "sent" to the server
    state,      \* what the client in each slot does; "delayed" and "elsewhere"
                \* are REPLY_BLOCKED, on the clock server and on another task
    generation, \* of the task in each slot
    result,     \* what the last call of Delay or DelayUntil gave it
    due         \* history: the time a delayed client asked for, 0 for the others

server == <<ticks, queue, inbox, serverAt>>
clients == <<state, generation, result, due>>
vars == <<now, ticks, queue, inbox, serverAt, notifier, state, generation, result, due>>

WaitTicks(w) == w.ticks

Heap == INSTANCE PriorityQueue WITH Capacity <- QueueSize, Value <- WaitTicks

NOTIFIER == "notifier"
ReplyBlocked == {"delayed", "elsewhere"}

Tid(s) == [slot |-> s, generation |-> generation[s]]

WrapInt(i) == ((i + IntMax + 1) % (2 * (IntMax + 1))) - (IntMax + 1)

Init ==
    /\ now = 0 /\ ticks = 0
    /\ queue = << >> /\ inbox = << >>
    /\ serverAt = "receive" /\ notifier = "awaiting"
    /\ state = [s \in Slots |-> "dead"]
    /\ generation = [s \in Slots |-> 0]
    /\ result = [s \in Slots |-> "none"]
    /\ due = [s \in Slots |-> 0]

----------------------------------------------------------------------------
\* The notifier.

\* The kernel panics when the notifier is not back in AwaitEvent in time
\* (NoPanic in KernelProperties): here it always is.
TimerInterrupt ==
    /\ notifier = "awaiting" /\ now < MaxTicks
    /\ now' = now + 1
    /\ notifier' = "woken"
    /\ UNCHANGED <<server, clients>>

NotifierSends ==
    /\ notifier = "woken"
    /\ notifier' = "sent"
    /\ inbox' = Append(inbox, [type |-> "MESSAGE_NOTIFIER", tid |-> NOTIFIER, arg |-> 0])
    /\ UNCHANGED <<now, ticks, queue, serverAt, clients>>

----------------------------------------------------------------------------
\* The clients.

Asks(s, type, arg) ==
    /\ state[s] = "ready"
    /\ state' = [state EXCEPT ![s] = "sending"]
    /\ inbox' = Append(inbox, [type |-> type, tid |-> Tid(s), arg |-> arg])
    /\ UNCHANGED <<now, ticks, queue, serverAt, notifier, generation, result, due>>

AsksTime(s) == Asks(s, "MESSAGE_TIME", 0)

AsksDelay(s) == \E d \in Delays : Asks(s, "MESSAGE_DELAY", d)

AsksDelayUntil(s) == \E t \in Untils : Asks(s, "MESSAGE_DELAY_UNTIL", t)

\* A client waits for the answer of some other task, and gets it.
SendsElsewhere(s) ==
    /\ state[s] = "ready"
    /\ state' = [state EXCEPT ![s] = "elsewhere"]
    /\ UNCHANGED <<now, server, notifier, generation, result, due>>

ElsewhereReplies(s) ==
    /\ state[s] = "elsewhere"
    /\ state' = [state EXCEPT ![s] = "ready"]
    /\ UNCHANGED <<now, server, notifier, generation, result, due>>

\* Another task kills it, as conductors kill their couriers.
Killed(s) ==
    /\ state[s] \in MayKill
    /\ state' = [state EXCEPT ![s] = "dead"]
    /\ due' = [due EXCEPT ![s] = 0]
    /\ UNCHANGED <<now, server, notifier, generation, result>>

\* The slot is used for a new task, for the first time or again.
Created(s) ==
    /\ state[s] = "dead" /\ generation[s] < MaxGeneration
    /\ state' = [state EXCEPT ![s] = "ready"]
    /\ generation' = [generation EXCEPT ![s] = @ + 1]
    /\ result' = [result EXCEPT ![s] = "none"]
    /\ UNCHANGED <<now, server, notifier, due>>

----------------------------------------------------------------------------
\* The server.

Receives(type) ==
    /\ serverAt = "receive"
    /\ inbox # << >> /\ Head(inbox).type = type
    /\ inbox' = Tail(inbox)

\* Reply(tid, ...) with the given outcome of the client's call.
LetGo(s, outcome) ==
    /\ state' = [state EXCEPT ![s] = "ready"]
    /\ result' = [result EXCEPT ![s] = outcome]
    /\ due' = [due EXCEPT ![s] = 0]
    /\ UNCHANGED generation

HandleNotifier_Lazy ==                                        \* slip
    /\ Receives("MESSAGE_NOTIFIER")
    /\ notifier' = "awaiting"
    /\ ticks' = IF queue = << >> THEN ticks ELSE ticks + 1
    /\ serverAt' = "wake"
    /\ UNCHANGED <<now, queue, clients>>

HandleNotifier_NoReply ==                                     \* slip
    /\ Receives("MESSAGE_NOTIFIER")
    /\ ticks' = ticks + 1
    /\ serverAt' = "wake"
    /\ UNCHANGED <<now, notifier, queue, clients>>

\* The notifier is answered at once, then the tick is counted.
HandleNotifier ==
    /\ Receives("MESSAGE_NOTIFIER")
    /\ notifier' = "awaiting"
    /\ ticks' = ticks + 1
    /\ serverAt' = "wake"
    /\ UNCHANGED <<now, queue, clients>>

Overdue_Strict == queue # << >> /\ Heap!Peek(queue).ticks < ticks           \* slip

Overdue == queue # << >> /\ Heap!Peek(queue).ticks <= ticks

WakeFirst_Peeks ==                                            \* slip
    /\ serverAt = "wake" /\ Overdue
    /\ LET s == Heap!Peek(queue).tid.slot
       IN  IF state[s] \in ReplyBlocked THEN LetGo(s, "ok") /\ UNCHANGED serverAt
           ELSE serverAt' = "failed" /\ UNCHANGED clients
    /\ UNCHANGED <<now, ticks, queue, inbox, notifier>>

\* One turn of the loop that wakes: the record is taken off the queue and its
\* task answered.
WakeFirst ==
    /\ serverAt = "wake" /\ Overdue
    /\ queue' = Heap!Dequeue(queue)
    /\ LET s == Heap!Peek(queue).tid.slot
       IN  CASE state[s] \in ReplyBlocked -> LetGo(s, "ok") /\ UNCHANGED serverAt
             [] state[s] = "dead" -> UNCHANGED <<clients, serverAt>>
             [] OTHER -> serverAt' = "failed" /\ UNCHANGED clients
    /\ UNCHANGED <<now, ticks, inbox, notifier>>

WakeNoMore ==
    /\ serverAt = "wake" /\ ~Overdue
    /\ serverAt' = "receive"
    /\ UNCHANGED <<now, ticks, queue, inbox, notifier, clients>>

HandleTime ==
    /\ Receives("MESSAGE_TIME")
    /\ state' = [state EXCEPT ![Head(inbox).tid.slot] = "ready"]
    /\ UNCHANGED <<now, ticks, queue, serverAt, notifier, generation, result, due>>

\* The caller of Delay or DelayUntil joins the queue; a full one is an Assert.
Enqueues(s, wait, at) ==
    /\ queue' = IF Heap!IsFull(queue) THEN queue
                ELSE Heap!Enqueue(queue, [tid |-> Head(inbox).tid, ticks |-> wait])
    /\ serverAt' = IF Heap!IsFull(queue) THEN "failed" ELSE serverAt
    /\ state' = [state EXCEPT ![s] = "delayed"]
    /\ due' = [due EXCEPT ![s] = at]
    /\ UNCHANGED <<generation, result>>

HandleDelay ==
    /\ Receives("MESSAGE_DELAY")
    /\ LET s == Head(inbox).tid.slot
           d == Head(inbox).arg
       IN  \/ d <= 0 /\ LetGo(s, "error") /\ UNCHANGED <<queue, serverAt>>
           \/ d > 0 /\ Enqueues(s, WrapInt(ticks + d), ticks + d)
    /\ UNCHANGED <<now, ticks, notifier>>

HandleDelayUntil ==
    /\ Receives("MESSAGE_DELAY_UNTIL")
    /\ LET s == Head(inbox).tid.slot
           t == Head(inbox).arg
       IN  \/ t <= ticks /\ LetGo(s, "error") /\ UNCHANGED <<queue, serverAt>>
           \/ t > ticks /\ Enqueues(s, t, t)
    /\ UNCHANGED <<now, ticks, notifier>>

----------------------------------------------------------------------------
ServerStep ==
    \/ HandleNotifier \/ WakeFirst \/ WakeNoMore
    \/ HandleTime \/ HandleDelay \/ HandleDelayUntil

ClientStep(s) ==
    \/ AsksTime(s) \/ AsksDelay(s) \/ AsksDelayUntil(s)
    \/ SendsElsewhere(s) \/ ElsewhereReplies(s)
    \/ Killed(s) \/ Created(s)

Next ==
    \/ TimerInterrupt \/ NotifierSends
    \/ ServerStep
    \/ \E s \in Slots : ClientStep(s)

Spec == Init /\ [][Next]_vars

\* The timer goes off again and again, and the notifier and the server, at the
\* highest priorities in use, run whenever they are ready (usr/project.c).
FairSpec ==
    /\ Spec
    /\ WF_vars(TimerInterrupt) /\ WF_vars(NotifierSends) /\ WF_vars(ServerStep)

----------------------------------------------------------------------------
\* The server has counted every timer interrupt but the one its notifier has
\* still to report: no tick is lost or counted twice (usr/clock.c:22, 23).
NoTickLost == ticks = now - (IF notifier = "awaiting" THEN 0 ELSE 1)

\* No Assert of the server fails: a woken task still waits for a reply or is
\* gone, and the queue has room (usr/clock.c:27, 31, 48, 58).
NoAssertFails == serverAt # "failed"

\* Delay and DelayUntil keep what DelayService promises.
Promise == INSTANCE DelayService WITH
    Sleepers <- Slots, time <- ticks, deadline <- due

DelayImplemented == Promise!Spec

\* "Won't accidentally send to the wrong task, because task ids are unique"
\* (usr/clock.c:29): the server lets go only the task it has a record of.
WakesItsWaiter ==
    [][\A s \in Slots :
         serverAt = "wake" /\ state[s] \in ReplyBlocked /\ state'[s] = "ready"
             /\ Len(queue') < Len(queue)
         => Heap!Peek(queue).tid = Tid(s)]_vars

\* Whoever waits for a time that comes is let go (usr/clock.c:25-33).
Answered ==
    \A s \in Slots : due[s] > 0 /\ due[s] <= MaxTicks ~> due[s] = 0

==============================================================================

-------------------------- MODULE PriorityScheduler --------------------------
(***************************************************************************)
(* What the scheduler promises: strict priorities, and first come first    *)
(* served among tasks of one priority.                                     *)
(***************************************************************************)
EXTENDS Integers, Sequences

CONSTANTS Tasks, Priorities, None

VARIABLES
    ready,     \* for each priority, the tasks that are ready, longest wait first
    running,   \* the task on the processor, or None
    rank       \* the priority of each task

vars == <<ready, running, rank>>

TypeInv ==
    /\ ready \in [Priorities -> Seq(Tasks)]
    /\ running \in Tasks \cup {None}
    /\ rank \in [Tasks -> Priorities]

IsReady(t) == \E p \in Priorities : \E k \in DOMAIN ready[p] : ready[p][k] = t

Init ==
    /\ rank \in [Tasks -> Priorities]
    /\ running = None
    /\ \E first \in Tasks :
         ready = [p \in Priorities |-> IF p = rank[first] THEN <<first>> ELSE << >>]

----------------------------------------------------------------------------
\* A task becomes ready: it is new, or what it waited for has come.  Its priority
\* may change only in between.
MakeReady(t, p) ==
    /\ ~ IsReady(t) /\ t # running
    /\ rank' = [rank EXCEPT ![t] = p]
    /\ ready' = [ready EXCEPT ![p] = Append(@, t)]
    /\ UNCHANGED running

\* A ready task is taken away, and nobody else with it.
Withdraw(t) ==
    /\ \E p \in Priorities : \E k \in 1 .. Len(ready[p]) :
         /\ ready[p][k] = t
         /\ ready' = [ready EXCEPT ![p] =
                         [j \in 1 .. Len(@) - 1 |-> @[IF j < k THEN j ELSE j + 1]]]
    /\ UNCHANGED <<running, rank>>

Dispatch ==
    /\ running = None
    /\ \E p \in Priorities :
         /\ ready[p] # << >>
         /\ \A q \in Priorities : ready[q] # << >> => q <= p
         /\ running' = Head(ready[p])
         /\ ready' = [ready EXCEPT ![p] = Tail(@)]
    /\ UNCHANGED rank

\* The running task leaves the processor, and queues up again if it can still run.
Yield ==
    /\ running # None
    /\ running' = None
    /\ ready' = [ready EXCEPT ![rank[running]] = Append(@, running)]
    /\ UNCHANGED rank

Leave ==
    /\ running # None
    /\ running' = None
    /\ UNCHANGED <<ready, rank>>

Next ==
    \/ \E t \in Tasks, p \in Priorities : MakeReady(t, p)
    \/ \E t \in Tasks : Withdraw(t)
    \/ Dispatch \/ Yield \/ Leave

Spec == Init /\ [][Next]_vars

=============================================================================

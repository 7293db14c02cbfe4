----------------------------- MODULE DelayService -----------------------------
(***************************************************************************)
(* What Delay and DelayUntil promise (lib/codes.h): a task sleeps until a  *)
(* given time has come.  Nobody is woken before his time, the one whose    *)
(* time is first is woken first, and time stands still for those who       *)
(* sleep: the next tick is not counted while somebody is overdue.          *)
(***************************************************************************)
EXTENDS Integers

CONSTANT Sleepers

VARIABLES
    time,      \* ticks counted
    deadline   \* for each sleeper the time to wake it, 0 when it does not sleep

vars == <<time, deadline>>

Asleep == {s \in Sleepers : deadline[s] # 0}

Init == time = 0 /\ deadline = [s \in Sleepers |-> 0]

\* Any time to come may be asked for.
Sleep(s) ==
    /\ s \notin Asleep /\ deadline'[s] > time
    /\ deadline' = [deadline EXCEPT ![s] = deadline'[s]]
    /\ UNCHANGED time

Tick ==
    /\ \A s \in Asleep : deadline[s] > time
    /\ time' = time + 1
    /\ UNCHANGED deadline

Wake(s) ==
    /\ s \in Asleep /\ deadline[s] <= time
    /\ \A r \in Asleep : deadline[s] <= deadline[r]
    /\ deadline' = [deadline EXCEPT ![s] = 0]
    /\ UNCHANGED time

\* A sleeper is killed.
Vanish(s) ==
    /\ s \in Asleep
    /\ deadline' = [deadline EXCEPT ![s] = 0]
    /\ UNCHANGED time

Next ==
    \/ \E s \in Sleepers : Sleep(s) \/ Wake(s) \/ Vanish(s)
    \/ Tick

Spec == Init /\ [][Next]_vars

==============================================================================

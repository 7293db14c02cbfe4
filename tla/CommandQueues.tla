---------------------------- MODULE CommandQueues ----------------------------
(***************************************************************************)
(* What the command dispatcher promises: the commands for a train are      *)
(* carried out one at a time, in the order in which they were given, none  *)
(* twice.  While a train is under automatic control further commands are   *)
(* turned away.                                                            *)
(***************************************************************************)
EXTENDS Sequences

CONSTANTS Trains, Commands, IsAuto(_), NoCommand

VARIABLES pending,  \* commands for each train that are waiting
          active    \* the command each train's conductor was given last

vars == <<pending, active>>

Init ==
    /\ pending = [t \in Trains |-> << >>]
    /\ active = [t \in Trains |-> NoCommand]

Give(t, c) ==
    \/ /\ active[t] = NoCommand
       /\ active' = [active EXCEPT ![t] = c]
       /\ UNCHANGED pending
    \/ /\ active[t] # NoCommand /\ ~ IsAuto(active[t])
       /\ pending' = [pending EXCEPT ![t] = Append(@, c)]
       /\ UNCHANGED active

Finish(t) ==
    /\ active[t] # NoCommand
    /\ IF pending[t] = << >>
       THEN active' = [active EXCEPT ![t] = NoCommand] /\ UNCHANGED pending
       ELSE /\ active' = [active EXCEPT ![t] = Head(pending[t])]
            /\ pending' = [pending EXCEPT ![t] = Tail(@)]

Next == \E t \in Trains : Finish(t) \/ \E c \in Commands : Give(t, c)

Spec == Init /\ [][Next]_vars

==============================================================================

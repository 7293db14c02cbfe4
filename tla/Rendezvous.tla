----------------------------- MODULE Rendezvous -----------------------------
(***************************************************************************)
(* What Send, Receive and Reply promise (the comments on them in           *)
(* lib/codes.h), with no kernel in sight: a message is handed over once,   *)
(* in the order in which it was sent to its receiver; its sender waits     *)
(* until it is answered, or is let go when the receiver is gone.           *)
(***************************************************************************)
EXTENDS Sequences

CONSTANT Tasks

VARIABLES
    phase,   \* what each task is doing, as far as messages go
    inbox    \* for each task, the senders it has not received from, oldest first

vars == <<phase, inbox>>

Phases == {"absent", "free", "sending", "receiving", "awaiting"}

TypeInv ==
    /\ phase \in [Tasks -> Phases]
    /\ inbox \in [Tasks -> Seq(Tasks)]

Init ==
    /\ phase \in [Tasks -> {"absent", "free"}]
    /\ inbox = [t \in Tasks |-> << >>]

----------------------------------------------------------------------------
Appear(t) ==
    /\ phase[t] = "absent" /\ inbox[t] = << >>
    /\ phase' = [phase EXCEPT ![t] = "free"]
    /\ UNCHANGED inbox

Vanish(t) ==
    /\ phase[t] = "free"
    /\ phase' = [phase EXCEPT ![t] = "absent"]
    /\ UNCHANGED inbox

\* The receiver is busy: the sender queues up.
Post(s, r) ==
    /\ phase[s] = "free" /\ phase[r] \notin {"absent", "receiving"}
    /\ phase' = [phase EXCEPT ![s] = "sending"]
    /\ inbox' = [inbox EXCEPT ![r] = Append(@, s)]

\* The receiver waits already: the message is handed over at once.
Hand(s, r) ==
    /\ phase[s] = "free" /\ phase[r] = "receiving"
    /\ phase' = [phase EXCEPT ![s] = "awaiting", ![r] = "free"]
    /\ UNCHANGED inbox

Wait(r) ==
    /\ phase[r] = "free" /\ inbox[r] = << >>
    /\ phase' = [phase EXCEPT ![r] = "receiving"]
    /\ UNCHANGED inbox

Take(r) ==
    /\ phase[r] = "free" /\ inbox[r] # << >>
    /\ phase[Head(inbox[r])] = "sending"
    /\ phase' = [phase EXCEPT ![Head(inbox[r])] = "awaiting"]
    /\ inbox' = [inbox EXCEPT ![r] = Tail(@)]

Answer(s) ==
    /\ phase[s] = "awaiting"
    /\ phase' = [phase EXCEPT ![s] = "free"]
    /\ UNCHANGED inbox

\* The receiver is gone: its senders are let go in turn.
Refuse(r) ==
    /\ phase[r] = "absent" /\ inbox[r] # << >>
    /\ phase[Head(inbox[r])] = "sending"
    /\ phase' = [phase EXCEPT ![Head(inbox[r])] = "free"]
    /\ inbox' = [inbox EXCEPT ![r] = Tail(@)]

Next ==
    \/ \E t \in Tasks : Appear(t) \/ Vanish(t) \/ Wait(t) \/ Take(t) \/ Answer(t) \/ Refuse(t)
    \/ \E s, r \in Tasks : Post(s, r) \/ Hand(s, r)

Spec == Init /\ [][Next]_vars

=============================================================================

-------------------------- MODULE KernelRefinement --------------------------
(***************************************************************************)
(* The kernel implements Rendezvous and PriorityScheduler.  The queues of  *)
(* the abstract specifications are what the pointers stand for; a task     *)
(* stays on the abstract processor until its trap has been handled.        *)
(***************************************************************************)
EXTENDS KernelProperties

Phase(s) ==
    CASE state[s] = "ZOMBIE" -> "absent"
      [] state[s] = "RECEIVE_BLOCKED" -> "sending"
      [] state[s] = "SEND_BLOCKED" -> "receiving"
      [] state[s] = "REPLY_BLOCKED" -> "awaiting"
      [] OTHER -> "free"

Messages == INSTANCE Rendezvous
    WITH Tasks <- Slots,
         phase <- [s \in Slots |-> Phase(s)],
         inbox <- [s \in Slots |-> SendQueue(s)]

Dispatching == INSTANCE PriorityScheduler
    WITH Tasks <- Slots,
         None <- NULL,
         ready <- [p \in Priorities |-> ReadyQueue(p)],
         running <- IF mode \in {"user", "clear", "return"} THEN current ELSE NULL,
         rank <- priority

\* Messages are handed over once, in order, and the senders still queued at a task
\* that exits are let go: send, receive, reply, create and exit together do
\* nothing else (kernel/src/multitasking/messaging.c, send_queue.c).
MessagesImplemented == Messages!Spec

\* The pointer queues and the bitmap are first come first served queues under
\* strict priorities, whoever blocks, exits or is killed in between
\* (kernel/src/multitasking/schedule.c, scheduler.c, queue.h).
DispatchingImplemented == Dispatching!Spec

=============================================================================

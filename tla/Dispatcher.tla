------------------------------ MODULE Dispatcher ------------------------------
(***************************************************************************)
(* The command dispatcher (usr/command_dispatcher.c) with the tasks it     *)
(* talks to: the user interface, which sends it commands, one conductor    *)
(* per train, which reports when it is ready for the next command, the     *)
(* demo tasks that drive a train from sensor to sensor, and the conductors *)
(* of train groups.                                                        *)
(*                                                                         *)
(* Commands are told apart as far as the dispatcher does: "tr" stands for  *)
(* TR and RV, "loop" for SD and LOOP, "r" is R with its destination.       *)
(* Commands that leave its tables alone (GO, STOP, SW, V and all of SET    *)
(* but the trains) are left out.                                           *)
(***************************************************************************)
EXTENDS Integers, Sequences, FiniteSets

CONSTANTS
    Trains,     \* the active trains
    Driven,     \* those that the user gives commands (bound)
    Goals,      \* sensors to route to
    QueueLen,   \* TR_Q_LEN
    MaxGroups,  \* MAX_GROUPS
    Cares,      \* whether the user groups, starts and stops only what stands idle
    Entered,    \* the types of those commands
    MaxExcess,  \* commands the user enters beyond QueueLen (bound)
    MaxReplaced,\* conductors of a train replaced while they work (bound)
    Sparing     \* whether the user does little with trains that are mixed up (bound)

NoTrain == "none"

ASSUME DispatcherAssumption ==
    /\ IsFiniteSet(Trains) /\ Driven \subseteq Trains /\ NoTrain \notin Trains
    /\ QueueLen \in Nat \ {0} /\ MaxGroups \in Nat /\ MaxExcess \in Nat
    /\ MaxReplaced \in Nat /\ Cares \subseteq BOOLEAN /\ Sparing \in BOOLEAN

NO_DESTINATION == "none"
NoCommand == [type |-> "none", goal |-> NO_DESTINATION]
Commands == [type : {"tr", "loop"}, goal : {NO_DESTINATION}] \cup [type : {"r"}, goal : Goals]
Orders == {s \in UNION {[1 .. n -> Trains] : n \in 1 .. Cardinality(Trains)} :
              \A i, j \in DOMAIN s : i # j => s[i] # s[j]}

VARIABLES
    ui,         \* the user interface: "free", or in Send to the dispatcher
    inbox,      \* messages sent to the dispatcher and not received
    doing,      \* the handler the dispatcher is in, while it waits for a receiver
    conductors, \* conductor_data of each train
    stage,      \* where the conductor of each train is
    task,       \* the command it was given last
    demo,       \* the demo task of each train: "none", in Send, or awaiting reply
    groups,     \* tr_groups: the members and where their conductor is
    replaced,   \* conductors of each train that another took the place of
    mixed,      \* history: trains that GROUP or SET has named while they were in a group
    careful,    \* what this user is like
    failed      \* how the program has stopped, or "no"

vars == <<ui, inbox, doing, conductors, stage, task, demo, groups, replaced, mixed,
          careful, failed>>

NotBusy == [op |-> "receive"]

NoneReplaced == [working |-> 0, reporting |-> 0]

----------------------------------------------------------------------------
(* The tables. *)

IsAutoCmd(c) == c.type \in {"loop", "r"}

\* create_conductor fills in all fields but for tid, which tells whether there is one.
NewConductor ==
    [tid |-> TRUE, rdy |-> TRUE, auto |-> FALSE, available |-> 0, i |-> 0, o |-> 0,
     msgs |-> [n \in 0 .. QueueLen - 1 |-> NoCommand],
     t2 |-> FALSE, destination |-> NO_DESTINATION]

Wrap(n) == IF n < QueueLen - 1 THEN n + 1 ELSE 0

\* A full queue is reported and overwritten.
Store(c, m) ==
    [c EXCEPT !.msgs[c.i] = m, !.i = Wrap(@), !.available = @ + 1]

NextCommand_Newest(c) == c.msgs[(c.i + QueueLen - 1) % QueueLen]    \* slip

NextCommand(c) == c.msgs[c.o]

\* What both send_if_rdy and conductor_ready do with the oldest message.
Start_StillReady(c) ==                                              \* slip
    [c EXCEPT !.auto = IsAutoCmd(NextCommand(c)), !.o = Wrap(@), !.available = @ - 1]

Start(c) ==
    [c EXCEPT !.destination = IF NextCommand(c).type = "r" THEN NextCommand(c).goal ELSE @,
              !.auto = IsAutoCmd(NextCommand(c)),
              !.o = Wrap(@), !.available = @ - 1, !.rdy = FALSE]

\* Nothing is left to start.
Idle_StaysAuto(c) == [c EXCEPT !.rdy = TRUE]                         \* slip

Idle(c) == [c EXCEPT !.rdy = TRUE, !.auto = FALSE]

Forget_Nothing(c) == c                                              \* slip

ForgetDestination(c) == [c EXCEPT !.destination = NO_DESTINATION]

ForgetDemo(c) == [c EXCEPT !.t2 = FALSE]

ForgetConductor(c) == [c EXCEPT !.tid = FALSE]

Members(g) == {g.members[i] : i \in DOMAIN g.members}
Grouped ==
    (UNION {Members(groups[k]) : k \in DOMAIN groups})
        \cup (IF doing.op = "group" THEN Members(doing) ELSE {})

Init ==
    /\ ui = "free" /\ inbox = << >> /\ doing = NotBusy
    /\ \E active \in SUBSET Trains :
          /\ conductors = [t \in Trains |-> [NewConductor EXCEPT !.tid = t \in active]]
          /\ stage = [t \in Trains |-> IF t \in active THEN "receive" ELSE "none"]
    /\ task = [t \in Trains |-> NoCommand]
    /\ demo = [t \in Trains |-> "none"]
    /\ groups = << >> /\ careful \in Cares /\ failed = "no"
    /\ replaced = [t \in Trains |-> NoneReplaced] /\ mixed = {}

----------------------------------------------------------------------------
(* The user.  Careful, it touches only what has nothing on the way. *)

OnTheWay(t) == {n \in DOMAIN inbox : inbox[n].train = t}

Starting(t) == doing.op = "start" /\ doing.train = t

Quiet(t) ==
    /\ conductors[t].tid => conductors[t].rdy
    /\ OnTheWay(t) = {} /\ ~ Starting(t) /\ ~ conductors[t].t2
    /\ t \notin Grouped

\* The dispatcher's mailbox: a message and the task that waits in Send.
Mail(from, op, t, arg) == Append(inbox, [from |-> from, op |-> op, train |-> t, arg |-> arg])

\* Bound: a sparing user who has mixed trains up waits for the mailbox to be empty, except
\* to ungroup, and then gives no commands but single TRs, until all trains are mixed up.
Spares(op, t, arg) ==
    Sparing /\ mixed # {} =>
        /\ mixed # Trains /\ doing = NotBusy /\ (inbox = << >> \/ op = "ungroup")
        /\ \/ op \in {"group", "ungroup", "set", "t2start"}
           \/ op = "command" /\ arg.type = "tr" /\ (t \in mixed => conductors[t].rdy)

Enter(op, t, arg) ==
    /\ ui = "free" /\ failed = "no" /\ Spares(op, t, arg)
    /\ ui' = "sending"
    /\ inbox' = Mail("ui", op, t, arg)
    /\ UNCHANGED <<doing, conductors, stage, task, demo, groups, careful, failed>>
    /\ UNCHANGED <<replaced, mixed>>

\* Bound: a full queue is overrun by MaxExcess commands at most.
Room(t) == conductors[t].available + Cardinality(OnTheWay(t)) < QueueLen + MaxExcess

EnterCommand(t, c) ==
    /\ Room(t) /\ c.type \in Entered
    /\ Enter("command", t, c)

\* Without a conductor there is nothing in the field t2_tid.
EnterT2Start(t) ==
    /\ Room(t) /\ conductors[t].tid
    /\ careful => Quiet(t)
    /\ Enter("t2start", t, NoCommand)

EnterT2Stop(t) ==
    /\ conductors[t].tid
    /\ careful => OnTheWay(t) = {} /\ ~ Starting(t)
    /\ Enter("t2stop", t, NoCommand)

\* Bound: a sparing user mixes trains up only when no demo task runs.
MayName(ts) == Sparing /\ ts \cap Grouped # {} => \A t \in Trains : demo[t] = "none"

\* A train named twice would be handled as if it were named once.
EnterGroup(members) ==
    /\ \A i \in DOMAIN members : careful => Quiet(members[i])
    /\ MayName({members[i] : i \in DOMAIN members})
    /\ Enter("group", NoTrain, members)

\* A group is named; here its name is its list of members.
EnterUngroup(k) ==
    /\ k \in DOMAIN groups
    /\ \A t \in Members(groups[k]) :
          replaced[t].working + replaced[t].reporting < MaxReplaced
    /\ Enter("ungroup", NoTrain, groups[k].members)

\* The user interface looks the group up and passes a pointer into tr_groups.
EnterGroupCommand(k) ==
    /\ k \in DOMAIN groups
    /\ careful => doing.op # "ungroup"
    /\ Enter("groupcommand", NoTrain, k)

EnterSetTrains(ts) ==
    /\ careful => ts \cap Grouped = {}
    /\ MayName(ts)
    /\ Enter("set", NoTrain, ts)

----------------------------------------------------------------------------
(* A conductor carries out its command.  It receives nothing meanwhile but,  *)
(* while it routes, from its courier.                                        *)

Conducts(t, from, to) ==
    /\ failed = "no"
    /\ stage[t] \in from
    /\ stage' = [stage EXCEPT ![t] = to]
    /\ UNCHANGED <<ui, doing, conductors, task, demo, groups, replaced, mixed, careful, failed>>

Routes(t) ==
    /\ IsAutoCmd(task[t])
    /\ Conducts(t, {"working"}, "routing")
    /\ UNCHANGED inbox

Arrives(t) == Conducts(t, {"routing"}, "arrived") /\ UNCHANGED inbox

Reports(t) ==
    /\ Conducts(t, {"working", "arrived"}, "reporting")
    /\ inbox' = Mail("conductor", "ready", t, NoCommand)

\* A conductor that was replaced ends its command all the same, and reports it.
ReplacedReports(t) ==
    /\ failed = "no"
    /\ replaced[t].working > 0
    /\ replaced' = [replaced EXCEPT ![t].working = @ - 1]
    /\ inbox' = Mail("replaced", "ready", t, NoCommand)
    /\ UNCHANGED <<ui, doing, conductors, stage, task, demo, groups, mixed, careful, failed>>

\* The conductor of a group is busy for a while, with a command or a notification
\* of its courier; then the dispatcher, if it waits, is next.
GroupWorks(k, from, to) ==
    /\ failed = "no"
    /\ k \in DOMAIN groups /\ groups[k].stage = from
    /\ groups' = [groups EXCEPT ![k].stage = to]
    /\ UNCHANGED <<ui, inbox, doing, conductors, stage, task, demo, replaced, mixed>>
    /\ UNCHANGED <<failed, careful>>

GroupNotified(k) ==
    /\ doing.op \in {"ungroup", "groupcommand"} => doing.group # k
    /\ GroupWorks(k, "receive", "working")

GroupDone(k) == GroupWorks(k, "working", "receive")

----------------------------------------------------------------------------
(* The dispatcher.  It answers at once, except a demo task's R, and then     *)
(* handles the message; a handler that sends waits until the other receives. *)

\* A demo task runs above all others here, so once let go it has its next R in the
\* mailbox before anybody else moves.
DemoSends(t, rest) ==
    \E g \in Goals :
        inbox' = Append(rest, [from |-> "demo", op |-> "command", train |-> t,
                               arg |-> [type |-> "r", goal |-> g]])

Receives(op) ==
    /\ failed = "no" /\ doing = NotBusy
    /\ inbox # << >> /\ Head(inbox).op = op
    /\ ~ (Head(inbox).from = "demo" /\ demo[Head(inbox).train] = "killed")
    /\ ui' = IF Head(inbox).from = "ui" THEN "free" ELSE ui

\* A task killed in Send is still on the mailbox; the kernel follows its NULL trap
\* frame.
ReceivesFromDead ==
    /\ failed = "no" /\ doing = NotBusy
    /\ inbox # << >>
    /\ Head(inbox).from = "demo" /\ demo[Head(inbox).train] = "killed"
    /\ failed' = "fault"
    /\ UNCHANGED <<ui, inbox, doing, conductors, stage, task, demo, groups, replaced, mixed>>
    /\ UNCHANGED careful

\* A demo task whose tid was lost when its train got a new conductor is answered at
\* once, whatever becomes of its R, and so calls again and again.  Bound: the model
\* stops there.
Forgotten(m) == m.from = "demo" /\ ~ conductors[m.train].t2

ReceivesFromForgotten ==
    /\ Receives("command") /\ Forgotten(Head(inbox))
    /\ failed' = "forgotten"
    /\ UNCHANGED <<inbox, doing, conductors, stage, task, demo, groups, replaced, mixed>>
    /\ UNCHANGED careful

\* send_if_rdy, up to the Send.
HandleCommand ==
    /\ Receives("command") /\ ~ Forgotten(Head(inbox))
    /\ LET m == Head(inbox)
           t == m.train
           c == conductors[t]
       IN  /\ demo' = IF m.from = "demo" THEN [demo EXCEPT ![t] = "awaiting"] ELSE demo
           /\ IF ~ c.tid \/ c.auto THEN UNCHANGED <<doing, conductors>>
              ELSE /\ conductors' = [conductors EXCEPT ![t] = Store(c, m.arg)]
                   /\ doing' = IF c.rdy
                               THEN [op |-> "start", train |-> t, ready |-> FALSE]
                               ELSE NotBusy
    /\ inbox' = Tail(inbox)
    /\ UNCHANGED <<stage, task, groups, replaced, mixed, failed, careful>>

LetDemoGo_OnlyIdle(t, c, rest) ==                                   \* slip
    /\ conductors' = [conductors EXCEPT ![t] = ForgetDestination(c)]
    /\ IF ~ c.t2 \/ ~ c.rdy THEN inbox' = rest /\ UNCHANGED <<demo, failed>>
       ELSE demo' = [demo EXCEPT ![t] = "sending"] /\ DemoSends(t, rest) /\ UNCHANGED failed

\* The end of the handler of MESSAGE_READY.
LetDemoGo(t, c, rest) ==
    /\ conductors' = [conductors EXCEPT ![t] = ForgetDestination(c)]
    /\ IF ~ c.t2 THEN inbox' = rest /\ UNCHANGED <<demo, failed>>
       ELSE IF demo[t] # "awaiting"
       THEN failed' = "assert" /\ inbox' = rest /\ UNCHANGED demo
       ELSE demo' = [demo EXCEPT ![t] = "sending"] /\ DemoSends(t, rest) /\ UNCHANGED failed

\* conductor_ready, up to the Send if there is one.  READY carries the train, not the
\* conductor; what the replaced ones had sent comes before anything of the new one.
HandleReady ==
    /\ Receives("ready")
    /\ LET t == Head(inbox).train
           c == conductors[t]
       IN  /\ IF Head(inbox).from = "replaced" THEN UNCHANGED <<stage, replaced>>
              ELSE IF replaced[t].reporting > 0
              THEN /\ replaced' = [replaced EXCEPT ![t].reporting = @ - 1]
                   /\ UNCHANGED stage
              ELSE stage' = [stage EXCEPT ![t] = "receive"] /\ UNCHANGED replaced
           /\ IF c.available > 0
              THEN /\ doing' = [op |-> "start", train |-> t, ready |-> TRUE]
                   /\ inbox' = Tail(inbox)
                   /\ UNCHANGED <<conductors, demo, failed>>
              ELSE /\ LetDemoGo(t, Idle(c), Tail(inbox))
                   /\ UNCHANGED doing
    /\ UNCHANGED <<task, groups, mixed, careful>>

\* The conductor receives the command, and the handler ends.
ConductorTakes ==
    /\ failed = "no"
    /\ doing.op = "start" /\ stage[doing.train] = "receive"
    /\ LET t == doing.train
           c == conductors[t]
       IN  /\ stage' = [stage EXCEPT ![t] = "working"]
           /\ task' = [task EXCEPT ![t] = NextCommand(c)]
           /\ IF doing.ready THEN LetDemoGo(t, Start(c), inbox)
              ELSE /\ conductors' = [conductors EXCEPT ![t] = Start(c)]
                   /\ UNCHANGED <<inbox, demo, failed>>
    /\ doing' = NotBusy
    /\ UNCHANGED <<ui, groups, replaced, mixed, careful>>

HandleT2Start ==
    /\ Receives("t2start")
    /\ LET t == Head(inbox).train
       IN  IF conductors[t].t2 THEN inbox' = Tail(inbox) /\ UNCHANGED <<conductors, demo>>
           ELSE /\ conductors' = [conductors EXCEPT ![t].t2 = TRUE]
                /\ demo' = [demo EXCEPT ![t] = "sending"]
                /\ DemoSends(t, Tail(inbox))
    /\ UNCHANGED <<doing, stage, task, groups, replaced, mixed, failed, careful>>

HandleT2Stop ==
    /\ Receives("t2stop")
    /\ LET t == Head(inbox).train
       IN  IF ~ conductors[t].t2 THEN UNCHANGED <<conductors, demo>>
           ELSE /\ conductors' = [conductors EXCEPT ![t] = ForgetDemo(@)]
                /\ demo' = [demo EXCEPT ![t] = IF @ = "sending" THEN "killed" ELSE "none"]
    /\ inbox' = Tail(inbox)
    /\ UNCHANGED <<doing, stage, task, groups, replaced, mixed, failed, careful>>

HandleGroup ==
    /\ Receives("group")
    /\ LET g == [op |-> "group", members |-> Head(inbox).arg, left |-> Head(inbox).arg]
       IN  IF Len(groups) >= MaxGroups THEN UNCHANGED <<doing, mixed>>
           ELSE doing' = g /\ mixed' = mixed \cup (Members(g) \cap Grouped)
    /\ inbox' = Tail(inbox)
    /\ UNCHANGED <<conductors, stage, task, demo, groups, replaced, careful, failed>>

\* sunset_tid of one member: a conductor that receives exits, one that routes does
\* not expect a message from anybody but its courier.
SunsetMember ==
    /\ failed = "no"
    /\ doing.op = "group" /\ doing.left # << >>
    /\ LET t == Head(doing.left)
       IN  /\ conductors[t].tid => stage[t] \in {"receive", "routing"}
           /\ IF conductors[t].tid /\ stage[t] = "routing"
              THEN failed' = "assert" /\ UNCHANGED <<stage, conductors, doing>>
              ELSE /\ stage' = [stage EXCEPT ![t] = "none"]
                   /\ conductors' = [conductors EXCEPT ![t] = ForgetConductor(@)]
                   /\ doing' = [doing EXCEPT !.left = Tail(@)]
                   /\ UNCHANGED failed
    /\ UNCHANGED <<ui, inbox, task, demo, groups, replaced, mixed, careful>>

GroupMade ==
    /\ failed = "no"
    /\ doing.op = "group" /\ doing.left = << >>
    /\ groups' = Append(groups, [members |-> doing.members, stage |-> "receive"])
    /\ doing' = NotBusy
    /\ UNCHANGED <<ui, inbox, conductors, stage, task, demo, replaced, mixed, failed, careful>>

\* One of the groups that the name may stand for; two with the same members may have
\* the same name or not.
HandleUngroup ==
    /\ Receives("ungroup")
    /\ LET named == {k \in DOMAIN groups : groups[k].members = Head(inbox).arg}
       IN  IF named = {} THEN UNCHANGED doing
           ELSE \E k \in named : doing' = [op |-> "ungroup", group |-> k]
    /\ inbox' = Tail(inbox)
    /\ UNCHANGED <<conductors, stage, task, demo, groups, replaced, mixed, careful, failed>>

\* The slot behind the last group holds a copy of that group, which was moved down, or
\* the group that is gone, with a tid that Send refuses.
HandleGroupCommand ==
    /\ Receives("groupcommand")
    /\ LET k == Head(inbox).arg
       IN  \/ \E j \in DOMAIN groups :
                 /\ j = IF k \in DOMAIN groups THEN k ELSE Len(groups)
                 /\ doing' = [op |-> "groupcommand", group |-> j]
                 /\ UNCHANGED failed
           \/ k \notin DOMAIN groups /\ failed' = "assert" /\ UNCHANGED doing
    /\ inbox' = Tail(inbox)
    /\ UNCHANGED <<conductors, stage, task, demo, groups, replaced, mixed, careful>>

\* A conductor that a train still has is neither told nor killed: its tid is lost.
CreateConductors(ts) ==
    /\ conductors' = [t \in Trains |-> IF t \in ts THEN NewConductor ELSE conductors[t]]
    /\ stage' = [t \in Trains |-> IF t \in ts THEN "receive" ELSE stage[t]]
    /\ replaced' = [t \in Trains |->
          IF t \in ts /\ stage[t] \in {"working", "routing", "arrived"}
          THEN [replaced[t] EXCEPT !.working = @ + 1]
          ELSE IF t \in ts /\ stage[t] = "reporting"
          THEN [replaced[t] EXCEPT !.reporting = @ + 1]
          ELSE replaced[t]]

\* The group's conductor receives: it exits, and its trains get conductors again.
GroupEnds ==
    /\ failed = "no"
    /\ doing.op = "ungroup" /\ groups[doing.group].stage = "receive"
    /\ CreateConductors(Members(groups[doing.group]))
    /\ groups' = [k \in 1 .. Len(groups) - 1 |->
                     IF k < doing.group THEN groups[k] ELSE groups[k + 1]]
    /\ doing' = NotBusy
    /\ UNCHANGED <<ui, inbox, task, demo, mixed, failed, careful>>

\* TRG, RVG.
GroupTakes ==
    /\ failed = "no"
    /\ doing.op = "groupcommand" /\ groups[doing.group].stage = "receive"
    /\ groups' = [groups EXCEPT ![doing.group].stage = "working"]
    /\ doing' = NotBusy
    /\ UNCHANGED <<ui, inbox, conductors, stage, task, demo, replaced, mixed, failed, careful>>

\* update_conductors makes the conductors that are missing.
HandleSetTrains ==
    /\ Receives("set")
    /\ LET missing == {t \in Head(inbox).arg : ~ conductors[t].tid}
       IN  CreateConductors(missing) /\ mixed' = mixed \cup (missing \cap Grouped)
    /\ inbox' = Tail(inbox)
    /\ UNCHANGED <<doing, task, demo, groups, careful, failed>>

----------------------------------------------------------------------------
UserStep ==
    \/ \E t \in Driven : \/ \E c \in Commands : EnterCommand(t, c)
                         \/ EnterT2Start(t) \/ EnterT2Stop(t)
    \/ \E members \in Orders : EnterGroup(members)
    \/ \E k \in DOMAIN groups : EnterUngroup(k) \/ EnterGroupCommand(k)
    \/ \E ts \in SUBSET Trains : EnterSetTrains(ts)

Works(t) == Routes(t) \/ Arrives(t) \/ Reports(t)

DispatcherStep ==
    \/ ReceivesFromDead \/ ReceivesFromForgotten
    \/ HandleCommand \/ HandleReady \/ ConductorTakes
    \/ HandleT2Start \/ HandleT2Stop
    \/ HandleGroup \/ SunsetMember \/ GroupMade
    \/ HandleUngroup \/ GroupEnds
    \/ HandleGroupCommand \/ GroupTakes
    \/ HandleSetTrains

Next ==
    \/ UserStep
    \/ \E t \in Trains : Works(t) \/ ReplacedReports(t)
    \/ \E k \in 1 .. MaxGroups : GroupNotified(k) \/ GroupDone(k)
    \/ DispatcherStep

Spec == Init /\ [][Next]_vars

\* Every task runs, every command ends and so does what a group's conductor does.
FairSpec ==
    /\ Spec
    /\ WF_vars(DispatcherStep)
    /\ \A t \in Trains : WF_vars(Works(t))
    /\ \A k \in 1 .. MaxGroups : WF_vars(GroupDone(k))

----------------------------------------------------------------------------
\* The dispatcher sends to a conductor only when it receives: rdy says so, and then
\* no command is left in the queue; auto_mode is set exactly while the conductor
\* carries out a command that drives the train by itself
\* (usr/command_dispatcher.c:119-131, 146-163).
ReadyExact ==
    \A t \in Trains \ mixed : conductors[t].tid /\ ~ Starting(t) =>
        /\ conductors[t].rdy <=> stage[t] = "receive"
        /\ conductors[t].rdy => conductors[t].available = 0
        /\ conductors[t].auto <=> ~ conductors[t].rdy /\ IsAutoCmd(task[t])

\* Each train has one task that drives it: its conductor or that of its group
\* (usr/command_dispatcher.c:381-389, 419-421).
OneDriver ==
    doing.op # "group" =>
        \A t \in Trains \ mixed :
            /\ conductors[t].tid => t \notin Grouped
            /\ \A j, k \in DOMAIN groups :
                  t \in Members(groups[j]) \cap Members(groups[k]) => j = k
            /\ replaced[t] = NoneReplaced

\* A careful user sees no assertion fail and no task that was killed in Send
\* (usr/command_dispatcher.c:303, 454, usr/train/train_conductor.c:383).
NothingFails == careful => failed = "no"

Waiting(c, n) == [k \in 1 .. n |-> c.msgs[(c.o + k - 1) % QueueLen]]

Promise == INSTANCE CommandQueues
    WITH IsAuto <- IsAutoCmd,
         pending <- [t \in Trains |->
            LET all == Waiting(conductors[t], conductors[t].available)
            IN  IF t \in mixed THEN << >> ELSE IF Starting(t) THEN Tail(all) ELSE all],
         active <- [t \in Trains |->
            IF t \in mixed THEN NoCommand ELSE IF Starting(t) THEN NextCommand(conductors[t])
            ELSE IF conductors[t].rdy THEN NoCommand ELSE task[t]]

\* The ring of messages of each conductor is the queue that CommandQueues promises:
\* in order, nothing lost, nothing twice (usr/command_dispatcher.c:106-163).
CommandsImplemented == Promise!Spec

\* The dispatcher always comes to the user's next command: it never waits for ever
\* for a conductor to receive (usr/command_dispatcher.c:199-206, 233).
UserAnswered == careful /\ ui = "sending" ~> ui = "free"

\* A demo task whose R is turned away or queued goes on when the conductor is ready
\* (usr/command_dispatcher.c:236-239, 452-455).
DemoGoesOn ==
    \A t \in Trains : careful /\ demo[t] = "awaiting" ~> demo[t] # "awaiting"

\* sunset_tid comes back: its task is told to exit and does
\* ("We tell the task to kill itself, and clean up after itself while doing so",
\* usr/command_dispatcher.c:193-206).
SunsetArrives == doing.op \in {"group", "ungroup"} ~> doing = NotBusy

==============================================================================

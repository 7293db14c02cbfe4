--------------------------- MODULE DispatcherProofs ---------------------------
(***************************************************************************)
(* The command dispatcher gives every train one driver, sends to a         *)
(* conductor only when it receives, runs into no failure with a careful    *)
(* user and keeps the commands for each train in order: for any trains,    *)
(* any length of the queues and any groups.                                *)
(*                                                                         *)
(* Four invariants, each on top of those before: who may drive a train     *)
(* (Drivers), where its conductor is (Stages), what nobody has asked for   *)
(* behind the back of a careful user (Care), and the line of commands for  *)
(* each train, in its ring and on the way to it (Lines, which does without *)
(* Care).  They speak of the trains that are not mixed up, which for a     *)
(* careful user are all.                                                   *)
(***************************************************************************)
EXTENDS Dispatcher, FiniteSetTheorems, TLAPS

----------------------------------------------------------------------------
(* Types. *)

Positions == 0 .. QueueLen - 1
CommandOrNone == Commands \cup {NoCommand}

Conductor ==
    [tid : BOOLEAN, rdy : BOOLEAN, auto : BOOLEAN, available : Int,
     i : Positions, o : Positions, msgs : [Positions -> CommandOrNone],
     t2 : BOOLEAN, destination : Goals \cup {NO_DESTINATION}]

Message ==
    UNION {[from : {"ui", "demo"}, op : {"command"}, train : Trains, arg : Commands],
           [from : {"ui"}, op : {"t2start", "t2stop"}, train : Trains, arg : {NoCommand}],
           [from : {"conductor", "replaced"}, op : {"ready"}, train : Trains,
            arg : {NoCommand}],
           [from : {"ui"}, op : {"group", "ungroup"}, train : {NoTrain}, arg : Orders],
           [from : {"ui"}, op : {"groupcommand"}, train : {NoTrain}, arg : Nat],
           [from : {"ui"}, op : {"set"}, train : {NoTrain}, arg : SUBSET Trains]}

Handler ==
    UNION {{NotBusy},
           [op : {"start"}, train : Trains, ready : BOOLEAN],
           [op : {"group"}, members : Orders, left : Seq(Trains)],
           [op : {"ungroup", "groupcommand"}, group : Nat]}

Group == [members : Orders, stage : {"receive", "working"}]

Types ==
    /\ ui \in {"free", "sending"}
    /\ inbox \in Seq(Message)
    /\ doing \in Handler
    /\ conductors \in [Trains -> Conductor]
    /\ stage \in [Trains -> {"none", "receive", "working", "routing", "arrived", "reporting"}]
    /\ task \in [Trains -> CommandOrNone]
    /\ demo \in [Trains -> {"none", "sending", "awaiting", "killed"}]
    /\ groups \in Seq(Group)
    /\ replaced \in [Trains -> [working : Int, reporting : Int]]
    /\ mixed \subseteq Trains
    /\ careful \in BOOLEAN
    /\ failed \in {"no", "fault", "assert", "forgotten"}

----------------------------------------------------------------------------
(* Drivers. *)

MembersOf(order) == {order[i] : i \in DOMAIN order}

\* The user has one message on the way at most.
OneRequest ==
    /\ \A m, n \in DOMAIN inbox : inbox[m].from = "ui" /\ inbox[n].from = "ui" => m = n
    /\ ui = "free" => \A n \in DOMAIN inbox : inbox[n].from # "ui"

\* A group and a conductor, and two groups, share no train that is not mixed up.
GroupsApart ==
    /\ \A j, k \in DOMAIN groups :
          j # k => Members(groups[j]) \cap Members(groups[k]) \subseteq mixed
    /\ \A t \in Trains, k \in DOMAIN groups :
          t \in Members(groups[k]) /\ t \notin mixed => ~ conductors[t].tid

\* While a group is made, the members with a conductor are those left to sunset.
GroupInMaking ==
    doing.op = "group" =>
        /\ MembersOf(doing.left) \subseteq Members(doing)
        /\ \A t \in Members(doing) : conductors[t].tid => t \in MembersOf(doing.left)
        /\ \A k \in DOMAIN groups : Members(doing) \cap Members(groups[k]) \subseteq mixed

GroupInHand == doing.op \in {"ungroup", "groupcommand"} => doing.group \in DOMAIN groups

\* What a careful user asked for was true when it was asked, and is still.
RequestsApart ==
    \A n \in DOMAIN inbox :
        /\ inbox[n].op = "group" => MembersOf(inbox[n].arg) \cap Grouped = {}
        /\ inbox[n].op = "set" => inbox[n].arg \cap Grouped = {}

NoneMixed == careful => mixed = {} /\ RequestsApart

Drivers ==
    /\ Types
    /\ OneRequest /\ GroupsApart /\ GroupInMaking /\ GroupInHand /\ NoneMixed

----------------------------------------------------------------------------
(* Stages. *)

\* A conductor that reports has one report on the way, and no other has, but for the
\* trains that are mixed up.
ReportsTrue ==
    /\ \A n \in DOMAIN inbox : inbox[n].op = "ready" /\ inbox[n].train \notin mixed =>
          inbox[n].from = "conductor" /\ stage[inbox[n].train] = "reporting"
    /\ \A m, n \in DOMAIN inbox :
          inbox[m].op = "ready" /\ inbox[n].op = "ready"
                  /\ inbox[m].train = inbox[n].train /\ inbox[n].train \notin mixed
              => m = n

\* The dispatcher waits only for a conductor that receives and has a command to get;
\* while it does not, the record of the conductor is true (ReadyExact).
TrainTrue(t) ==
    LET c == conductors[t]
    IN  /\ c.tid <=> stage[t] # "none"
        /\ replaced[t] = NoneReplaced
        /\ c.available >= 0
        /\ Starting(t) => c.tid /\ stage[t] = "receive" /\ c.available > 0
        /\ c.tid /\ ~ Starting(t) =>
              /\ c.rdy <=> stage[t] = "receive"
              /\ c.rdy => c.available = 0
              /\ c.auto <=> ~ c.rdy /\ IsAutoCmd(task[t])

Stages == ReportsTrue /\ \A t \in Trains \ mixed : TrainTrue(t)

----------------------------------------------------------------------------
(* Care. *)

\* Nothing else is on the way for the train but the message at n.
Calm(t, n) ==
    /\ conductors[t].tid => conductors[t].rdy
    /\ ~ Starting(t) /\ ~ conductors[t].t2
    /\ \A m \in DOMAIN inbox : m # n => inbox[m].train # t

\* A demo task waits in Send or for its reply, its message comes before the report of
\* its conductor, and the conductor that is sent its next command has answered it.
DemoTrue(t) ==
    /\ demo[t] # "killed"
    /\ conductors[t].t2 <=> demo[t] \in {"sending", "awaiting"}
    /\ conductors[t].t2 => conductors[t].tid

DemoFirst(t) ==
    demo[t] = "sending" =>
        \E n \in DOMAIN inbox :
            /\ inbox[n].from = "demo" /\ inbox[n].train = t
            /\ \A m \in DOMAIN inbox : inbox[m].op = "ready" /\ inbox[m].train = t => n < m

\* Only a task in Send has a message on the way, and it has one.
DemoOnce(t) ==
    \A n \in DOMAIN inbox :
        inbox[n].from = "demo" /\ inbox[n].train = t =>
            /\ demo[t] = "sending"
            /\ \A m \in DOMAIN inbox :
                  inbox[m].from = "demo" /\ inbox[m].train = t => m = n

DemoAnswered(t) == Starting(t) /\ doing.ready => demo[t] # "sending"

DemoCare(t) == DemoTrue(t) /\ DemoFirst(t) /\ DemoOnce(t) /\ DemoAnswered(t)

\* Requests about a train of which nothing else is on the way, or comes before it.
StopCalm(t, n) ==
    /\ demo[t] # "sending" /\ ~ Starting(t)
    /\ \A m \in DOMAIN inbox : m < n => inbox[m].train # t

StopsCalm ==
    \A n \in DOMAIN inbox, t \in Trains :
        inbox[n].op = "t2stop" /\ inbox[n].train = t => StopCalm(t, n)

StartCalm(t, n) == conductors[t].tid /\ t \notin Grouped /\ Calm(t, n)

StartsCalm ==
    \A n \in DOMAIN inbox, t \in Trains :
        inbox[n].op = "t2start" /\ inbox[n].train = t => StartCalm(t, n)

GroupsCalm ==
    \A n \in DOMAIN inbox, t \in Trains :
        inbox[n].op = "group" /\ t \in MembersOf(inbox[n].arg) => Calm(t, n)

SunsetsCalm ==
    doing.op = "group" =>
        \A t \in MembersOf(doing.left) :
            ~ conductors[t].t2 /\ (conductors[t].tid => conductors[t].rdy)

GroupCommandsKnown ==
    \A n \in DOMAIN inbox : inbox[n].op = "groupcommand" =>
        doing.op # "ungroup" /\ inbox[n].arg \in DOMAIN groups

CareTaken ==
    /\ failed = "no"
    /\ \A t \in Trains : DemoCare(t)
    /\ StopsCalm /\ StartsCalm /\ GroupsCalm /\ SunsetsCalm /\ GroupCommandsKnown

Care == careful => CareTaken

----------------------------------------------------------------------------
(* The mailbox as a sequence. *)

LEMMA Grows ==
    ASSUME NEW S, NEW s \in Seq(S), NEW m \in S
    PROVE  /\ Append(s, m) \in Seq(S)
           /\ DOMAIN Append(s, m) = 1 .. Len(s) + 1
           /\ Append(s, m)[Len(s) + 1] = m
           /\ \A i \in DOMAIN s : i \in DOMAIN Append(s, m) /\ Append(s, m)[i] = s[i]
           /\ \A i \in DOMAIN Append(s, m) : i # Len(s) + 1 => i \in DOMAIN s
           /\ \A i \in DOMAIN s : i < Len(s) + 1
OBVIOUS

LEMMA Shrinks ==
    ASSUME NEW S, NEW s \in Seq(S), s # << >>
    PROVE  /\ Tail(s) \in Seq(S) /\ Head(s) \in S
           /\ Head(s) = s[1] /\ 1 \in DOMAIN s
           /\ \A i \in DOMAIN Tail(s) :
                 i \in Nat \ {0} /\ i + 1 \in DOMAIN s /\ Tail(s)[i] = s[i + 1]
           /\ \A i \in DOMAIN s : i \in Nat \ {0}
           /\ \A i \in DOMAIN s : i # 1 => i - 1 \in DOMAIN Tail(s) /\ Tail(s)[i - 1] = s[i]
OBVIOUS

\* An order is a sequence of trains.
LEMMA OrderIsSequence ==
    ASSUME NEW s \in Orders
    PROVE  s \in Seq(Trains)
<1>1. Cardinality(Trains) \in Nat => s \in Seq(Trains)
  <2> SUFFICES ASSUME Cardinality(Trains) \in Nat PROVE s \in Seq(Trains)
      OBVIOUS
  <2>1. PICK n \in 1 .. Cardinality(Trains) : s \in [1 .. n -> Trains]
      BY DEF Orders
  <2>2. n \in Nat
      BY <2>1
  <2> QED BY <2>1, <2>2
<1>2. Cardinality(Trains) \in Nat
    BY DispatcherAssumption, FS_CardinalityType
<1> QED BY <1>1, <1>2

\* The kinds of message, and of handler.
LEMMA MessageParts ==
    ASSUME NEW m \in Message
    PROVE  /\ m.op = "command" =>
                 m.from \in {"ui", "demo"} /\ m.train \in Trains /\ m.arg \in Commands
           /\ m.op \in {"t2start", "t2stop"} => m.from = "ui" /\ m.train \in Trains
           /\ m.op = "ready" => m.from \in {"conductor", "replaced"} /\ m.train \in Trains
           /\ m.op \in {"group", "ungroup"} =>
                 m.from = "ui" /\ m.train = NoTrain /\ m.arg \in Orders
           /\ m.op = "groupcommand" => m.from = "ui" /\ m.train = NoTrain /\ m.arg \in Nat
           /\ m.op = "set" => m.from = "ui" /\ m.train = NoTrain /\ m.arg \subseteq Trains
           /\ m.from = "demo" => m.op = "command"
           /\ m.op \in {"command", "t2start", "t2stop", "ready", "group", "ungroup",
                        "groupcommand", "set"}
BY DEF Message

LEMMA Handlers ==
    /\ NotBusy \in Handler
    /\ \A t \in Trains : [op |-> "start", train |-> t, ready |-> TRUE] \in Handler
    /\ \A t \in Trains : [op |-> "start", train |-> t, ready |-> FALSE] \in Handler
    /\ \A s \in Orders : [op |-> "group", members |-> s, left |-> s] \in Handler
    /\ \A k \in Nat : [op |-> "ungroup", group |-> k] \in Handler
    /\ \A k \in Nat : [op |-> "groupcommand", group |-> k] \in Handler
<1>1. \A s \in Orders : s \in Seq(Trains)
    BY OrderIsSequence
<1> QED BY <1>1 DEF Handler

LEMMA HandlerParts ==
    ASSUME Types
    PROVE  /\ doing.op = "start" => doing.train \in Trains /\ doing.ready \in BOOLEAN
           /\ doing.op = "group" => doing.members \in Orders /\ doing.left \in Seq(Trains)
           /\ doing.op \in {"ungroup", "groupcommand"} => doing.group \in Nat
           /\ doing.op = "receive" => doing = NotBusy
           /\ NotBusy.op = "receive"
BY DEF Types, Handler, NotBusy

LEMMA ReceivesParts ==
    ASSUME Types, NEW op, Receives(op)
    PROVE  /\ failed = "no" /\ doing = NotBusy
           /\ Head(inbox) \in Message /\ Head(inbox).op = op
           /\ Head(inbox) = inbox[1] /\ 1 \in DOMAIN inbox
           /\ inbox # << >>
           /\ Tail(inbox) \in Seq(Message)
           /\ ui' \in {"free", "sending"}
           /\ ui' = IF inbox[1].from = "ui" THEN "free" ELSE ui
BY Shrinks DEF Types, Receives

LEMMA MembersOfOrder ==
    ASSUME NEW s \in Seq(Trains)
    PROVE  MembersOf(s) \subseteq Trains
BY DEF MembersOf

\* The record of a conductor.
LEMMA NewConductorType ==
    /\ NewConductor \in Conductor
    /\ NewConductor.tid /\ NewConductor.rdy /\ ~ NewConductor.auto /\ ~ NewConductor.t2
    /\ NewConductor.available = 0
BY DispatcherAssumption DEF NewConductor, Conductor, Positions, CommandOrNone

\* What a change of one field leaves alone.
SameFlags(c, d) == d.tid = c.tid /\ d.rdy = c.rdy /\ d.auto = c.auto /\ d.t2 = c.t2

LEMMA OneField ==
    ASSUME NEW c \in Conductor
    PROVE  /\ \A x \in [Positions -> CommandOrNone] :
                 /\ [c EXCEPT !.msgs = x] \in Conductor /\ SameFlags(c, [c EXCEPT !.msgs = x])
                 /\ [c EXCEPT !.msgs = x].available = c.available
                 /\ [c EXCEPT !.msgs = x].i = c.i
           /\ \A n \in Positions :
                 /\ [c EXCEPT !.i = n] \in Conductor /\ SameFlags(c, [c EXCEPT !.i = n])
                 /\ [c EXCEPT !.i = n].available = c.available
           /\ \A n \in Positions :
                 /\ [c EXCEPT !.o = n] \in Conductor /\ SameFlags(c, [c EXCEPT !.o = n])
                 /\ [c EXCEPT !.o = n].available = c.available
           /\ \A k \in Int :
                 /\ [c EXCEPT !.available = k] \in Conductor
                 /\ SameFlags(c, [c EXCEPT !.available = k])
                 /\ [c EXCEPT !.available = k].available = k
           /\ \A g \in Goals \cup {NO_DESTINATION} :
                 /\ [c EXCEPT !.destination = g] \in Conductor
                 /\ SameFlags(c, [c EXCEPT !.destination = g])
                 /\ [c EXCEPT !.destination = g].available = c.available
                 /\ [c EXCEPT !.destination = g].o = c.o
<1>1. ASSUME NEW x \in [Positions -> CommandOrNone]
      PROVE  /\ [c EXCEPT !.msgs = x] \in Conductor /\ SameFlags(c, [c EXCEPT !.msgs = x])
             /\ [c EXCEPT !.msgs = x].available = c.available
             /\ [c EXCEPT !.msgs = x].i = c.i
    BY DEF Conductor, SameFlags
<1>2. ASSUME NEW n \in Positions
      PROVE  /\ [c EXCEPT !.i = n] \in Conductor /\ SameFlags(c, [c EXCEPT !.i = n])
             /\ [c EXCEPT !.i = n].available = c.available
    BY DEF Conductor, SameFlags
<1>3. ASSUME NEW n \in Positions
      PROVE  /\ [c EXCEPT !.o = n] \in Conductor /\ SameFlags(c, [c EXCEPT !.o = n])
             /\ [c EXCEPT !.o = n].available = c.available
    BY DEF Conductor, SameFlags
<1>4. ASSUME NEW k \in Int
      PROVE  /\ [c EXCEPT !.available = k] \in Conductor
             /\ SameFlags(c, [c EXCEPT !.available = k])
             /\ [c EXCEPT !.available = k].available = k
    BY DEF Conductor, SameFlags
<1>5. ASSUME NEW g \in Goals \cup {NO_DESTINATION}
      PROVE  /\ [c EXCEPT !.destination = g] \in Conductor
             /\ SameFlags(c, [c EXCEPT !.destination = g])
             /\ [c EXCEPT !.destination = g].available = c.available
             /\ [c EXCEPT !.destination = g].o = c.o
    BY DEF Conductor, SameFlags
<1> QED BY <1>1, <1>2, <1>3, <1>4, <1>5

LEMMA StoreParts ==
    ASSUME NEW c \in Conductor, NEW m \in Commands
    PROVE  /\ Store(c, m) \in Conductor /\ SameFlags(c, Store(c, m))
           /\ Store(c, m).available = c.available + 1
<1> DEFINE msgs == [c.msgs EXCEPT ![c.i] = m]
           d == [c EXCEPT !.msgs = msgs]
           e == [d EXCEPT !.i = Wrap(c.i)]
<1>1. msgs \in [Positions -> CommandOrNone]
    BY DEF Conductor, CommandOrNone
<1>2. Wrap(c.i) \in Positions
    BY DispatcherAssumption DEF Wrap, Conductor, Positions
<1>3. c.available + 1 \in Int
    BY DEF Conductor
<1>4. Store(c, m) = [e EXCEPT !.available = c.available + 1]
    BY DEF Store
<1> HIDE DEF msgs
<1>5. d \in Conductor /\ SameFlags(c, d)
    BY <1>1, OneField
<1> HIDE DEF d
<1>6. e \in Conductor /\ SameFlags(d, e)
    BY <1>2, <1>5, OneField
<1> HIDE DEF e
<1> QED BY <1>3, <1>4, <1>5, <1>6, OneField DEF SameFlags

LEMMA StartParts ==
    ASSUME NEW c \in Conductor
    PROVE  /\ Start(c) \in Conductor /\ NextCommand(c) \in CommandOrNone
           /\ Start(c).available = c.available - 1
           /\ Start(c).tid = c.tid /\ Start(c).rdy = FALSE
           /\ Start(c).auto = IsAutoCmd(NextCommand(c)) /\ Start(c).t2 = c.t2
<1> DEFINE goal == IF NextCommand(c).type = "r" THEN NextCommand(c).goal ELSE c.destination
           auto == IsAutoCmd(NextCommand(c))
           d == [c EXCEPT !.destination = goal]
           e == [d EXCEPT !.o = Wrap(c.o)]
           f == [e EXCEPT !.available = c.available - 1]
<1>1. NextCommand(c) \in CommandOrNone
    BY DEF NextCommand, Conductor
<1>2. NextCommand(c).type = "r" => NextCommand(c).goal \in Goals \cup {NO_DESTINATION}
    BY <1>1 DEF CommandOrNone, Commands, NoCommand
<1>3. auto \in BOOLEAN
    BY DEF IsAutoCmd
<1>4. Wrap(c.o) \in Positions
    BY DispatcherAssumption DEF Wrap, Conductor, Positions
<1>5. goal \in Goals \cup {NO_DESTINATION}
    BY <1>2 DEF Conductor
<1>6. c.available - 1 \in Int
    BY DEF Conductor
<1>7. Start(c) = [f EXCEPT !.auto = auto, !.rdy = FALSE]
    BY DEF Start
<1> HIDE DEF goal, auto
<1>8. d \in Conductor /\ SameFlags(c, d)
    BY <1>5, OneField
<1> HIDE DEF d
<1>9. e \in Conductor /\ SameFlags(d, e)
    BY <1>4, <1>8, OneField
<1> HIDE DEF e
<1>10. f \in Conductor /\ SameFlags(e, f) /\ f.available = c.available - 1
    BY <1>6, <1>9, OneField
<1> HIDE DEF f
<1>11. /\ Start(c) \in Conductor /\ Start(c).available = f.available
       /\ Start(c).tid = f.tid /\ Start(c).rdy = FALSE
       /\ Start(c).auto = auto /\ Start(c).t2 = f.t2
    BY <1>3, <1>7, <1>10 DEF Conductor
<1> QED BY <1>1, <1>8, <1>9, <1>10, <1>11 DEF SameFlags, auto

LEMMA ForgetParts ==
    ASSUME NEW c \in Conductor
    PROVE  /\ Idle(c) \in Conductor /\ Idle(c).rdy /\ ~ Idle(c).auto
           /\ Idle(c).tid = c.tid /\ Idle(c).t2 = c.t2 /\ Idle(c).available = c.available
           /\ ForgetDestination(c) \in Conductor
           /\ ForgetDestination(c).tid = c.tid /\ ForgetDestination(c).rdy = c.rdy
           /\ ForgetDestination(c).auto = c.auto /\ ForgetDestination(c).t2 = c.t2
           /\ ForgetDestination(c).available = c.available
           /\ ForgetDemo(c) \in Conductor /\ ~ ForgetDemo(c).t2
           /\ ForgetDemo(c).tid = c.tid /\ ForgetDemo(c).rdy = c.rdy
           /\ ForgetDemo(c).auto = c.auto /\ ForgetDemo(c).available = c.available
           /\ ForgetConductor(c) \in Conductor /\ ~ ForgetConductor(c).tid
           /\ ForgetConductor(c).rdy = c.rdy /\ ForgetConductor(c).auto = c.auto
           /\ ForgetConductor(c).t2 = c.t2 /\ ForgetConductor(c).available = c.available
BY DEF Idle, ForgetDestination, ForgetDemo, ForgetConductor, Conductor

\* The message of a demo task, and what LetDemoGo does with it.
DemoMail(m, t) == m \in Message /\ m.from = "demo" /\ m.train = t

LEMMA DemoSendsParts ==
    ASSUME NEW t \in Trains, NEW rest, DemoSends(t, rest)
    PROVE  \E m : DemoMail(m, t) /\ inbox' = Append(rest, m)
<1>1. PICK g \in Goals : inbox' = Append(rest, [from |-> "demo", op |-> "command", train |-> t,
                                                arg |-> [type |-> "r", goal |-> g]])
    BY DEF DemoSends
<1>2. [type |-> "r", goal |-> g] \in Commands
    BY DEF Commands
<1> QED BY <1>1, <1>2 DEF DemoMail, Message

LetsDemoGo(t, rest) ==
    /\ UNCHANGED failed
    /\ demo' = [demo EXCEPT ![t] = "sending"]
    /\ \E m : DemoMail(m, t) /\ inbox' = Append(rest, m)

LEMMA LetDemoGoParts ==
    ASSUME NEW t \in Trains, NEW c, NEW rest, LetDemoGo(t, c, rest)
    PROVE  /\ conductors' = [conductors EXCEPT ![t] = ForgetDestination(c)]
           /\ \/ ~ c.t2 /\ inbox' = rest /\ UNCHANGED <<demo, failed>>
              \/ c.t2 /\ demo[t] # "awaiting" /\ failed' = "assert" /\ inbox' = rest
                     /\ UNCHANGED demo
              \/ c.t2 /\ demo[t] = "awaiting" /\ LetsDemoGo(t, rest)
BY DemoSendsParts DEF LetDemoGo, LetsDemoGo

LEMMA LetDemoGoTypes ==
    ASSUME Types, NEW t \in Trains, NEW c \in Conductor, NEW rest \in Seq(Message),
           LetDemoGo(t, c, rest)
    PROVE  /\ conductors' \in [Trains -> Conductor]
           /\ inbox' \in Seq(Message)
           /\ demo' \in [Trains -> {"none", "sending", "awaiting", "killed"}]
           /\ failed' \in {"no", "fault", "assert", "forgotten"}
<1>1. conductors' \in [Trains -> Conductor]
  <2>1. conductors \in [Trains -> Conductor]
      BY DEF Types
  <2>2. conductors' = [conductors EXCEPT ![t] = ForgetDestination(c)]
      BY LetDemoGoParts
  <2>3. ForgetDestination(c) \in Conductor
      BY ForgetParts
  <2> QED BY <2>1, <2>2, <2>3
<1>2. CASE inbox' = rest /\ UNCHANGED demo
  <2>1. failed' = failed \/ failed' = "assert"
      BY LetDemoGoParts DEF LetsDemoGo
  <2> QED BY <1>1, <1>2, <2>1 DEF Types
<1>3. CASE LetsDemoGo(t, rest)
    BY <1>1, <1>3, Grows DEF Types, LetsDemoGo, DemoMail
<1> QED BY <1>2, <1>3, LetDemoGoParts

----------------------------------------------------------------------------
(* Types. *)

LEMMA TypesInit == Init => Types
<1> SUFFICES ASSUME Init PROVE Types
    OBVIOUS
<1>1. PICK active \in SUBSET Trains :
          /\ conductors = [t \in Trains |-> [NewConductor EXCEPT !.tid = t \in active]]
          /\ stage = [t \in Trains |-> IF t \in active THEN "receive" ELSE "none"]
    BY DEF Init
<1>2. \A t \in Trains : [NewConductor EXCEPT !.tid = t \in active] \in Conductor
  <2>1. ASSUME NEW c \in Conductor, NEW t
        PROVE  [c EXCEPT !.tid = t \in active] \in Conductor
    <3>1. [c EXCEPT !.tid = TRUE] \in Conductor /\ [c EXCEPT !.tid = FALSE] \in Conductor
        BY DEF Conductor
    <3>2. CASE t \in active
      <4>1. (t \in active) = TRUE
          BY <3>2
      <4> QED BY <3>1, <4>1, Zenon
    <3>3. CASE t \notin active
      <4>1. (t \in active) = FALSE
          BY <3>3
      <4> QED BY <3>1, <4>1, Zenon
    <3> QED BY <3>2, <3>3
  <2> QED BY <2>1, NewConductorType
<1>3. conductors \in [Trains -> Conductor]
    BY <1>1, <1>2
<1>4. doing \in Handler
    BY DEF Init, Handler
<1>5. inbox \in Seq(Message) /\ groups \in Seq(Group)
    BY DEF Init
<1>6. replaced \in [Trains -> [working : Int, reporting : Int]] /\ mixed \subseteq Trains
    BY DEF Init, NoneReplaced
<1> QED
  BY <1>1, <1>3, <1>4, <1>5, <1>6, DispatcherAssumption DEF Init, Types, CommandOrNone

LEMMA EnterTypes ==
    ASSUME Types, NEW op, NEW t, NEW arg,
           [from |-> "ui", op |-> op, train |-> t, arg |-> arg] \in Message,
           Enter(op, t, arg)
    PROVE  Types'
BY Grows DEF Types, Enter, Mail

LEMMA UserTypes ==
    ASSUME Types, UserStep
    PROVE  Types'
<1>1. ASSUME NEW t \in Driven, NEW c \in Commands, EnterCommand(t, c)
      PROVE  Types'
  <2>1. [from |-> "ui", op |-> "command", train |-> t, arg |-> c] \in Message
      BY DispatcherAssumption DEF Message
  <2> QED BY <1>1, <2>1, EnterTypes DEF EnterCommand
<1>2. ASSUME NEW t \in Driven, EnterT2Start(t) \/ EnterT2Stop(t)
      PROVE  Types'
  <2>1. \A op \in {"t2start", "t2stop"} :
            [from |-> "ui", op |-> op, train |-> t, arg |-> NoCommand] \in Message
      BY DispatcherAssumption DEF Message
  <2> QED BY <1>2, <2>1, EnterTypes DEF EnterT2Start, EnterT2Stop
<1>3. ASSUME NEW members \in Orders, EnterGroup(members)
      PROVE  Types'
  <2>1. [from |-> "ui", op |-> "group", train |-> NoTrain, arg |-> members] \in Message
      BY DEF Message
  <2> QED BY <1>3, <2>1, EnterTypes DEF EnterGroup
<1>4. ASSUME NEW k \in DOMAIN groups, EnterUngroup(k) \/ EnterGroupCommand(k)
      PROVE  Types'
  <2>1. k \in Nat /\ groups[k].members \in Orders
    <3>1. k \in Nat /\ groups[k] \in Group
        BY DEF Types
    <3> QED BY <3>1 DEF Group
  <2>2. /\ [from |-> "ui", op |-> "ungroup", train |-> NoTrain,
            arg |-> groups[k].members] \in Message
        /\ [from |-> "ui", op |-> "groupcommand", train |-> NoTrain, arg |-> k] \in Message
      BY <2>1 DEF Message
  <2> QED BY <1>4, <2>2, EnterTypes DEF EnterUngroup, EnterGroupCommand
<1>5. ASSUME NEW ts \in SUBSET Trains, EnterSetTrains(ts)
      PROVE  Types'
  <2>1. [from |-> "ui", op |-> "set", train |-> NoTrain, arg |-> ts] \in Message
      BY DEF Message
  <2> QED BY <1>5, <2>1, EnterTypes DEF EnterSetTrains
<1> QED BY <1>1, <1>2, <1>3, <1>4, <1>5 DEF UserStep

LEMMA WorksTypes ==
    ASSUME Types, NEW t \in Trains, Works(t)
    PROVE  Types'
<1>1. CASE Routes(t) \/ Arrives(t)
    BY <1>1 DEF Routes, Arrives, Conducts, Types
<1>2. CASE Reports(t)
  <2>1. [from |-> "conductor", op |-> "ready", train |-> t, arg |-> NoCommand] \in Message
      BY DEF Message
  <2>2. inbox' \in Seq(Message)
      BY <1>2, <2>1, Grows DEF Reports, Mail, Types
  <2> QED BY <1>2, <2>2 DEF Reports, Conducts, Types
<1> QED BY <1>1, <1>2 DEF Works

LEMMA ReplacedTypes ==
    ASSUME Types, NEW t \in Trains, ReplacedReports(t)
    PROVE  Types'
<1>1. [from |-> "replaced", op |-> "ready", train |-> t, arg |-> NoCommand] \in Message
    BY DEF Message
<1>2. inbox' \in Seq(Message)
    BY <1>1, Grows DEF ReplacedReports, Mail, Types
<1>3. [replaced[t] EXCEPT !.working = @ - 1] \in [working : Int, reporting : Int]
    BY DEF Types
<1>4. /\ replaced \in [Trains -> [working : Int, reporting : Int]]
      /\ replaced' = [replaced EXCEPT ![t].working = @ - 1]
    BY DEF ReplacedReports, Types
<1>5. replaced' \in [Trains -> [working : Int, reporting : Int]]
    BY <1>3, <1>4
<1> QED BY <1>2, <1>5 DEF ReplacedReports, Types

LEMMA GroupTypes ==
    ASSUME Types, NEW k, GroupNotified(k) \/ GroupDone(k)
    PROVE  Types'
<1>1. PICK to \in {"receive", "working"} :
          k \in DOMAIN groups /\ groups' = [groups EXCEPT ![k].stage = to]
    BY DEF GroupNotified, GroupDone, GroupWorks
<1>2. groups[k] \in Group
    BY <1>1 DEF Types
<1>3. [groups[k] EXCEPT !.stage = to] \in Group
    BY <1>2 DEF Group
<1>4. groups' \in Seq(Group)
    BY <1>1, <1>3 DEF Types
<1> QED BY <1>4 DEF GroupNotified, GroupDone, GroupWorks, Types

\* What is new with conductors, for the trains given.
LEMMA CreateParts ==
    ASSUME Types, NEW ts, CreateConductors(ts)
    PROVE  /\ conductors' \in [Trains -> Conductor]
           /\ stage' \in [Trains -> {"none", "receive", "working", "routing", "arrived",
                                     "reporting"}]
           /\ \A t \in Trains :
                 /\ t \in ts => conductors'[t] = NewConductor /\ stage'[t] = "receive"
                 /\ t \notin ts => conductors'[t] = conductors[t] /\ stage'[t] = stage[t]
           /\ replaced' \in [Trains -> [working : Int, reporting : Int]]
           /\ \A t \in Trains : stage[t] = "none" => replaced'[t] = replaced[t]
           /\ \A t \in Trains \ ts : replaced'[t] = replaced[t]
<1>1. \A t \in Trains :
          /\ replaced[t] \in [working : Int, reporting : Int]
          /\ [replaced[t] EXCEPT !.working = @ + 1] \in [working : Int, reporting : Int]
          /\ [replaced[t] EXCEPT !.reporting = @ + 1] \in [working : Int, reporting : Int]
    BY DEF Types
<1>2. replaced' \in [Trains -> [working : Int, reporting : Int]]
    BY <1>1 DEF CreateConductors
<1>3. /\ conductors' \in [Trains -> Conductor]
      /\ stage' \in [Trains -> {"none", "receive", "working", "routing", "arrived",
                                "reporting"}]
    BY NewConductorType DEF CreateConductors, Types
<1>4. \A t \in Trains :
          /\ t \in ts => conductors'[t] = NewConductor /\ stage'[t] = "receive"
          /\ t \notin ts => conductors'[t] = conductors[t] /\ stage'[t] = stage[t]
    BY DEF CreateConductors
<1>5. /\ \A t \in Trains : stage[t] = "none" => replaced'[t] = replaced[t]
      /\ \A t \in Trains \ ts : replaced'[t] = replaced[t]
    BY DEF CreateConductors
<1> QED BY <1>2, <1>3, <1>4, <1>5

\* The groups that are left are in their order, all but one.
GroupsWithout(g) ==
    [k \in 1 .. Len(groups) - 1 |-> IF k < g THEN groups[k] ELSE groups[k + 1]]

LEMMA GroupsLeft ==
    ASSUME Types, NEW g \in DOMAIN groups, groups' = GroupsWithout(g)
    PROVE  /\ groups' \in Seq(Group)
           /\ \A k \in DOMAIN groups' :
                 /\ k < g => k \in DOMAIN groups /\ groups'[k] = groups[k]
                 /\ ~ (k < g) => k + 1 \in DOMAIN groups /\ groups'[k] = groups[k + 1]
                 /\ k \in Nat /\ g \in Nat
<1>1. g \in Nat /\ Len(groups) \in Nat /\ g <= Len(groups) /\ DOMAIN groups = 1 .. Len(groups)
    BY DEF Types
<1>2. \A k \in 1 .. Len(groups) - 1 :
          /\ k \in DOMAIN groups /\ k + 1 \in DOMAIN groups
          /\ groups[k] \in Group /\ groups[k + 1] \in Group
    BY <1>1 DEF Types
<1>3. groups' \in [1 .. Len(groups) - 1 -> Group]
    BY <1>2 DEF GroupsWithout
<1>4. Len(groups) - 1 \in Nat
    BY <1>1
<1>5. groups' \in Seq(Group)
    BY <1>3, <1>4
<1>6. DOMAIN groups' = 1 .. Len(groups) - 1
    BY <1>3
<1> QED BY <1>1, <1>2, <1>5, <1>6 DEF GroupsWithout

LEMMA DispatcherTypes ==
    ASSUME Types, GroupInHand, DispatcherStep
    PROVE  Types'
<1> DEFINE m == Head(inbox)
<1>1. CASE ReceivesFromDead \/ ReceivesFromForgotten
  <2>1. CASE ReceivesFromDead
      BY <2>1 DEF ReceivesFromDead, Types
  <2>2. CASE ReceivesFromForgotten
    <3>1. ui' \in {"free", "sending"}
        BY <2>2, ReceivesParts DEF ReceivesFromForgotten
    <3> QED BY <2>2, <3>1 DEF ReceivesFromForgotten, Types
  <2> QED BY <1>1, <2>1, <2>2
<1>2. CASE HandleCommand
  <2>1. /\ m.train \in Trains /\ m.arg \in Commands /\ ui' \in {"free", "sending"}
        /\ inbox' \in Seq(Message)
      BY <1>2, ReceivesParts, MessageParts DEF HandleCommand
  <2>2. demo' \in [Trains -> {"none", "sending", "awaiting", "killed"}]
      BY <1>2 DEF HandleCommand, Types
  <2>3. Store(conductors[m.train], m.arg) \in Conductor
      BY <2>1, StoreParts DEF Types
  <2>4. conductors' \in [Trains -> Conductor]
      BY <1>2, <2>1, <2>3 DEF HandleCommand, Types
  <2>5. doing' \in Handler
      BY <1>2, <2>1, Handlers DEF HandleCommand, Types
  <2> QED BY <1>2, <2>1, <2>2, <2>4, <2>5 DEF HandleCommand, Types
<1>3. CASE HandleReady
  <2> DEFINE c == conductors[m.train]
  <2>1. /\ m.train \in Trains /\ ui' \in {"free", "sending"} /\ Tail(inbox) \in Seq(Message)
      BY <1>3, ReceivesParts, MessageParts DEF HandleReady
  <2>2. c \in Conductor /\ Idle(c) \in Conductor
      BY <2>1, ForgetParts DEF Types
  <2>3. /\ stage' \in [Trains -> {"none", "receive", "working", "routing", "arrived",
                                  "reporting"}]
        /\ replaced' \in [Trains -> [working : Int, reporting : Int]]
        /\ UNCHANGED <<task, groups, mixed, careful>>
    <3>0. \A q \in [working : Int, reporting : Int] :
              [q EXCEPT !.reporting = @ - 1] \in [working : Int, reporting : Int]
        OBVIOUS
    <3>1. [replaced[m.train] EXCEPT !.reporting = @ - 1] \in [working : Int, reporting : Int]
      <4>1. replaced[m.train] \in [working : Int, reporting : Int]
          BY <2>1 DEF Types
      <4> QED BY <3>0, <4>1
    <3>2. \/ UNCHANGED <<stage, replaced>>
          \/ replaced' = [replaced EXCEPT ![m.train].reporting = @ - 1] /\ UNCHANGED stage
          \/ stage' = [stage EXCEPT ![m.train] = "receive"] /\ UNCHANGED replaced
        BY <1>3 DEF HandleReady
    <3>3. stage' \in [Trains -> {"none", "receive", "working", "routing", "arrived",
                                 "reporting"}]
        BY <2>1, <3>2 DEF Types
    <3>4. replaced' \in [Trains -> [working : Int, reporting : Int]]
        BY <2>1, <3>1, <3>2 DEF Types
    <3>5. UNCHANGED <<task, groups, mixed, careful>>
        BY <1>3 DEF HandleReady
    <3> QED BY <3>3, <3>4, <3>5
  <2>4. CASE c.available > 0
    <3>1. /\ doing' \in Handler /\ inbox' = Tail(inbox)
          /\ UNCHANGED <<conductors, demo, failed>>
        BY <1>3, <2>1, <2>4, Handlers DEF HandleReady
    <3> QED BY <2>1, <2>3, <3>1 DEF Types
  <2>5. CASE ~ (c.available > 0)
    <3>1. LetDemoGo(m.train, Idle(c), Tail(inbox)) /\ UNCHANGED doing
        BY <1>3, <2>5 DEF HandleReady
    <3>2. /\ conductors' \in [Trains -> Conductor]
          /\ inbox' \in Seq(Message)
          /\ demo' \in [Trains -> {"none", "sending", "awaiting", "killed"}]
          /\ failed' \in {"no", "fault", "assert", "forgotten"}
        BY <2>1, <2>2, <3>1, LetDemoGoTypes
    <3> QED BY <2>1, <2>3, <3>1, <3>2 DEF Types
  <2> QED BY <2>4, <2>5
<1>4. CASE ConductorTakes
  <2> DEFINE t == doing.train
             c == conductors[t]
  <2>1. t \in Trains /\ doing' \in Handler
      BY <1>4, HandlerParts DEF ConductorTakes, Handler
  <2>2. c \in Conductor /\ Start(c) \in Conductor /\ NextCommand(c) \in CommandOrNone
      BY <2>1, StartParts DEF Types
  <2>3. /\ stage' \in [Trains -> {"none", "receive", "working", "routing", "arrived",
                                  "reporting"}]
        /\ task' \in [Trains -> CommandOrNone]
        /\ UNCHANGED <<ui, groups, replaced, mixed, careful>>
      BY <1>4, <2>2 DEF ConductorTakes, Types
  <2>4. CASE doing.ready
    <3>1. LetDemoGo(t, Start(c), inbox)
        BY <1>4, <2>4 DEF ConductorTakes
    <3> QED BY <2>1, <2>2, <2>3, <3>1, LetDemoGoTypes DEF Types
  <2>5. CASE ~ doing.ready
    <3>1. /\ conductors' = [conductors EXCEPT ![t] = Start(c)]
          /\ UNCHANGED <<inbox, demo, failed>>
        BY <1>4, <2>5 DEF ConductorTakes
    <3>2. conductors' \in [Trains -> Conductor]
        BY <2>1, <2>2, <3>1 DEF Types
    <3> QED BY <2>1, <2>3, <3>1, <3>2 DEF Types
  <2> QED BY <2>4, <2>5
<1>5. CASE HandleT2Start
  <2>1. m.train \in Trains /\ ui' \in {"free", "sending"} /\ Tail(inbox) \in Seq(Message)
      BY <1>5, ReceivesParts, MessageParts DEF HandleT2Start
  <2>2. inbox' \in Seq(Message)
    <3>1. CASE DemoSends(m.train, Tail(inbox))
      <4>1. PICK d : DemoMail(d, m.train) /\ inbox' = Append(Tail(inbox), d)
          BY <2>1, <3>1, DemoSendsParts
      <4> QED BY <2>1, <4>1, Grows DEF DemoMail
    <3>2. CASE inbox' = Tail(inbox)
        BY <2>1, <3>2
    <3> QED BY <1>5, <2>1, <3>1, <3>2 DEF HandleT2Start
  <2>3. demo' \in [Trains -> {"none", "sending", "awaiting", "killed"}]
      BY <1>5 DEF HandleT2Start, Types
  <2>4. [conductors[m.train] EXCEPT !.t2 = TRUE] \in Conductor
    <3>1. conductors[m.train] \in Conductor
        BY <2>1 DEF Types
    <3> QED BY <3>1 DEF Conductor
  <2>5. conductors' \in [Trains -> Conductor]
      BY <1>5, <2>4 DEF HandleT2Start, Types
  <2> QED BY <1>5, <2>1, <2>2, <2>3, <2>5 DEF HandleT2Start, Types
<1>6. CASE HandleT2Stop
  <2>1. m.train \in Trains /\ ui' \in {"free", "sending"} /\ inbox' \in Seq(Message)
      BY <1>6, ReceivesParts, MessageParts DEF HandleT2Stop
  <2>2. ForgetDemo(conductors[m.train]) \in Conductor
      BY <2>1, ForgetParts DEF Types
  <2> QED BY <1>6, <2>1, <2>2 DEF HandleT2Stop, Types
<1>7. CASE HandleGroup
  <2>1. /\ ui' \in {"free", "sending"} /\ inbox' \in Seq(Message)
        /\ m.arg \in Orders /\ m.arg \in Seq(Trains)
      BY <1>7, ReceivesParts, MessageParts, OrderIsSequence DEF HandleGroup
  <2> DEFINE g == [op |-> "group", members |-> m.arg, left |-> m.arg]
  <2>2. doing' \in Handler
    <3>1. doing' = doing \/ doing' = g
        BY <1>7 DEF HandleGroup
    <3> QED BY <2>1, <3>1, Handlers DEF Types
  <2>3. mixed' \subseteq Trains
    <3>1. MembersOf(m.arg) \subseteq Trains
        BY <2>1, MembersOfOrder
    <3>2. Members(g) = MembersOf(m.arg)
        BY DEF Members, MembersOf
    <3>3. mixed' = mixed \/ mixed' = mixed \cup (Members(g) \cap Grouped)
        BY <1>7 DEF HandleGroup
    <3> HIDE DEF g, m, Grouped, Members, MembersOf
    <3> QED BY <3>1, <3>2, <3>3 DEF Types
  <2> QED BY <1>7, <2>1, <2>2, <2>3 DEF HandleGroup, Types
<1>8. CASE SunsetMember
  <2> DEFINE t == Head(doing.left)
  <2>1. doing.left \in Seq(Trains) /\ doing.members \in Orders /\ doing.left # << >>
      BY <1>8, HandlerParts DEF SunsetMember
  <2>2. t \in Trains /\ Tail(doing.left) \in Seq(Trains)
      BY <2>1
  <2>3. ForgetConductor(conductors[t]) \in Conductor
      BY <2>2, ForgetParts DEF Types
  <2>4. [doing EXCEPT !.left = Tail(@)] \in Handler
    <3>1. doing \in [op : {"group"}, members : Orders, left : Seq(Trains)]
        BY <1>8 DEF SunsetMember, Types, Handler, NotBusy
    <3> HIDE DEF t
    <3>2. [doing EXCEPT !.left = Tail(@)] \in [op : {"group"}, members : Orders, left : Seq(Trains)]
        BY <2>2, <3>1
    <3> QED BY <3>2 DEF Handler
  <2>5. /\ UNCHANGED <<ui, inbox, task, demo, groups, replaced, mixed, careful>>
        /\ \/ failed' = "assert" /\ UNCHANGED <<stage, conductors, doing>>
           \/ /\ stage' = [stage EXCEPT ![t] = "none"]
              /\ conductors' = [conductors EXCEPT ![t] = ForgetConductor(@)]
              /\ doing' = [doing EXCEPT !.left = Tail(@)]
              /\ UNCHANGED failed
      BY <1>8 DEF SunsetMember
  <2> HIDE DEF t
  <2> QED BY <2>2, <2>3, <2>4, <2>5 DEF Types
<1>9. CASE GroupMade
  <2>1. doing' \in Handler /\ doing.members \in Orders
      BY <1>9, HandlerParts DEF GroupMade, Handler
  <2>2. groups' \in Seq(Group)
    <3>1. [members |-> doing.members, stage |-> "receive"] \in Group
        BY <2>1 DEF Group
    <3> QED BY <1>9, <3>1, Grows DEF GroupMade, Types
  <2> QED BY <1>9, <2>1, <2>2 DEF GroupMade, Types
<1>10. CASE HandleUngroup
  <2>1. ui' \in {"free", "sending"} /\ inbox' \in Seq(Message)
      BY <1>10, ReceivesParts DEF HandleUngroup
  <2>2. doing' \in Handler
    <3>1. \/ UNCHANGED doing
          \/ \E k \in DOMAIN groups : doing' = [op |-> "ungroup", group |-> k]
        BY <1>10 DEF HandleUngroup
    <3>2. ASSUME NEW k \in DOMAIN groups, doing' = [op |-> "ungroup", group |-> k]
          PROVE  doing' \in Handler
      <4>1. k \in Nat
          BY DEF Types
      <4> QED BY <3>2, <4>1, Handlers
    <3> QED BY <3>1, <3>2 DEF Types
  <2> QED BY <1>10, <2>1, <2>2 DEF HandleUngroup, Types
<1>11. CASE GroupEnds
  <2>1. doing.op = "ungroup" /\ doing.group \in Nat /\ doing' \in Handler
      BY <1>11, HandlerParts DEF GroupEnds, Handler
  <2>2. CreateConductors(Members(groups[doing.group]))
      BY <1>11 DEF GroupEnds
  <2>3. groups' \in Seq(Group)
    <3>1. PICK g \in DOMAIN groups : g = doing.group
        BY <2>1 DEF GroupInHand
    <3>2. groups' = GroupsWithout(g)
        BY <1>11, <3>1 DEF GroupEnds, GroupsWithout
    <3> QED BY <3>2, GroupsLeft
  <2> QED BY <1>11, <2>1, <2>2, <2>3, CreateParts DEF GroupEnds, Types
<1>12. CASE HandleGroupCommand
  <2>1. ui' \in {"free", "sending"} /\ inbox' \in Seq(Message) /\ m.arg \in Nat
      BY <1>12, ReceivesParts, MessageParts DEF HandleGroupCommand
  <2>2. doing' \in Handler /\ failed' \in {"no", "fault", "assert", "forgotten"}
    <3>1. \/ doing' = doing /\ failed' = "assert"
          \/ failed' = failed
             /\ \E j \in DOMAIN groups : doing' = [op |-> "groupcommand", group |-> j]
        BY <1>12 DEF HandleGroupCommand
    <3>2. ASSUME NEW j \in DOMAIN groups, doing' = [op |-> "groupcommand", group |-> j]
          PROVE  doing' \in Handler
      <4>1. j \in Nat
          BY DEF Types
      <4> QED BY <3>2, <4>1, Handlers
    <3> QED BY <3>1, <3>2 DEF Types
  <2> QED BY <1>12, <2>1, <2>2 DEF HandleGroupCommand, Types
<1>13. CASE GroupTakes
  <2>1. doing' \in Handler
      BY <1>13 DEF GroupTakes, Handler
  <2>2. groups' \in Seq(Group)
    <3>1. PICK g \in DOMAIN groups : g = doing.group
        BY <1>13 DEF GroupTakes, GroupInHand
    <3>2. groups[g] \in Group
        BY DEF Types
    <3>3. [groups[g] EXCEPT !.stage = "working"] \in Group
        BY <3>2 DEF Group
    <3> QED BY <1>13, <3>1, <3>3 DEF GroupTakes, Types
  <2> QED BY <1>13, <2>1, <2>2 DEF GroupTakes, Types
<1>14. CASE HandleSetTrains
  <2> DEFINE missing == {t \in m.arg : ~ conductors[t].tid}
  <2>1. /\ CreateConductors(missing) /\ mixed' = mixed \cup (missing \cap Grouped)
        /\ inbox' = Tail(inbox) /\ UNCHANGED <<doing, task, demo, groups, careful, failed>>
      BY <1>14 DEF HandleSetTrains
  <2>2. /\ m.arg \subseteq Trains /\ inbox' \in Seq(Message) /\ ui' \in {"free", "sending"}
      BY <1>14, ReceivesParts, MessageParts DEF HandleSetTrains
  <2>3. mixed' \subseteq Trains
    <3> HIDE DEF m, Grouped
    <3> QED BY <2>1, <2>2 DEF Types
  <2> HIDE DEF missing
  <2> QED BY <2>1, <2>2, <2>3, CreateParts DEF Types
<1> QED
  BY <1>1, <1>2, <1>3, <1>4, <1>5, <1>6, <1>7, <1>8, <1>9, <1>10, <1>11, <1>12, <1>13, <1>14
  DEF DispatcherStep

----------------------------------------------------------------------------
(* Drivers. *)

LEMMA GroupedIs ==
    /\ \A t : t \in Grouped <=> \/ \E k \in DOMAIN groups : t \in Members(groups[k])
                                \/ doing.op = "group" /\ t \in Members(doing)
    /\ \A t : t \in Grouped' <=> \/ \E k \in DOMAIN groups' : t \in Members(groups'[k])
                                 \/ doing'.op = "group" /\ t \in Members(doing')
<1>1. ASSUME NEW t
      PROVE  t \in Grouped <=> \/ \E k \in DOMAIN groups : t \in Members(groups[k])
                               \/ doing.op = "group" /\ t \in Members(doing)
  <2>1. CASE doing.op = "group"
      BY <2>1 DEF Grouped
  <2>2. CASE doing.op # "group"
      BY <2>2 DEF Grouped
  <2> QED BY <2>1, <2>2
<1>2. ASSUME NEW t
      PROVE  t \in Grouped' <=> \/ \E k \in DOMAIN groups' : t \in Members(groups'[k])
                                \/ doing'.op = "group" /\ t \in Members(doing')
  <2>1. CASE doing'.op = "group"
      BY <2>1 DEF Grouped
  <2>2. CASE doing'.op # "group"
      BY <2>2 DEF Grouped
  <2> QED BY <2>1, <2>2
<1> QED BY <1>1, <1>2

LEMMA MembersAre == \A g : Members(g) = MembersOf(g.members)
BY DEF Members, MembersOf

\* No request is new in the mailbox, but some may be gone.
NoNewRequest ==
    \A n \in DOMAIN inbox' : inbox'[n].from = "ui" =>
        \E m \in DOMAIN inbox : inbox'[n] = inbox[m]

\* A message that is no request arrives.
LEMMA MailedKeeps ==
    ASSUME Types, OneRequest, NEW m \in Message, m.from # "ui",
           inbox' = Append(inbox, m), UNCHANGED ui
    PROVE  OneRequest' /\ NoNewRequest
<1>1. \A n \in DOMAIN inbox' :
          inbox'[n].from = "ui" => n \in DOMAIN inbox /\ inbox'[n] = inbox[n]
    BY Grows DEF Types
<1>2. OneRequest'
    BY <1>1 DEF OneRequest
<1> QED BY <1>1, <1>2 DEF NoNewRequest

\* A message is received, and another that is no request may arrive.
LEMMA TookKeeps ==
    ASSUME Types, OneRequest, NEW op, Receives(op),
           \/ inbox' = Tail(inbox)
           \/ \E m : m \in Message /\ m.from # "ui" /\ inbox' = Append(Tail(inbox), m)
    PROVE  /\ OneRequest' /\ NoNewRequest
           /\ Head(inbox).from = "ui" => \A n \in DOMAIN inbox' : inbox'[n].from # "ui"
<1>1. /\ inbox # << >> /\ Head(inbox) = inbox[1] /\ 1 \in DOMAIN inbox
      /\ Tail(inbox) \in Seq(Message)
      /\ ui' = IF inbox[1].from = "ui" THEN "free" ELSE ui
    BY ReceivesParts
<1>2. \A n \in DOMAIN Tail(inbox) :
          n \in Nat \ {0} /\ n + 1 \in DOMAIN inbox /\ Tail(inbox)[n] = inbox[n + 1]
    BY <1>1, Shrinks DEF Types
<1>3. \A n \in DOMAIN inbox' : inbox'[n].from = "ui" =>
          n \in Nat \ {0} /\ n + 1 \in DOMAIN inbox /\ inbox'[n] = inbox[n + 1]
  <2>1. CASE inbox' = Tail(inbox)
      BY <1>2, <2>1
  <2>2. ASSUME NEW m \in Message, m.from # "ui", inbox' = Append(Tail(inbox), m)
        PROVE  \A n \in DOMAIN inbox' : inbox'[n].from = "ui" =>
                   n \in DOMAIN Tail(inbox) /\ inbox'[n] = Tail(inbox)[n]
    <3> DEFINE r == Tail(inbox)
    <3>1. r \in Seq(Message)
        BY <1>1
    <3> HIDE DEF r
    <3>2. inbox' = Append(r, m)
        BY <2>2 DEF r
    <3>3. \A n \in DOMAIN inbox' : inbox'[n].from = "ui" => n \in DOMAIN r /\ inbox'[n] = r[n]
        BY <2>2, <3>1, <3>2, Grows
    <3> QED BY <3>3 DEF r
  <2> QED BY <1>2, <2>1, <2>2
<1>4. Head(inbox).from = "ui" => \A n \in DOMAIN inbox' : inbox'[n].from # "ui"
    BY <1>1, <1>3 DEF OneRequest
<1>5. \A i, j \in DOMAIN inbox' : inbox'[i].from = "ui" /\ inbox'[j].from = "ui" => i = j
  <2>1. \A i, j \in DOMAIN inbox' : inbox'[i].from = "ui" /\ inbox'[j].from = "ui" => i + 1 = j + 1
      BY <1>3 DEF OneRequest
  <2> QED BY <1>3, <2>1
<1>6. ui' = "free" => \A n \in DOMAIN inbox' : inbox'[n].from # "ui"
    BY <1>1, <1>3, <1>4 DEF OneRequest
<1>7. OneRequest'
    BY <1>5, <1>6 DEF OneRequest
<1>8. NoNewRequest
    BY <1>3 DEF NoNewRequest
<1> QED BY <1>4, <1>7, <1>8

\* Requests are of the user.
LEMMA RequestsOfUser ==
    ASSUME Types
    PROVE  \A n \in DOMAIN inbox : inbox[n].op \in {"t2start", "t2stop", "group", "ungroup",
                                                    "groupcommand", "set"}
               => inbox[n].from = "ui"
<1>1. \A n \in DOMAIN inbox : inbox[n] \in Message
    BY DEF Types
<1> QED BY <1>1, MessageParts

LEMMA RequestsKept ==
    ASSUME Types', NoneMixed, NoNewRequest, Grouped' \subseteq Grouped,
           UNCHANGED <<mixed, careful>>
    PROVE  NoneMixed'
<1>1. \A n \in DOMAIN inbox' : inbox'[n] \in Message
    BY DEF Types
<1>2. \A n \in DOMAIN inbox' :
          inbox'[n].op \in {"group", "set"} => \E m \in DOMAIN inbox : inbox'[n] = inbox[m]
    BY <1>1, MessageParts DEF NoNewRequest
<1>3. RequestsApart => RequestsApart'
  <2> HIDE DEF Grouped
  <2> QED BY <1>2 DEF RequestsApart
<1> QED BY <1>3 DEF NoneMixed

\* The groups stay, but for where their conductors are.
SameGroups ==
    /\ DOMAIN groups' = DOMAIN groups
    /\ \A k \in DOMAIN groups : groups'[k].members = groups[k].members

\* No conductor comes, no group comes or goes, and none is begun.
LEMMA DriversFrame ==
    ASSUME Drivers, Types', OneRequest', NoNewRequest, SameGroups,
           \A t \in Trains : conductors'[t].tid => conductors[t].tid,
           UNCHANGED <<mixed, careful>>,
           \/ UNCHANGED doing
           \/ doing.op # "group" /\ doing'.op \in {"receive", "start"}
    PROVE  Drivers'
<1>1. DOMAIN groups' = DOMAIN groups
      /\ \A k \in DOMAIN groups : Members(groups'[k]) = Members(groups[k])
    BY DEF SameGroups, Members
<1>2. Grouped' \subseteq Grouped
  <2> HIDE DEF Members
  <2> QED BY <1>1, GroupedIs
<1>3. NoneMixed'
    BY <1>2, RequestsKept DEF Drivers
<1>4. GroupsApart'
  <2> HIDE DEF Members
  <2> QED BY <1>1 DEF Drivers, GroupsApart
<1>5. GroupInMaking'
  <2> HIDE DEF Members, MembersOf
  <2>1. CASE UNCHANGED doing
    <3>1. CASE doing.op = "group"
      <4>1. /\ MembersOf(doing'.left) \subseteq Members(doing')
            /\ \A t \in Members(doing') : conductors[t].tid => t \in MembersOf(doing'.left)
            /\ \A k \in DOMAIN groups' : Members(doing') \cap Members(groups'[k]) \subseteq mixed'
          BY <1>1, <2>1, <3>1 DEF Drivers, GroupInMaking
      <4>2. Members(doing') \subseteq Trains
          BY <2>1, <3>1, HandlerParts, OrderIsSequence, MembersOfOrder, MembersAre DEF Drivers
      <4> QED BY <4>1, <4>2 DEF GroupInMaking
    <3> QED BY <2>1, <3>1 DEF GroupInMaking
  <2>2. CASE doing'.op \in {"receive", "start"}
      BY <2>2 DEF GroupInMaking
  <2> QED BY <2>1, <2>2
<1>6. GroupInHand'
    BY <1>1 DEF Drivers, GroupInHand
<1> QED BY <1>3, <1>4, <1>5, <1>6 DEF Drivers

LEMMA StageOfGroup ==
    ASSUME Types, NEW k, NEW to, groups' = [groups EXCEPT ![k].stage = to]
    PROVE  SameGroups
<1>1. \A j \in DOMAIN groups : groups[j] \in Group
    BY DEF Types
<1> QED BY <1>1 DEF SameGroups, Types, Group

LEMMA DriversInit == Init => Drivers
<1> SUFFICES ASSUME Init PROVE Drivers
    OBVIOUS
<1>1. Types
    BY TypesInit
<1>2. inbox = << >> /\ groups = << >> /\ doing.op = "receive" /\ mixed = {}
    BY DEF Init, NotBusy
<1> QED
  BY <1>1, <1>2
  DEF Drivers, OneRequest, GroupsApart, GroupInMaking, GroupInHand, NoneMixed, RequestsApart

LEMMA EnterDrivers ==
    ASSUME Drivers, Types', NEW op, NEW t, NEW arg, Enter(op, t, arg),
           [from |-> "ui", op |-> op, train |-> t, arg |-> arg] \in Message,
           careful /\ op = "group" => MembersOf(arg) \cap Grouped = {},
           careful /\ op = "set" => arg \cap Grouped = {}
    PROVE  Drivers'
<1> DEFINE m == [from |-> "ui", op |-> op, train |-> t, arg |-> arg]
<1>1. m \in Message /\ m.op = op /\ m.arg = arg /\ m.from = "ui"
    OBVIOUS
<1>2. /\ ui = "free" /\ ui' = "sending" /\ inbox' = Append(inbox, m)
      /\ UNCHANGED <<doing, conductors, groups, mixed, careful>>
    BY DEF Enter, Mail
<1> HIDE DEF m
<1>3. \A n \in DOMAIN inbox' : \/ n \in DOMAIN inbox /\ inbox'[n] = inbox[n]
                               \/ n = Len(inbox) + 1 /\ inbox'[n] = m
    BY <1>1, <1>2, Grows DEF Drivers, Types
<1>4. OneRequest'
    BY <1>2, <1>3 DEF Drivers, OneRequest
<1>5. Grouped' = Grouped
    BY <1>2 DEF Grouped
<1>6. NoneMixed'
  <2>1. careful /\ RequestsApart => RequestsApart'
    <3> HIDE DEF Grouped
    <3> QED BY <1>1, <1>3, <1>5 DEF RequestsApart
  <2> QED BY <1>2, <2>1 DEF Drivers, NoneMixed
<1>7. GroupsApart' /\ GroupInMaking' /\ GroupInHand'
    BY <1>2 DEF Drivers, GroupsApart, GroupInMaking, GroupInHand
<1> QED BY <1>4, <1>6, <1>7 DEF Drivers

LEMMA UserDrivers ==
    ASSUME Drivers, UserStep
    PROVE  Drivers'
<1>0. Types /\ Types'
    BY UserTypes DEF Drivers
<1>1. ASSUME NEW t \in Driven, NEW c \in Commands, EnterCommand(t, c)
      PROVE  Drivers'
  <2>1. [from |-> "ui", op |-> "command", train |-> t, arg |-> c] \in Message
      BY DispatcherAssumption DEF Message
  <2> QED BY <1>0, <1>1, <2>1, EnterDrivers DEF EnterCommand
<1>2. ASSUME NEW t \in Driven, EnterT2Start(t) \/ EnterT2Stop(t)
      PROVE  Drivers'
  <2>1. \A op \in {"t2start", "t2stop"} :
            [from |-> "ui", op |-> op, train |-> t, arg |-> NoCommand] \in Message
      BY DispatcherAssumption DEF Message
  <2>2. PICK op \in {"t2start", "t2stop"} : Enter(op, t, NoCommand)
      BY <1>2 DEF EnterT2Start, EnterT2Stop
  <2> QED BY <1>0, <2>1, <2>2, EnterDrivers
<1>3. ASSUME NEW members \in Orders, EnterGroup(members)
      PROVE  Drivers'
  <2>1. [from |-> "ui", op |-> "group", train |-> NoTrain, arg |-> members] \in Message
      BY DEF Message
  <2>2. /\ careful => MembersOf(members) \cap Grouped = {}
        /\ Enter("group", NoTrain, members)
    <3> HIDE DEF Grouped
    <3> QED BY <1>3 DEF EnterGroup, Quiet, MembersOf
  <2> HIDE DEF Grouped
  <2> QED BY <1>0, <2>1, <2>2, EnterDrivers
<1>4. ASSUME NEW k \in DOMAIN groups, EnterUngroup(k) \/ EnterGroupCommand(k)
      PROVE  Drivers'
  <2>1. k \in Nat /\ groups[k] \in Group
      BY <1>0 DEF Types
  <2>2. groups[k].members \in Orders
      BY <2>1 DEF Group
  <2>3. /\ [from |-> "ui", op |-> "ungroup", train |-> NoTrain,
            arg |-> groups[k].members] \in Message
        /\ [from |-> "ui", op |-> "groupcommand", train |-> NoTrain, arg |-> k] \in Message
      BY <2>1, <2>2 DEF Message
  <2>4. CASE EnterUngroup(k)
      BY <1>0, <2>3, <2>4, EnterDrivers DEF EnterUngroup
  <2>5. CASE EnterGroupCommand(k)
      BY <1>0, <2>3, <2>5, EnterDrivers DEF EnterGroupCommand
  <2> QED BY <1>4, <2>4, <2>5
<1>5. ASSUME NEW ts \in SUBSET Trains, EnterSetTrains(ts)
      PROVE  Drivers'
  <2>1. [from |-> "ui", op |-> "set", train |-> NoTrain, arg |-> ts] \in Message
      BY DEF Message
  <2> HIDE DEF Grouped
  <2> QED BY <1>0, <1>5, <2>1, EnterDrivers DEF EnterSetTrains
<1> QED BY <1>1, <1>2, <1>3, <1>4, <1>5 DEF UserStep

LEMMA WorksDrivers ==
    ASSUME Drivers, NEW t \in Trains, Works(t)
    PROVE  Drivers'
<1>1. Types /\ Types'
    BY WorksTypes DEF Drivers
<1>2. UNCHANGED <<ui, doing, conductors, groups, mixed, careful>>
    BY DEF Works, Routes, Arrives, Reports, Conducts
<1>3. OneRequest' /\ NoNewRequest
  <2>1. CASE UNCHANGED inbox
      BY <1>2, <2>1 DEF Drivers, OneRequest, NoNewRequest
  <2>2. CASE Reports(t)
    <3> DEFINE m == [from |-> "conductor", op |-> "ready", train |-> t, arg |-> NoCommand]
    <3>1. m \in Message /\ m.from # "ui"
        BY DEF Message
    <3>2. inbox' = Append(inbox, m)
        BY <2>2 DEF Reports, Mail
    <3> QED BY <1>1, <1>2, <3>1, <3>2, MailedKeeps DEF Drivers
  <2> QED BY <2>1, <2>2 DEF Works, Routes, Arrives
<1> QED BY <1>1, <1>2, <1>3, DriversFrame DEF SameGroups

LEMMA ReplacedDrivers ==
    ASSUME Drivers, NEW t \in Trains, ReplacedReports(t)
    PROVE  Drivers'
<1> DEFINE m == [from |-> "replaced", op |-> "ready", train |-> t, arg |-> NoCommand]
<1>1. Types /\ Types'
    BY ReplacedTypes DEF Drivers
<1>2. m \in Message /\ m.from # "ui"
    BY DEF Message
<1>3. /\ UNCHANGED <<ui, doing, conductors, groups, mixed, careful>>
      /\ inbox' = Append(inbox, m)
    BY DEF ReplacedReports, Mail
<1>4. OneRequest' /\ NoNewRequest
    BY <1>1, <1>2, <1>3, MailedKeeps DEF Drivers
<1> QED BY <1>1, <1>3, <1>4, DriversFrame DEF SameGroups

LEMMA GroupDrivers ==
    ASSUME Drivers, NEW k, GroupNotified(k) \/ GroupDone(k)
    PROVE  Drivers'
<1>1. Types /\ Types'
    BY GroupTypes DEF Drivers
<1>2. UNCHANGED <<ui, inbox, doing, conductors, mixed, careful>>
    BY DEF GroupNotified, GroupDone, GroupWorks
<1>3. SameGroups
    BY <1>1, StageOfGroup DEF GroupNotified, GroupDone, GroupWorks
<1>4. OneRequest' /\ NoNewRequest
    BY <1>2 DEF Drivers, OneRequest, NoNewRequest
<1> QED BY <1>1, <1>2, <1>3, <1>4, DriversFrame

\* Handlers that leave the groups and the number of conductors alone.
LEMMA QuietDrivers ==
    ASSUME Drivers, Types',
           ReceivesFromDead \/ ReceivesFromForgotten \/ HandleCommand \/ HandleReady
               \/ ConductorTakes \/ HandleT2Start \/ HandleT2Stop
    PROVE  Drivers'
<1> DEFINE m == Head(inbox)
<1>0. Types
    BY DEF Drivers
<1>1. CASE ReceivesFromDead \/ ReceivesFromForgotten
  <2>1. /\ UNCHANGED <<inbox, doing, conductors, groups, mixed, careful>>
        /\ UNCHANGED ui
    <3>1. CASE ReceivesFromDead
        BY <3>1 DEF ReceivesFromDead
    <3>2. CASE ReceivesFromForgotten
      <4>1. m.from = "demo" /\ ui' = IF m.from = "ui" THEN "free" ELSE ui
          BY <3>2 DEF ReceivesFromForgotten, Forgotten, Receives
      <4> QED BY <3>2, <4>1 DEF ReceivesFromForgotten
    <3> QED BY <1>1, <3>1, <3>2
  <2>2. OneRequest' /\ NoNewRequest /\ SameGroups
      BY <2>1 DEF Drivers, OneRequest, NoNewRequest, SameGroups
  <2> QED BY <2>1, <2>2, DriversFrame
<1>2. CASE HandleCommand
  <2>1. /\ Receives("command") /\ inbox' = Tail(inbox) /\ UNCHANGED <<groups, mixed, careful>>
        /\ doing.op = "receive" /\ doing'.op \in {"receive", "start"}
      BY <1>0, <1>2, ReceivesParts DEF HandleCommand, NotBusy
  <2>2. m.train \in Trains /\ m.arg \in Commands
      BY <1>0, <2>1, ReceivesParts, MessageParts
  <2>3. conductors[m.train] \in Conductor
      BY <1>0, <2>2 DEF Types
  <2>4. Store(conductors[m.train], m.arg).tid = conductors[m.train].tid
      BY <2>2, <2>3, StoreParts DEF SameFlags
  <2>5. \A t \in Trains : conductors'[t].tid => conductors[t].tid
      BY <1>0, <1>2, <2>2, <2>4 DEF HandleCommand, Types
  <2>6. OneRequest' /\ NoNewRequest
      BY <1>0, <2>1, TookKeeps DEF Drivers
  <2>7. SameGroups
      BY <2>1 DEF SameGroups
  <2> QED BY <2>1, <2>5, <2>6, <2>7, DriversFrame
<1>3. CASE HandleReady
  <2> DEFINE c == conductors[m.train]
  <2>1. /\ Receives("ready") /\ UNCHANGED <<groups, mixed, careful>> /\ doing.op = "receive"
        /\ doing'.op \in {"receive", "start"}
      BY <1>0, <1>3, ReceivesParts DEF HandleReady, NotBusy
  <2>2. m.train \in Trains /\ Tail(inbox) \in Seq(Message)
      BY <1>0, <2>1, ReceivesParts, MessageParts
  <2>3. c \in Conductor
      BY <1>0, <2>2 DEF Types
  <2>4. Idle(c) \in Conductor /\ Idle(c).tid = c.tid
        /\ ForgetDestination(Idle(c)).tid = c.tid
      BY <2>3, ForgetParts
  <2>5. CASE c.available > 0
    <3>1. inbox' = Tail(inbox) /\ UNCHANGED conductors
        BY <1>3, <2>5 DEF HandleReady
    <3>2. OneRequest' /\ NoNewRequest
        BY <1>0, <2>1, <3>1, TookKeeps DEF Drivers
    <3> QED BY <2>1, <3>1, <3>2, DriversFrame DEF SameGroups
  <2>6. CASE ~ (c.available > 0)
    <3>1. LetDemoGo(m.train, Idle(c), Tail(inbox))
        BY <1>3, <2>6 DEF HandleReady
    <3>2. /\ conductors' = [conductors EXCEPT ![m.train] = ForgetDestination(Idle(c))]
          /\ \/ inbox' = Tail(inbox)
             \/ \E d : DemoMail(d, m.train) /\ inbox' = Append(Tail(inbox), d)
        BY <2>2, <3>1, LetDemoGoParts DEF LetsDemoGo
    <3>3. OneRequest' /\ NoNewRequest
        BY <1>0, <2>1, <3>2, TookKeeps DEF Drivers, DemoMail
    <3>4. \A t \in Trains : conductors'[t].tid => conductors[t].tid
        BY <1>0, <2>2, <2>4, <3>2 DEF Types
    <3>5. SameGroups
        BY <2>1 DEF SameGroups
    <3> QED BY <2>1, <3>3, <3>4, <3>5, DriversFrame
  <2> QED BY <2>5, <2>6
<1>4. CASE ConductorTakes
  <2> DEFINE t == doing.train
             c == conductors[t]
  <2>1. /\ doing.op = "start" /\ doing'.op = "receive"
        /\ UNCHANGED <<ui, groups, mixed, careful>>
      BY <1>4 DEF ConductorTakes, NotBusy
  <2>2. t \in Trains
      BY <1>0, <2>1, HandlerParts
  <2>3. c \in Conductor
      BY <1>0, <2>2 DEF Types
  <2>4. Start(c) \in Conductor /\ Start(c).tid = c.tid
        /\ ForgetDestination(Start(c)).tid = c.tid
    <3> HIDE DEF c
    <3>1. Start(c) \in Conductor /\ Start(c).tid = c.tid
        BY <2>3, StartParts
    <3> QED BY <3>1, ForgetParts
  <2>5. CASE doing.ready
    <3>1. LetDemoGo(t, Start(c), inbox)
        BY <1>4, <2>5 DEF ConductorTakes
    <3>2. /\ conductors' = [conductors EXCEPT ![t] = ForgetDestination(Start(c))]
          /\ \/ UNCHANGED inbox
             \/ \E d : DemoMail(d, t) /\ inbox' = Append(inbox, d)
        BY <2>2, <3>1, LetDemoGoParts DEF LetsDemoGo
    <3>3. OneRequest' /\ NoNewRequest
      <4>1. CASE UNCHANGED inbox
          BY <2>1, <4>1 DEF Drivers, OneRequest, NoNewRequest
      <4>2. CASE \E d : DemoMail(d, t) /\ inbox' = Append(inbox, d)
          BY <1>0, <2>1, <4>2, MailedKeeps DEF Drivers, DemoMail
      <4> QED BY <3>2, <4>1, <4>2
    <3>4. \A s \in Trains : conductors'[s].tid => conductors[s].tid
        BY <1>0, <2>2, <2>4, <3>2 DEF Types
    <3>5. SameGroups
        BY <2>1 DEF SameGroups
    <3> QED BY <2>1, <3>3, <3>4, <3>5, DriversFrame
  <2>6. CASE ~ doing.ready
    <3>1. UNCHANGED inbox /\ conductors' = [conductors EXCEPT ![t] = Start(c)]
        BY <1>4, <2>6 DEF ConductorTakes
    <3>2. OneRequest' /\ NoNewRequest
        BY <2>1, <3>1 DEF Drivers, OneRequest, NoNewRequest
    <3>3. \A s \in Trains : conductors'[s].tid => conductors[s].tid
        BY <1>0, <2>2, <2>4, <3>1 DEF Types
    <3>4. SameGroups
        BY <2>1 DEF SameGroups
    <3> QED BY <2>1, <3>2, <3>3, <3>4, DriversFrame
  <2> QED BY <2>5, <2>6
<1>5. CASE HandleT2Start
  <2>1. Receives("t2start") /\ UNCHANGED <<groups, doing, mixed, careful>>
      BY <1>5 DEF HandleT2Start
  <2>2. m.train \in Trains /\ Tail(inbox) \in Seq(Message)
      BY <1>0, <2>1, ReceivesParts, MessageParts
  <2>3. \/ inbox' = Tail(inbox)
        \/ \E d : DemoMail(d, m.train) /\ inbox' = Append(Tail(inbox), d)
      BY <1>5, <2>2, DemoSendsParts DEF HandleT2Start
  <2>4. OneRequest' /\ NoNewRequest
      BY <1>0, <2>1, <2>3, TookKeeps DEF Drivers, DemoMail
  <2>5. \A t \in Trains : conductors'[t].tid => conductors[t].tid
    <3>1. \A t \in Trains : conductors[t] \in Conductor
        BY <1>0 DEF Types
    <3>2. [conductors[m.train] EXCEPT !.t2 = TRUE].tid = conductors[m.train].tid
        BY <2>2, <3>1 DEF Conductor
    <3>3. \/ UNCHANGED conductors
          \/ conductors' = [conductors EXCEPT ![m.train] = [@ EXCEPT !.t2 = TRUE]]
        BY <1>5 DEF HandleT2Start
    <3> QED BY <1>0, <2>2, <3>2, <3>3 DEF Types
  <2>6. SameGroups
      BY <2>1 DEF SameGroups
  <2> QED BY <2>1, <2>4, <2>5, <2>6, DriversFrame
<1>6. CASE HandleT2Stop
  <2>1. /\ Receives("t2stop") /\ inbox' = Tail(inbox)
        /\ UNCHANGED <<groups, doing, mixed, careful>>
      BY <1>6 DEF HandleT2Stop
  <2>2. OneRequest' /\ NoNewRequest
      BY <1>0, <2>1, TookKeeps DEF Drivers
  <2>3. \A t \in Trains : conductors'[t].tid => conductors[t].tid
    <3>1. \A t \in Trains : conductors[t] \in Conductor
        BY <1>0 DEF Types
    <3>2. \/ UNCHANGED conductors
          \/ conductors' = [conductors EXCEPT ![m.train] = ForgetDemo(@)]
        BY <1>6 DEF HandleT2Stop
    <3>3. \A t \in Trains : ForgetDemo(conductors[t]).tid = conductors[t].tid
        BY <3>1, ForgetParts
    <3>4. m.train \in Trains
        BY <1>0, <2>1, ReceivesParts, MessageParts
    <3> HIDE DEF m
    <3> QED BY <1>0, <3>2, <3>3, <3>4 DEF Types
  <2>4. SameGroups
      BY <2>1 DEF SameGroups
  <2> QED BY <2>1, <2>2, <2>3, <2>4, DriversFrame
<1> QED BY <1>1, <1>2, <1>3, <1>4, <1>5, <1>6

LEMMA HandleGroupDrivers ==
    ASSUME Drivers, Types', HandleGroup
    PROVE  Drivers'
<1> DEFINE m == Head(inbox)
           g == [op |-> "group", members |-> m.arg, left |-> m.arg]
<1>0. Types
    BY DEF Drivers
<1>1. /\ Receives("group") /\ inbox' = Tail(inbox) /\ UNCHANGED <<conductors, groups, careful>>
      /\ doing.op = "receive"
      /\ \/ UNCHANGED <<doing, mixed>>
         \/ doing' = g /\ mixed' = mixed \cup (Members(g) \cap Grouped)
    BY <1>0, ReceivesParts DEF HandleGroup, NotBusy
<1>2. m.op = "group" /\ m = inbox[1] /\ 1 \in DOMAIN inbox /\ m.from = "ui" /\ m.arg \in Orders
    BY <1>0, <1>1, ReceivesParts, MessageParts
<1>3. OneRequest' /\ \A n \in DOMAIN inbox' : inbox'[n].from # "ui"
    BY <1>0, <1>1, <1>2, TookKeeps DEF Drivers
<1>4. RequestsApart'
  <2>1. \A n \in DOMAIN inbox' : inbox'[n] \in Message
      BY DEF Types
  <2>2. \A n \in DOMAIN inbox' : inbox'[n].op \notin {"group", "set"}
      BY <1>3, <2>1, MessageParts
  <2> HIDE DEF Grouped
  <2> QED BY <2>2 DEF RequestsApart
<1>5. Members(g) = MembersOf(m.arg) /\ g.op = "group" /\ g.left = m.arg
    BY MembersAre
<1>6. careful => MembersOf(m.arg) \cap Grouped = {} /\ mixed = {}
  <2> HIDE DEF Grouped, m
  <2> QED BY <1>2 DEF Drivers, NoneMixed, RequestsApart
<1> HIDE DEF g, Grouped, Members, MembersOf
<1>7. mixed \subseteq mixed' /\ (careful => mixed' = {})
    BY <1>1, <1>5, <1>6
<1>8. NoneMixed'
    BY <1>1, <1>4, <1>7 DEF NoneMixed
<1>9. GroupsApart'
    BY <1>1, <1>7 DEF Drivers, GroupsApart
<1>10. GroupInMaking'
  <2>1. CASE UNCHANGED doing
      BY <1>1, <2>1 DEF GroupInMaking
  <2>2. CASE doing' = g /\ mixed' = mixed \cup (Members(g) \cap Grouped)
    <3>1. \A k \in DOMAIN groups : Members(groups[k]) \subseteq Grouped
        BY GroupedIs
    <3> HIDE DEF m
    <3> QED BY <1>1, <1>5, <2>2, <3>1 DEF GroupInMaking
  <2> QED BY <1>1, <2>1, <2>2
<1>11. GroupInHand'
    BY <1>1, <1>5 DEF GroupInHand
<1> QED BY <1>3, <1>8, <1>9, <1>10, <1>11 DEF Drivers

\* What sunset_tid takes off the members left.
LEMMA FirstOfMembers ==
    ASSUME NEW s \in Seq(Trains), s # << >>
    PROVE  /\ Head(s) \in Trains /\ Tail(s) \in Seq(Trains)
           /\ MembersOf(Tail(s)) \subseteq MembersOf(s)
           /\ MembersOf(s) \subseteq {Head(s)} \cup MembersOf(Tail(s))
<1>1. /\ Head(s) = s[1] /\ Head(s) \in Trains /\ Tail(s) \in Seq(Trains)
      /\ \A i \in DOMAIN Tail(s) : i + 1 \in DOMAIN s /\ Tail(s)[i] = s[i + 1]
      /\ \A i \in DOMAIN s : i # 1 => i - 1 \in DOMAIN Tail(s) /\ Tail(s)[i - 1] = s[i]
    BY Shrinks
<1> QED BY <1>1, SMTT(40) DEF MembersOf

LEMMA SunsetDrivers ==
    ASSUME Drivers, Types', SunsetMember
    PROVE  Drivers'
<1> DEFINE t == Head(doing.left)
<1>0. Types
    BY DEF Drivers
<1>1. /\ UNCHANGED <<ui, inbox, groups, mixed, careful>>
      /\ doing.op = "group" /\ doing.left # << >>
      /\ \/ UNCHANGED <<conductors, doing>>
         \/ /\ conductors' = [conductors EXCEPT ![t] = ForgetConductor(@)]
            /\ doing' = [doing EXCEPT !.left = Tail(@)]
    BY DEF SunsetMember
<1>2. doing.left \in Seq(Trains) /\ doing.members \in Orders
    BY <1>0, <1>1, HandlerParts
<1>3. /\ t \in Trains /\ MembersOf(Tail(doing.left)) \subseteq MembersOf(doing.left)
      /\ MembersOf(doing.left) \subseteq {t} \cup MembersOf(Tail(doing.left))
    BY <1>1, <1>2, FirstOfMembers
<1>4. OneRequest' /\ NoNewRequest /\ SameGroups
    BY <1>1 DEF Drivers, OneRequest, NoNewRequest, SameGroups
<1>5. CASE UNCHANGED <<conductors, doing>>
    BY <1>1, <1>4, <1>5, DriversFrame
<1>6. CASE /\ conductors' = [conductors EXCEPT ![t] = ForgetConductor(@)]
           /\ doing' = [doing EXCEPT !.left = Tail(@)]
  <2>1. /\ doing'.op = "group" /\ doing'.left = Tail(doing.left)
        /\ doing'.members = doing.members
    <3>1. doing \in [op : {"group"}, members : Orders, left : Seq(Trains)]
        BY <1>0, <1>1 DEF Types, Handler, NotBusy
    <3> HIDE DEF t
    <3> QED BY <1>1, <1>6, <3>1
  <2>2. Members(doing') = Members(doing)
      BY <2>1, MembersAre
  <2>3. /\ ~ conductors'[t].tid
        /\ \A s \in Trains : s # t => conductors'[s] = conductors[s]
    <3>1. conductors[t] \in Conductor
        BY <1>0, <1>3 DEF Types
    <3> HIDE DEF t
    <3> QED BY <1>0, <1>3, <1>6, <3>1, ForgetParts DEF Types
  <2>4. Grouped' = Grouped
      BY <1>1, <2>1, <2>2 DEF Grouped
  <2>5. NoneMixed'
    <3> HIDE DEF Grouped
    <3> QED BY <1>1, <1>4, <2>4, RequestsKept DEF Drivers
  <2> HIDE DEF t, Members, MembersOf
  <2>6. GroupsApart'
      BY <1>1, <2>3 DEF Drivers, GroupsApart
  <2>7. Members(doing) \subseteq Trains
      BY <1>1, <1>2, OrderIsSequence, MembersOfOrder, MembersAre
  <2>8. \A s \in Members(doing) : conductors'[s].tid => s \in MembersOf(Tail(doing.left))
      BY <1>1, <1>3, <2>3, <2>7 DEF Drivers, GroupInMaking
  <2>9. GroupInMaking'
      BY <1>1, <1>3, <2>1, <2>2, <2>8 DEF Drivers, GroupInMaking
  <2>10. GroupInHand'
      BY <2>1 DEF GroupInHand
  <2> QED BY <1>4, <2>5, <2>6, <2>9, <2>10 DEF Drivers
<1> QED BY <1>1, <1>5, <1>6

LEMMA GroupMadeDrivers ==
    ASSUME Drivers, Types', GroupMade
    PROVE  Drivers'
<1> DEFINE g == [members |-> doing.members, stage |-> "receive"]
<1>0. Types
    BY DEF Drivers
<1>1. /\ UNCHANGED <<ui, inbox, conductors, mixed, careful>>
      /\ doing.op = "group" /\ doing.left = << >>
      /\ doing'.op = "receive" /\ groups' = Append(groups, g)
    BY DEF GroupMade, NotBusy
<1>2. Members(g) = Members(doing)
    BY MembersAre
<1>3. g \in Group
    BY <1>0, <1>1, HandlerParts DEF Group
<1> HIDE DEF g
<1>4. \A k \in DOMAIN groups' : \/ k \in DOMAIN groups /\ groups'[k] = groups[k]
                                \/ k = Len(groups) + 1 /\ groups'[k] = g
    BY <1>0, <1>1, <1>3, Grows DEF Types
<1>5. MembersOf(doing.left) = {}
    BY <1>1 DEF MembersOf
<1> HIDE DEF Members, MembersOf
<1>6. OneRequest' /\ NoNewRequest
    BY <1>1 DEF Drivers, OneRequest, NoNewRequest
<1>7. Grouped' \subseteq Grouped
    BY <1>1, <1>2, <1>4, GroupedIs
<1>8. NoneMixed'
    BY <1>1, <1>6, <1>7, RequestsKept DEF Drivers
<1>9. GroupsApart'
  <2>1. ASSUME NEW j \in DOMAIN groups', NEW k \in DOMAIN groups', j # k
        PROVE  Members(groups'[j]) \cap Members(groups'[k]) \subseteq mixed'
      BY <1>1, <1>2, <1>4, <2>1 DEF Drivers, GroupsApart, GroupInMaking
  <2>2. ASSUME NEW t \in Trains, NEW k \in DOMAIN groups', t \in Members(groups'[k]),
               t \notin mixed'
        PROVE  ~ conductors'[t].tid
      BY <1>1, <1>2, <1>4, <1>5, <2>2 DEF Drivers, GroupsApart, GroupInMaking
  <2> QED BY <2>1, <2>2 DEF GroupsApart
<1>10. GroupInMaking' /\ GroupInHand'
    BY <1>1 DEF GroupInMaking, GroupInHand
<1> QED BY <1>6, <1>8, <1>9, <1>10 DEF Drivers

LEMMA HandDrivers ==
    ASSUME Drivers, Types', HandleUngroup \/ HandleGroupCommand \/ GroupTakes
    PROVE  Drivers'
<1>0. Types
    BY DEF Drivers
<1>1. OneRequest' /\ NoNewRequest
  <2>1. CASE HandleUngroup \/ HandleGroupCommand
      BY <1>0, <2>1, TookKeeps DEF HandleUngroup, HandleGroupCommand, Drivers
  <2>2. CASE GroupTakes
      BY <2>2 DEF GroupTakes, Drivers, OneRequest, NoNewRequest
  <2> QED BY <2>1, <2>2
<1>2. SameGroups
  <2>1. CASE HandleUngroup \/ HandleGroupCommand
      BY <2>1 DEF HandleUngroup, HandleGroupCommand, SameGroups
  <2>2. CASE GroupTakes
    <3>1. groups' = [groups EXCEPT ![doing.group].stage = "working"]
        BY <2>2 DEF GroupTakes
    <3> QED BY <1>0, <3>1, StageOfGroup
  <2> QED BY <2>1, <2>2
<1>3. /\ UNCHANGED <<conductors, mixed, careful>> /\ doing.op # "group" /\ doing'.op # "group"
      /\ doing'.op \in {"ungroup", "groupcommand"} => doing'.group \in DOMAIN groups
  <2>1. CASE HandleUngroup
      BY <1>0, <2>1, ReceivesParts DEF HandleUngroup, NotBusy
  <2>2. CASE HandleGroupCommand
      BY <1>0, <2>2, ReceivesParts DEF HandleGroupCommand, NotBusy
  <2>3. CASE GroupTakes
      BY <2>3 DEF GroupTakes, NotBusy
  <2> QED BY <2>1, <2>2, <2>3
<1>4. DOMAIN groups' = DOMAIN groups
      /\ \A k \in DOMAIN groups : Members(groups'[k]) = Members(groups[k])
    BY <1>2 DEF SameGroups, Members
<1> HIDE DEF Members, MembersOf
<1>5. Grouped' \subseteq Grouped
    BY <1>3, <1>4, GroupedIs
<1>6. NoneMixed'
    BY <1>1, <1>3, <1>5, RequestsKept DEF Drivers
<1>7. GroupsApart'
    BY <1>3, <1>4 DEF Drivers, GroupsApart
<1>8. GroupInMaking' /\ GroupInHand'
    BY <1>3, <1>4 DEF GroupInMaking, GroupInHand
<1> QED BY <1>1, <1>6, <1>7, <1>8 DEF Drivers

LEMMA GroupEndsDrivers ==
    ASSUME Drivers, Types', GroupEnds
    PROVE  Drivers'
<1>0. Types
    BY DEF Drivers
<1>1. PICK g \in DOMAIN groups : g = doing.group
    BY DEF GroupEnds, Drivers, GroupInHand
<1>2. /\ UNCHANGED <<ui, inbox, mixed, careful>>
      /\ doing'.op = "receive" /\ doing.op = "ungroup"
      /\ CreateConductors(Members(groups[g])) /\ groups' = GroupsWithout(g)
    BY <1>1 DEF GroupEnds, GroupsWithout, NotBusy
<1>3. OneRequest' /\ NoNewRequest
    BY <1>2 DEF Drivers, OneRequest, NoNewRequest
<1> DEFINE old(k) == IF k < g THEN k ELSE k + 1
<1>4. \A k \in DOMAIN groups' :
          /\ old(k) \in DOMAIN groups /\ old(k) # g /\ groups'[k] = groups[old(k)]
          /\ \A j \in DOMAIN groups' : j # k => old(j) # old(k)
    BY <1>0, <1>2, GroupsLeft
<1> HIDE DEF old, Members, MembersOf
<1>5. Grouped' \subseteq Grouped
    BY <1>2, <1>4, GroupedIs
<1>6. NoneMixed'
    BY <1>2, <1>3, <1>5, RequestsKept DEF Drivers
<1>7. \A t \in Trains : conductors'[t].tid => t \in Members(groups[g]) \/ conductors[t].tid
    BY <1>0, <1>2, CreateParts
<1>8. GroupsApart'
  <2>1. \A j, k \in DOMAIN groups' :
            j # k => Members(groups'[j]) \cap Members(groups'[k]) \subseteq mixed'
      BY <1>2, <1>4 DEF Drivers, GroupsApart
  <2>2. \A k \in DOMAIN groups' : Members(groups'[k]) \cap Members(groups[g]) \subseteq mixed
      BY <1>4 DEF Drivers, GroupsApart
  <2>3. \A t \in Trains, k \in DOMAIN groups' :
            t \in Members(groups'[k]) /\ t \notin mixed' => ~ conductors'[t].tid
      BY <1>2, <1>4, <1>7, <2>2 DEF Drivers, GroupsApart
  <2> QED BY <2>1, <2>3 DEF GroupsApart
<1>9. GroupInMaking' /\ GroupInHand'
    BY <1>2 DEF GroupInMaking, GroupInHand
<1> QED BY <1>3, <1>6, <1>8, <1>9 DEF Drivers

LEMMA SetTrainsDrivers ==
    ASSUME Drivers, Types', HandleSetTrains
    PROVE  Drivers'
<1> DEFINE m == Head(inbox)
           missing == {t \in m.arg : ~ conductors[t].tid}
<1>0. Types
    BY DEF Drivers
<1>1. /\ Receives("set") /\ inbox' = Tail(inbox) /\ UNCHANGED <<doing, groups, careful>>
      /\ CreateConductors(missing) /\ mixed' = mixed \cup (missing \cap Grouped)
    BY DEF HandleSetTrains
<1>2. m.op = "set" /\ m = inbox[1] /\ 1 \in DOMAIN inbox /\ m.arg \subseteq Trains
      /\ doing.op = "receive" /\ m.from = "ui"
    BY <1>0, <1>1, ReceivesParts, MessageParts DEF NotBusy
<1>3. OneRequest' /\ \A n \in DOMAIN inbox' : inbox'[n].from # "ui"
    BY <1>0, <1>1, <1>2, TookKeeps DEF Drivers
<1>4. RequestsApart'
  <2>1. \A n \in DOMAIN inbox' : inbox'[n] \in Message
      BY DEF Types
  <2>2. \A n \in DOMAIN inbox' : inbox'[n].op \notin {"group", "set"}
      BY <1>3, <2>1, MessageParts
  <2> HIDE DEF Grouped
  <2> QED BY <2>2 DEF RequestsApart
<1>5. careful => m.arg \cap Grouped = {} /\ mixed = {}
  <2> HIDE DEF Grouped, m
  <2> QED BY <1>2 DEF Drivers, NoneMixed, RequestsApart
<1>6. missing \subseteq m.arg
    OBVIOUS
<1> HIDE DEF m, missing, Grouped, Members, MembersOf
<1>7. mixed \subseteq mixed' /\ (careful => mixed' = {})
    BY <1>1, <1>5, <1>6
<1>8. NoneMixed'
    BY <1>1, <1>4, <1>7 DEF NoneMixed
<1>9. \A t \in Trains : conductors'[t].tid => t \in missing \/ conductors[t].tid
    BY <1>0, <1>1, CreateParts
<1>10. \A k \in DOMAIN groups : Members(groups[k]) \subseteq Grouped
    BY GroupedIs
<1>11. GroupsApart'
    BY <1>1, <1>7, <1>9, <1>10 DEF Drivers, GroupsApart
<1>12. GroupInMaking' /\ GroupInHand'
    BY <1>1, <1>2 DEF GroupInMaking, GroupInHand
<1> QED BY <1>3, <1>8, <1>11, <1>12 DEF Drivers

LEMMA DriversStep == Drivers /\ [Next]_vars => Drivers'
<1> SUFFICES ASSUME Drivers, [Next]_vars PROVE Drivers'
    OBVIOUS
<1>1. Types /\ GroupInHand
    BY DEF Drivers
<1>2. CASE UserStep
    BY <1>2, UserDrivers
<1>3. CASE \E t \in Trains : Works(t) \/ ReplacedReports(t)
    BY <1>3, WorksDrivers, ReplacedDrivers
<1>4. CASE \E k \in 1 .. MaxGroups : GroupNotified(k) \/ GroupDone(k)
    BY <1>4, GroupDrivers
<1>5. CASE DispatcherStep
  <2>1. Types'
      BY <1>1, <1>5, DispatcherTypes
  <2> QED
    BY <1>5, <2>1, QuietDrivers, HandleGroupDrivers, SunsetDrivers, GroupMadeDrivers,
       HandDrivers, GroupEndsDrivers, SetTrainsDrivers DEF DispatcherStep
<1>6. CASE UNCHANGED vars
  <2>1. Types'
      BY <1>1, <1>6 DEF vars, Types
  <2>2. OneRequest' /\ NoNewRequest /\ SameGroups
      BY <1>6 DEF vars, Drivers, OneRequest, NoNewRequest, SameGroups
  <2> QED BY <1>6, <2>1, <2>2, DriversFrame DEF vars
<1> QED BY <1>2, <1>3, <1>4, <1>5, <1>6 DEF Next

LEMMA DriversAlways == Spec => []Drivers
BY DriversInit, DriversStep, PTL DEF Spec

----------------------------------------------------------------------------
(* Stages. *)

\* The reports in the mailbox are the old ones, each k places further on before.
OldReports(k) ==
    \A n \in DOMAIN inbox' : inbox'[n].op = "ready" /\ inbox'[n].train \notin mixed' =>
        n \in Nat \ {0} /\ n + k \in DOMAIN inbox /\ inbox'[n] = inbox[n + k]

LEMMA MailedReports ==
    ASSUME Types, NEW m \in Message, m.op # "ready", inbox' = Append(inbox, m)
    PROVE  OldReports(0)
<1>1. \A n \in DOMAIN inbox' : inbox'[n].op = "ready" =>
          n \in DOMAIN inbox /\ inbox'[n] = inbox[n]
    BY Grows DEF Types
<1>2. \A n \in DOMAIN inbox : n \in Nat \ {0} /\ n + 0 = n
    BY DEF Types
<1> QED BY <1>1, <1>2 DEF OldReports

LEMMA TookReports ==
    ASSUME Types, inbox # << >>,
           \/ inbox' = Tail(inbox)
           \/ \E m : m \in Message /\ m.op # "ready" /\ inbox' = Append(Tail(inbox), m)
    PROVE  OldReports(1)
<1> DEFINE r == Tail(inbox)
<1>1. r \in Seq(Message)
      /\ \A n \in DOMAIN r :
            n \in Nat \ {0} /\ n + 1 \in DOMAIN inbox /\ r[n] = inbox[n + 1]
    BY Shrinks DEF Types
<1> HIDE DEF r
<1>2. CASE inbox' = r
    BY <1>1, <1>2 DEF OldReports
<1>3. ASSUME NEW m \in Message, m.op # "ready", inbox' = Append(r, m)
      PROVE  OldReports(1)
  <2>1. \A n \in DOMAIN inbox' : inbox'[n].op = "ready" => n \in DOMAIN r /\ inbox'[n] = r[n]
      BY <1>1, <1>3, Grows
  <2> QED BY <1>1, <2>1 DEF OldReports
<1> QED BY <1>2, <1>3 DEF r

LEMMA SameReports ==
    ASSUME Types, UNCHANGED inbox
    PROVE  OldReports(0)
BY DEF OldReports, Types

LEMMA ReportsKept ==
    ASSUME Types', ReportsTrue, NEW k \in {0, 1}, OldReports(k), mixed \subseteq mixed',
           \A n \in DOMAIN inbox' :
               inbox'[n].op = "ready" /\ inbox'[n].train \notin mixed'
                       /\ stage[inbox'[n].train] = "reporting"
                   => stage'[inbox'[n].train] = "reporting"
    PROVE  ReportsTrue'
<1>1. \A n \in DOMAIN inbox' : inbox'[n].op = "ready" /\ inbox'[n].train \notin mixed' =>
          inbox'[n].from = "conductor" /\ stage'[inbox'[n].train] = "reporting"
    BY DEF OldReports, ReportsTrue
<1>2. ASSUME NEW m \in DOMAIN inbox', NEW n \in DOMAIN inbox', inbox'[n].train \notin mixed',
             inbox'[m].op = "ready", inbox'[n].op = "ready", inbox'[m].train = inbox'[n].train
      PROVE  m = n
  <2>1. /\ m + k \in DOMAIN inbox /\ inbox'[m] = inbox[m + k] /\ m \in Nat
        /\ n + k \in DOMAIN inbox /\ inbox'[n] = inbox[n + k] /\ n \in Nat
      BY <1>2 DEF OldReports
  <2>2. m + k = n + k
      BY <1>2, <2>1 DEF ReportsTrue
  <2> QED BY <2>1, <2>2
<1> QED BY <1>1, <1>2 DEF ReportsTrue

SameTrain(t) ==
    /\ conductors'[t].tid = conductors[t].tid
    /\ conductors'[t].rdy = conductors[t].rdy
    /\ conductors'[t].auto = conductors[t].auto
    /\ conductors'[t].available = conductors[t].available
    /\ stage'[t] = stage[t] /\ task'[t] = task[t] /\ replaced'[t] = replaced[t]
    /\ Starting(t)' <=> Starting(t)

LEMMA TrainFrame ==
    ASSUME NEW t \in Trains, TrainTrue(t), SameTrain(t)
    PROVE  TrainTrue(t)'
<1> HIDE DEF Starting, IsAutoCmd
<1> QED BY DEF TrainTrue, SameTrain

LEMMA NotStarting ==
    ASSUME doing.op # "start", doing'.op # "start"
    PROVE  \A t : Starting(t)' <=> Starting(t)
BY DEF Starting

LEMMA StagesInit == Init => Stages
<1> SUFFICES ASSUME Init PROVE Stages
    OBVIOUS
<1>1. PICK active \in SUBSET Trains :
          /\ conductors = [t \in Trains |-> [NewConductor EXCEPT !.tid = t \in active]]
          /\ stage = [t \in Trains |-> IF t \in active THEN "receive" ELSE "none"]
    BY DEF Init
<1>2. /\ inbox = << >> /\ task = [t \in Trains |-> NoCommand]
      /\ replaced = [t \in Trains |-> NoneReplaced]
      /\ \A t : ~ Starting(t)
    BY DEF Init, Starting, NotBusy
<1>3. ReportsTrue
    BY <1>2 DEF ReportsTrue
<1>4. ASSUME NEW t \in Trains
      PROVE  TrainTrue(t)
  <2> DEFINE c == conductors[t]
  <2>1. /\ c.tid <=> t \in active
        /\ c.available = 0 /\ c.rdy = TRUE /\ c.auto = FALSE
    <3>1. c = [NewConductor EXCEPT !.tid = t \in active]
        BY <1>1
    <3> QED BY <3>1 DEF NewConductor
  <2>2. stage[t] = IF t \in active THEN "receive" ELSE "none"
      BY <1>1
  <2> QED BY <1>2, <2>1, <2>2 DEF TrainTrue
<1> QED BY <1>3, <1>4 DEF Stages

LEMMA UserStages ==
    ASSUME Types, Types', Stages, UserStep
    PROVE  Stages'
<1>1. \E m : m \in Message /\ m.op # "ready" /\ inbox' = Append(inbox, m)
  <2>1. PICK op, t, arg : Enter(op, t, arg) /\ op # "ready"
    <3>1. \E op, t, arg :
              /\ Enter(op, t, arg)
              /\ op \in {"command", "t2start", "t2stop", "group", "ungroup", "groupcommand",
                        "set"}
      <4> HIDE DEF Grouped, Enter, MayName
      <4> QED BY DEF UserStep, EnterCommand, EnterT2Start, EnterT2Stop, EnterGroup,
                     EnterUngroup, EnterGroupCommand, EnterSetTrains
    <3> QED BY <3>1
  <2> DEFINE m == [from |-> "ui", op |-> op, train |-> t, arg |-> arg]
  <2>2. inbox' = Append(inbox, m) /\ m.op # "ready"
      BY <2>1 DEF Enter, Mail
  <2> HIDE DEF m
  <2>3. m \in Message
    <3>1. inbox' \in Seq(Message) /\ Len(inbox) + 1 \in DOMAIN inbox'
          /\ inbox'[Len(inbox) + 1] = m
        BY <2>2 DEF Types
    <3> QED BY <3>1
  <2> QED BY <2>2, <2>3
<1>2. UNCHANGED <<doing, conductors, stage, task, replaced, mixed>>
  <2> HIDE DEF Grouped, Spares, MayName
  <2> QED BY DEF UserStep, EnterCommand, EnterT2Start, EnterT2Stop, EnterGroup,
                 EnterUngroup, EnterGroupCommand, EnterSetTrains, Enter
<1>3. OldReports(0)
    BY <1>1, MailedReports
<1>4. ReportsTrue'
    BY <1>2, <1>3, ReportsKept DEF Stages
<1>5. \A t \in Trains \ mixed' : TrainTrue(t)'
    BY <1>2, TrainFrame DEF Stages, SameTrain, Starting
<1> QED BY <1>4, <1>5 DEF Stages

\* A step that moves the conductor of one train, of which no report is on the way or
\* which is mixed up.
LEMMA MovedStages ==
    ASSUME Types, Types', Stages, NEW t \in Trains, NEW k \in {0, 1}, OldReports(k),
           UNCHANGED mixed,
           t \notin mixed =>
               \A n \in DOMAIN inbox' : inbox'[n].op = "ready" => inbox'[n].train # t,
           \A s \in Trains : s # t => SameTrain(s),
           t \notin mixed => TrainTrue(t)'
    PROVE  Stages'
<1>1. ReportsTrue'
  <2>1. \A n \in DOMAIN inbox' : inbox'[n].op = "ready" => inbox'[n].train \in Trains
      BY MessageParts DEF Types
  <2>2. \A n \in DOMAIN inbox' : inbox'[n].op = "ready" /\ inbox'[n].train \notin mixed' =>
            stage'[inbox'[n].train] = stage[inbox'[n].train]
      BY <2>1 DEF SameTrain
  <2> QED BY <2>2, ReportsKept DEF Stages
<1>2. \A s \in Trains \ mixed : s # t => TrainTrue(s)'
    BY TrainFrame DEF Stages
<1> QED BY <1>1, <1>2 DEF Stages

LEMMA WorksStages ==
    ASSUME Types, Types', Stages, NEW t \in Trains, Works(t)
    PROVE  Stages'
<1>1. /\ stage[t] \in {"working", "routing", "arrived"}
      /\ stage' = [stage EXCEPT ![t] = stage'[t]]
      /\ stage'[t] \in {"routing", "arrived", "reporting"}
      /\ UNCHANGED <<doing, conductors, task, replaced, mixed>>
    BY DEF Works, Routes, Arrives, Reports, Conducts, Types
<1>2. ASSUME NEW s \in Trains \ mixed
      PROVE  TrainTrue(s)'
  <2>1. Starting(s)' <=> Starting(s)
      BY <1>1 DEF Starting
  <2>2. TrainTrue(s)
      BY DEF Stages
  <2>3. CASE s # t
      BY <1>1, <2>1, <2>2, <2>3, TrainFrame DEF SameTrain, Types
  <2>4. CASE s = t
    <3> HIDE DEF Starting, IsAutoCmd
    <3> QED BY <1>1, <2>1, <2>2, <2>4 DEF TrainTrue
  <2> QED BY <2>3, <2>4
<1>3. \A n \in DOMAIN inbox : inbox[n].op = "ready" /\ inbox[n].train \notin mixed =>
          inbox[n].train # t /\ inbox[n].train \in Trains
  <2>1. \A n \in DOMAIN inbox : inbox[n] \in Message
      BY DEF Types
  <2> QED BY <1>1, <2>1, MessageParts DEF Stages, ReportsTrue
<1>4. ReportsTrue'
  <2>1. CASE UNCHANGED inbox
      BY <1>1, <1>3, <2>1 DEF Stages, ReportsTrue, Types
  <2>2. CASE Reports(t)
    <3> DEFINE m == [from |-> "conductor", op |-> "ready", train |-> t, arg |-> NoCommand]
    <3>1. m \in Message /\ m.train = t /\ m.from = "conductor"
        BY DEF Message
    <3>2. inbox' = Append(inbox, m) /\ stage'[t] = "reporting"
        BY <2>2 DEF Reports, Mail, Conducts, Types
    <3> HIDE DEF m
    <3>3. \A n \in DOMAIN inbox' : \/ n \in DOMAIN inbox /\ inbox'[n] = inbox[n]
                                   \/ n = Len(inbox) + 1 /\ inbox'[n] = m
        BY <3>1, <3>2, Grows DEF Types
    <3>4. \A s \in Trains : s # t => stage'[s] = stage[s]
        BY <1>1 DEF Types
    <3> QED BY <1>1, <1>3, <3>1, <3>2, <3>3, <3>4 DEF Stages, ReportsTrue
  <2> QED BY <2>1, <2>2 DEF Works, Routes, Arrives
<1> QED BY <1>1, <1>2, <1>4 DEF Stages

\* Only a train that is mixed up has a conductor that was replaced.
LEMMA ReplacedStages ==
    ASSUME Types, Types', Stages, NEW t \in Trains, ReplacedReports(t)
    PROVE  Stages' /\ t \in mixed
<1> DEFINE m == [from |-> "replaced", op |-> "ready", train |-> t, arg |-> NoCommand]
<1>1. /\ UNCHANGED <<doing, conductors, stage, task, mixed>>
      /\ replaced[t].working > 0
      /\ replaced' = [replaced EXCEPT ![t].working = @ - 1]
      /\ inbox' = Append(inbox, m)
    BY DEF ReplacedReports, Mail
<1>2. t \in mixed
    BY <1>1 DEF Stages, TrainTrue, NoneReplaced
<1>3. m \in Message /\ m.train = t
    BY DEF Message
<1> HIDE DEF m
<1>4. OldReports(0)
  <2>1. \A n \in DOMAIN inbox' : \/ n \in DOMAIN inbox /\ inbox'[n] = inbox[n]
                                 \/ inbox'[n] = m
      BY <1>1, <1>3, Grows DEF Types
  <2>2. \A n \in DOMAIN inbox : n \in Nat \ {0} /\ n + 0 = n
      BY DEF Types
  <2> QED BY <1>1, <1>2, <1>3, <2>1, <2>2 DEF OldReports
<1>5. \A s \in Trains : s # t => SameTrain(s)
    BY <1>1 DEF SameTrain, Types, Starting
<1> QED BY <1>1, <1>2, <1>4, <1>5, MovedStages

\* Steps of the dispatcher that move no conductor.
LEMMA StillStages ==
    ASSUME Types, Types', Stages, NEW k \in {0, 1}, OldReports(k),
           UNCHANGED <<stage, task, replaced>>, mixed \subseteq mixed',
           \A t \in Trains :
               /\ conductors'[t].tid = conductors[t].tid
               /\ conductors'[t].rdy = conductors[t].rdy
               /\ conductors'[t].auto = conductors[t].auto
               /\ conductors'[t].available = conductors[t].available,
           \A t : Starting(t)' <=> Starting(t)
    PROVE  Stages'
<1>1. ReportsTrue'
    BY ReportsKept DEF Stages
<1>2. ASSUME NEW t \in Trains \ mixed'
      PROVE  TrainTrue(t)'
  <2>1. SameTrain(t) /\ TrainTrue(t)
    <3> HIDE DEF Starting
    <3> QED BY DEF SameTrain, Stages
  <2> QED BY <2>1, TrainFrame
<1> QED BY <1>1, <1>2 DEF Stages

LEMMA HandleCommandStages ==
    ASSUME Types, Types', Stages, HandleCommand
    PROVE  Stages'
<1>0. PICK t \in Trains, m \in Commands : t = Head(inbox).train /\ m = Head(inbox).arg
    BY ReceivesParts, MessageParts DEF HandleCommand
<1>1. PICK c \in Conductor : c = conductors[t]
    BY DEF Types
<1>2. /\ Receives("command") /\ inbox' = Tail(inbox)
      /\ UNCHANGED <<stage, task, replaced, mixed>>
      /\ inbox # << >>
      /\ \A s : ~ Starting(s)
    BY ReceivesParts DEF HandleCommand, Starting, NotBusy
<1>3. OldReports(1)
    BY <1>2, TookReports
<1>4. ReportsTrue'
    BY <1>2, <1>3, ReportsKept DEF Stages
<1>5. CASE UNCHANGED <<doing, conductors>>
  <2>1. \A s : Starting(s)' <=> Starting(s)
      BY <1>5 DEF Starting
  <2> QED BY <1>2, <1>3, <1>5, <2>1, StillStages
<1>6. CASE /\ conductors' = [conductors EXCEPT ![t] = Store(c, m)]
           /\ doing' = IF c.rdy THEN [op |-> "start", train |-> t, ready |-> FALSE]
                       ELSE NotBusy
           /\ c.tid /\ ~ c.auto
  <2>1. (t \notin mixed => TrainTrue(t)) /\ ~ Starting(t)
      BY <1>2 DEF Stages
  <2>2. SameFlags(c, Store(c, m)) /\ Store(c, m).available = c.available + 1
      BY StoreParts
  <2>3. conductors'[t] = Store(c, m)
        /\ \A s \in Trains : s # t => conductors'[s] = conductors[s]
      BY <1>2, <1>6 DEF Types
  <2>4. \A s : Starting(s)' <=> c.rdy /\ s = t
      BY <1>6 DEF Starting, NotBusy
  <2> HIDE DEF Starting, IsAutoCmd
  <2>5. c.available \in Int
      BY DEF Conductor
  <2>6. ASSUME t \notin mixed
        PROVE  TrainTrue(t)'
    <3>1. /\ c.tid /\ stage[t] # "none" /\ c.available >= 0 /\ replaced[t] = NoneReplaced
          /\ c.rdy <=> stage[t] = "receive"
          /\ c.auto <=> ~ c.rdy /\ IsAutoCmd(task[t])
        BY <1>1, <1>6, <2>1, <2>6 DEF TrainTrue
    <3>2. /\ conductors'[t].tid /\ conductors'[t].rdy = c.rdy
          /\ conductors'[t].auto = c.auto /\ conductors'[t].available = c.available + 1
        BY <2>2, <2>3, <3>1 DEF SameFlags
    <3> QED BY <1>2, <2>4, <2>5, <3>1, <3>2 DEF TrainTrue
  <2>7. ASSUME NEW s \in Trains \ mixed, s # t
        PROVE  TrainTrue(s)'
    <3>1. SameTrain(s) /\ TrainTrue(s)
        BY <1>2, <2>3, <2>4, <2>7 DEF SameTrain, Stages
    <3> QED BY <3>1, TrainFrame
  <2> QED BY <1>2, <1>4, <2>6, <2>7 DEF Stages
<1> QED BY <1>0, <1>1, <1>5, <1>6 DEF HandleCommand

LEMMA HandleReadyStages ==
    ASSUME Types, Types', Stages, HandleReady
    PROVE  Stages'
<1>0. PICK t \in Trains : t = Head(inbox).train
    BY ReceivesParts, MessageParts DEF HandleReady
<1>1. PICK c \in Conductor : c = conductors[t]
    BY DEF Types
<1>2. /\ Receives("ready") /\ UNCHANGED <<task, mixed>>
      /\ inbox # << >> /\ inbox[1] = Head(inbox) /\ 1 \in DOMAIN inbox
      /\ inbox[1].op = "ready" /\ Tail(inbox) \in Seq(Message)
      /\ \A s : ~ Starting(s)
    BY <1>0, ReceivesParts DEF HandleReady, Starting, NotBusy
<1>3. t \notin mixed =>
          TrainTrue(t) /\ stage[t] = "reporting" /\ inbox[1].from = "conductor"
    BY <1>0, <1>2 DEF Stages, ReportsTrue
<1>4. t \notin mixed => c.tid /\ ~ c.rdy /\ c.available >= 0 /\ c.available \in Int
    BY <1>1, <1>2, <1>3 DEF TrainTrue, Conductor
<1>5. /\ t \notin mixed => stage'[t] = "receive" /\ replaced'[t] = NoneReplaced
      /\ \A s \in Trains : s # t => stage'[s] = stage[s] /\ replaced'[s] = replaced[s]
  <2>1. \/ UNCHANGED <<stage, replaced>> /\ inbox[1].from = "replaced"
        \/ /\ UNCHANGED stage /\ replaced[t].reporting > 0
           /\ replaced' = [replaced EXCEPT ![t].reporting = @ - 1]
        \/ stage' = [stage EXCEPT ![t] = "receive"] /\ UNCHANGED replaced
      BY <1>0, <1>2 DEF HandleReady
  <2>2. t \notin mixed => replaced[t] = NoneReplaced /\ ~ (replaced[t].reporting > 0)
      BY <1>3 DEF TrainTrue, NoneReplaced
  <2>3. \A s \in Trains : s # t => stage'[s] = stage[s] /\ replaced'[s] = replaced[s]
      BY <2>1 DEF Types
  <2>4. t \notin mixed => stage'[t] = "receive" /\ replaced'[t] = NoneReplaced
      BY <1>3, <2>1, <2>2 DEF Types
  <2> QED BY <2>3, <2>4
<1>6. t \notin mixed /\ OldReports(1) =>
          \A n \in DOMAIN inbox' : inbox'[n].op = "ready" => inbox'[n].train # t
    BY <1>0, <1>2 DEF OldReports, Stages, ReportsTrue
<1>7. CASE /\ c.available > 0
           /\ doing' = [op |-> "start", train |-> t, ready |-> TRUE]
           /\ inbox' = Tail(inbox) /\ UNCHANGED conductors
  <2>1. OldReports(1) /\ \A s : Starting(s)' <=> s = t
      BY <1>2, <1>7, TookReports DEF Starting
  <2> HIDE DEF Starting, IsAutoCmd
  <2>2. t \notin mixed => TrainTrue(t)'
      BY <1>1, <1>4, <1>5, <1>7, <2>1 DEF TrainTrue
  <2>3. \A s \in Trains : s # t => SameTrain(s)
      BY <1>2, <1>5, <1>7, <2>1 DEF SameTrain
  <2> QED BY <1>2, <1>6, <2>1, <2>2, <2>3, MovedStages
<1>8. CASE /\ ~ (c.available > 0) /\ UNCHANGED doing
           /\ LetDemoGo(t, Idle(c), Tail(inbox))
  <2>1. /\ conductors' = [conductors EXCEPT ![t] = ForgetDestination(Idle(c))]
        /\ \/ inbox' = Tail(inbox)
           \/ \E d : DemoMail(d, t) /\ inbox' = Append(Tail(inbox), d)
    <3>1. LetDemoGo(t, Idle(c), Tail(inbox))
        BY <1>8
    <3> QED BY <3>1, LetDemoGoParts DEF LetsDemoGo
  <2>2. OldReports(1)
    <3>1. \A d : DemoMail(d, t) => d \in Message /\ d.op # "ready"
        BY MessageParts DEF DemoMail
    <3> QED BY <1>2, <2>1, <3>1, TookReports
  <2> DEFINE d == ForgetDestination(Idle(c))
  <2>3. t \notin mixed => d.tid /\ d.rdy /\ ~ d.auto /\ d.available = 0
    <3> QED BY <1>4, <1>8, ForgetParts
  <2>4. conductors'[t] = d /\ \A s \in Trains : s # t => conductors'[s] = conductors[s]
      BY <1>2, <2>1 DEF Types
  <2>5. \A s : ~ Starting(s)'
      BY <1>2, <1>8 DEF Starting
  <2> HIDE DEF Starting, IsAutoCmd, d
  <2>6. t \notin mixed => TrainTrue(t)'
      BY <1>5, <2>3, <2>4, <2>5 DEF TrainTrue
  <2>7. \A s \in Trains : s # t => SameTrain(s)
      BY <1>2, <1>5, <2>4, <2>5 DEF SameTrain
  <2> QED BY <1>2, <1>6, <2>2, <2>6, <2>7, MovedStages
<1> QED BY <1>0, <1>1, <1>7, <1>8 DEF HandleReady

LEMMA ConductorTakesStages ==
    ASSUME Types, Types', Stages, ConductorTakes
    PROVE  Stages'
<1>0. PICK t \in Trains : t = doing.train
    BY HandlerParts DEF ConductorTakes
<1>1. PICK c \in Conductor : c = conductors[t]
    BY DEF Types
<1>2. /\ doing.op = "start" /\ stage[t] = "receive" /\ doing' = NotBusy
      /\ stage' = [stage EXCEPT ![t] = "working"]
      /\ task' = [task EXCEPT ![t] = NextCommand(c)]
      /\ UNCHANGED <<replaced, mixed>>
    BY <1>0, <1>1 DEF ConductorTakes
<1>3. Starting(t) /\ (\A s : Starting(s) => s = t) /\ \A s : ~ Starting(s)'
    BY <1>0, <1>2 DEF Starting, NotBusy
<1>4. /\ t \notin mixed => c.tid /\ c.available > 0 /\ replaced[t] = NoneReplaced
      /\ c.available \in Int
  <2>1. t \notin mixed => TrainTrue(t)
      BY DEF Stages
  <2> QED BY <1>1, <1>3, <2>1 DEF TrainTrue, Conductor
<1>5. /\ stage'[t] = "working" /\ task'[t] = NextCommand(c)
      /\ \A s \in Trains : s # t => stage'[s] = stage[s] /\ task'[s] = task[s]
    BY <1>2, <1>3 DEF Types
<1>6. t \notin mixed =>
          \A n \in DOMAIN inbox : inbox[n].op = "ready" => inbox[n].train # t
    BY <1>2 DEF Stages, ReportsTrue
<1> DEFINE Told(d) == t \notin mixed =>
                          /\ d.tid /\ ~ d.rdy /\ d.available >= 0
                          /\ d.auto <=> IsAutoCmd(NextCommand(c))
<1>7. Start(c) \in Conductor /\ Told(Start(c)) /\ Told(ForgetDestination(Start(c)))
  <2> HIDE DEF IsAutoCmd
  <2>1. /\ Start(c) \in Conductor /\ ~ Start(c).rdy
        /\ Start(c).auto = IsAutoCmd(NextCommand(c))
        /\ t \notin mixed => Start(c).tid /\ Start(c).available >= 0
    <3>1. /\ Start(c) \in Conductor /\ Start(c).tid = c.tid /\ Start(c).rdy = FALSE
          /\ Start(c).available = c.available - 1
          /\ Start(c).auto = IsAutoCmd(NextCommand(c))
        BY StartParts
    <3>2. t \notin mixed => Start(c).available >= 0
        BY <1>4, <3>1
    <3> QED BY <1>4, <3>1, <3>2
  <2> QED BY <2>1, ForgetParts
<1>8. PICK d : Told(d) /\ conductors' = [conductors EXCEPT ![t] = d]
               /\ (\/ UNCHANGED inbox
                   \/ \E m : DemoMail(m, t) /\ inbox' = Append(inbox, m))
  <2>1. CASE doing.ready
    <3>1. LetDemoGo(t, Start(c), inbox)
        BY <1>0, <1>1, <2>1 DEF ConductorTakes
    <3> HIDE DEF Told
    <3> QED BY <1>3, <1>7, <3>1, LetDemoGoParts DEF LetsDemoGo
  <2>2. CASE ~ doing.ready
    <3> HIDE DEF Told
    <3> QED BY <1>0, <1>1, <1>7, <2>2 DEF ConductorTakes
  <2> QED BY <2>1, <2>2
<1>9. OldReports(0)
  <2>1. \A m : DemoMail(m, t) => m \in Message /\ m.op # "ready"
      BY MessageParts DEF DemoMail
  <2> QED BY <1>8, <2>1, MailedReports, SameReports
<1>10. t \notin mixed =>
          \A n \in DOMAIN inbox' : inbox'[n].op = "ready" => inbox'[n].train # t
  <2>1. \A n \in Nat : n + 0 = n
      OBVIOUS
  <2> QED BY <1>2, <1>6, <1>9, <2>1 DEF OldReports
<1>11. conductors'[t] = d /\ \A s \in Trains : s # t => conductors'[s] = conductors[s]
    BY <1>3, <1>8 DEF Types
<1> HIDE DEF Starting, IsAutoCmd
<1>12. t \notin mixed => TrainTrue(t)'
    BY <1>2, <1>3, <1>4, <1>5, <1>8, <1>11 DEF TrainTrue
<1>13. \A s \in Trains : s # t => SameTrain(s)
    BY <1>2, <1>3, <1>5, <1>11 DEF SameTrain
<1> QED BY <1>2, <1>3, <1>9, <1>10, <1>12, <1>13, MovedStages

LEMMA QuietStages ==
    ASSUME Types, Types', Stages,
           \/ ReceivesFromDead \/ ReceivesFromForgotten \/ HandleT2Start \/ HandleT2Stop
           \/ HandleGroup \/ GroupMade
           \/ HandleUngroup \/ HandleGroupCommand \/ GroupTakes
           \/ \E k : GroupNotified(k) \/ GroupDone(k)
           \/ UNCHANGED vars
    PROVE  Stages'
<1>1. CASE HandleT2Start \/ HandleT2Stop
  <2>1. PICK t \in Trains : t = Head(inbox).train
      BY <1>1, ReceivesParts, MessageParts DEF HandleT2Start, HandleT2Stop
  <2>2. /\ inbox # << >> /\ Tail(inbox) \in Seq(Message)
        /\ UNCHANGED <<doing, stage, task, replaced, mixed>>
      BY <1>1, ReceivesParts DEF HandleT2Start, HandleT2Stop
  <2>3. OldReports(1)
    <3>1. \A d : DemoMail(d, t) => d \in Message /\ d.op # "ready"
        BY MessageParts DEF DemoMail
    <3>2. \/ inbox' = Tail(inbox)
          \/ \E d : DemoMail(d, t) /\ inbox' = Append(Tail(inbox), d)
      <4>1. DemoSends(t, Tail(inbox)) => \E d : DemoMail(d, t) /\ inbox' = Append(Tail(inbox), d)
          BY DemoSendsParts
      <4> QED BY <1>1, <2>1, <4>1 DEF HandleT2Start, HandleT2Stop
    <3> QED BY <2>2, <3>1, <3>2, TookReports
  <2>4. PICK c \in Conductor : c = conductors[t]
      BY DEF Types
  <2>5. \/ UNCHANGED conductors
        \/ conductors' = [conductors EXCEPT ![t] = [c EXCEPT !.t2 = TRUE]]
        \/ conductors' = [conductors EXCEPT ![t] = ForgetDemo(c)]
      BY <1>1, <2>1, <2>4 DEF HandleT2Start, HandleT2Stop
  <2>6. ASSUME NEW d, d \in {c, [c EXCEPT !.t2 = TRUE], ForgetDemo(c)}
        PROVE  d.tid = c.tid /\ d.rdy = c.rdy /\ d.auto = c.auto /\ d.available = c.available
      BY <2>6, ForgetParts DEF Conductor
  <2>7. \A s \in Trains :
            /\ conductors'[s].tid = conductors[s].tid
            /\ conductors'[s].rdy = conductors[s].rdy
            /\ conductors'[s].auto = conductors[s].auto
            /\ conductors'[s].available = conductors[s].available
      BY <2>4, <2>5, <2>6 DEF Types
  <2>8. \A s : Starting(s)' <=> Starting(s)
      BY <2>2 DEF Starting
  <2> QED BY <2>2, <2>3, <2>7, <2>8, StillStages
<1>2. CASE HandleGroup \/ HandleUngroup \/ HandleGroupCommand
  <2>1. /\ inbox # << >> /\ inbox' = Tail(inbox)
        /\ UNCHANGED <<conductors, stage, task, replaced>> /\ mixed \subseteq mixed'
        /\ doing.op # "start" /\ doing'.op # "start"
    <3>1. /\ inbox # << >> /\ inbox' = Tail(inbox)
          /\ UNCHANGED <<conductors, stage, task, replaced>>
          /\ doing.op # "start"
        BY <1>2, ReceivesParts DEF HandleGroup, HandleUngroup, HandleGroupCommand, NotBusy
    <3>2. doing' = doing \/ doing'.op \in {"group", "ungroup", "groupcommand"}
      <4> HIDE DEF Grouped, Members
      <4> QED BY <1>2 DEF HandleGroup, HandleUngroup, HandleGroupCommand
    <3>3. mixed \subseteq mixed'
      <4> HIDE DEF Grouped, Members
      <4> QED BY <1>2 DEF HandleGroup, HandleUngroup, HandleGroupCommand
    <3> QED BY <3>1, <3>2, <3>3
  <2>2. OldReports(1)
      BY <2>1, TookReports
  <2> QED BY <2>1, <2>2, NotStarting, StillStages
<1>3. CASE GroupMade \/ GroupTakes
  <2>1. /\ UNCHANGED <<inbox, conductors, stage, task, replaced, mixed>>
        /\ doing.op # "start" /\ doing'.op # "start"
      BY <1>3 DEF GroupMade, GroupTakes, NotBusy
  <2> QED BY <2>1, SameReports, NotStarting, StillStages
<1>4. CASE \/ ReceivesFromDead \/ ReceivesFromForgotten
           \/ (\E k : GroupNotified(k) \/ GroupDone(k)) \/ UNCHANGED vars
  <2>1. UNCHANGED <<inbox, doing, conductors, stage, task, replaced, mixed>>
      BY <1>4 DEF ReceivesFromDead, ReceivesFromForgotten, GroupNotified, GroupDone, GroupWorks,
                  vars
  <2>2. \A s : Starting(s)' <=> Starting(s)
      BY <2>1 DEF Starting
  <2> QED BY <2>1, <2>2, SameReports, StillStages
<1> QED BY <1>1, <1>2, <1>3, <1>4

LEMMA SunsetStages ==
    ASSUME Types, Types', Stages, SunsetMember
    PROVE  Stages'
<1>1. doing.op = "group" /\ doing.left \in Seq(Trains) /\ doing.left # << >>
    BY HandlerParts DEF SunsetMember
<1>2. PICK t \in Trains : t = Head(doing.left)
    BY <1>1, FirstOfMembers
<1>3. PICK c \in Conductor : c = conductors[t]
    BY DEF Types
<1>4. /\ UNCHANGED <<inbox, task, replaced, mixed>>
      /\ c.tid => stage[t] \in {"receive", "routing"}
      /\ \/ UNCHANGED <<stage, conductors, doing>>
         \/ /\ stage' = [stage EXCEPT ![t] = "none"]
            /\ conductors' = [conductors EXCEPT ![t] = ForgetConductor(c)]
            /\ doing' = [doing EXCEPT !.left = Tail(@)]
    BY <1>2, <1>3 DEF SunsetMember
<1>5. doing'.op = "group"
    BY <1>1, <1>4, HandlerParts DEF Types, Handler, NotBusy
<1>6. OldReports(0) /\ \A s : ~ Starting(s) /\ ~ Starting(s)'
    BY <1>1, <1>4, <1>5, SameReports DEF Starting
<1>7. CASE UNCHANGED <<stage, conductors, doing>>
    BY <1>1, <1>4, <1>5, <1>6, <1>7, StillStages, NotStarting
<1>8. CASE /\ stage' = [stage EXCEPT ![t] = "none"]
           /\ conductors' = [conductors EXCEPT ![t] = ForgetConductor(c)]
  <2>1. /\ stage'[t] = "none" /\ conductors'[t] = ForgetConductor(c)
        /\ \A s \in Trains : s # t => stage'[s] = stage[s] /\ conductors'[s] = conductors[s]
      BY <1>8 DEF Types
  <2>2. ~ ForgetConductor(c).tid /\ ForgetConductor(c).available = c.available
      BY ForgetParts
  <2>3. t \notin mixed => TrainTrue(t)
      BY DEF Stages
  <2> HIDE DEF Starting, IsAutoCmd
  <2>4. t \notin mixed =>
            /\ c.available >= 0 /\ (c.tid <=> stage[t] # "none")
            /\ replaced[t] = NoneReplaced
      BY <1>3, <2>3 DEF TrainTrue
  <2>5. t \notin mixed => TrainTrue(t)'
      BY <1>4, <1>6, <2>1, <2>2, <2>4 DEF TrainTrue
  <2>6. \A s \in Trains : s # t => SameTrain(s)
      BY <1>4, <1>6, <2>1 DEF SameTrain
  <2>7. t \notin mixed =>
            \A n \in DOMAIN inbox' : inbox'[n].op = "ready" => inbox'[n].train # t
      BY <1>4, <2>4 DEF Stages, ReportsTrue
  <2> QED BY <1>4, <1>6, <2>5, <2>6, <2>7, MovedStages
<1> QED BY <1>4, <1>7, <1>8

\* Conductors are made only for trains that have none or are mixed up.
LEMMA CreatedStages ==
    ASSUME Types, Types', Stages, NEW ts, CreateConductors(ts), UNCHANGED task,
           mixed \subseteq mixed',
           \A t \in Trains \ mixed : t \in ts => ~ conductors[t].tid,
           NEW k \in {0, 1}, OldReports(k),
           doing.op # "start", doing'.op # "start"
    PROVE  Stages'
<1>1. \A s : ~ Starting(s) /\ ~ Starting(s)'
    BY DEF Starting
<1>2. \A t \in Trains :
          /\ t \in ts => conductors'[t] = NewConductor /\ stage'[t] = "receive"
          /\ t \notin ts => conductors'[t] = conductors[t] /\ stage'[t] = stage[t]
    BY CreateParts
<1> HIDE DEF Starting, IsAutoCmd
<1>3. ASSUME NEW t \in Trains \ mixed'
      PROVE  TrainTrue(t)'
  <2>1. TrainTrue(t)
      BY DEF Stages
  <2>2. CASE t \in ts
    <3>1. stage[t] = "none" /\ replaced[t] = NoneReplaced
        BY <2>1, <2>2 DEF TrainTrue
    <3>2. replaced'[t] = NoneReplaced
        BY <3>1, CreateParts
    <3> QED BY <1>1, <1>2, <2>2, <3>2, NewConductorType DEF TrainTrue
  <2>3. CASE t \notin ts
    <3>1. replaced'[t] = replaced[t]
        BY <2>3, CreateParts
    <3>2. SameTrain(t)
        BY <1>1, <1>2, <2>3, <3>1 DEF SameTrain
    <3> QED BY <2>1, <3>2, TrainFrame
  <2> QED BY <2>2, <2>3
<1>4. \A t \in Trains \ mixed' : stage[t] = "reporting" => stage'[t] = "reporting"
  <2>1. \A t \in Trains \ mixed' : TrainTrue(t)
      BY DEF Stages
  <2> QED BY <1>2, <2>1 DEF TrainTrue
<1>5. \A n \in DOMAIN inbox' : inbox'[n].op = "ready" => inbox'[n].train \in Trains
    BY MessageParts DEF Types
<1>6. ReportsTrue'
    BY <1>4, <1>5, ReportsKept DEF Stages
<1> QED BY <1>3, <1>6 DEF Stages

LEMMA GroupEndsStages ==
    ASSUME Drivers, Types', Stages, GroupEnds
    PROVE  Stages'
<1>1. PICK g \in DOMAIN groups : g = doing.group
    BY DEF GroupEnds, Drivers, GroupInHand
<1>2. /\ UNCHANGED <<inbox, task, mixed>> /\ doing.op # "start" /\ doing'.op # "start"
      /\ CreateConductors(Members(groups[g]))
    BY <1>1 DEF GroupEnds, NotBusy
<1> HIDE DEF Members
<1>3. \A t \in Trains \ mixed : t \in Members(groups[g]) => ~ conductors[t].tid
    BY DEF Drivers, GroupsApart
<1>4. Types /\ OldReports(0)
    BY <1>2, SameReports DEF Drivers
<1> QED BY <1>2, <1>3, <1>4, CreatedStages

LEMMA SetTrainsStages ==
    ASSUME Types, Types', Stages, HandleSetTrains
    PROVE  Stages'
<1>1. PICK ts : ts = {t \in Head(inbox).arg : ~ conductors[t].tid}
    OBVIOUS
<1>2. /\ inbox # << >> /\ inbox' = Tail(inbox) /\ UNCHANGED <<doing, task>>
      /\ doing.op # "start"
      /\ CreateConductors(ts) /\ mixed' = mixed \cup (ts \cap Grouped)
    BY <1>1, ReceivesParts DEF HandleSetTrains, NotBusy
<1> HIDE DEF Grouped
<1>3. \A t \in Trains \ mixed : t \in ts => ~ conductors[t].tid
    BY <1>1
<1>4. OldReports(1) /\ mixed \subseteq mixed'
    BY <1>2, TookReports
<1> QED BY <1>2, <1>3, <1>4, CreatedStages

LEMMA StagesStep == Drivers /\ Stages /\ [Next]_vars => Stages'
<1> SUFFICES ASSUME Drivers, Stages, [Next]_vars PROVE Stages'
    OBVIOUS
<1>1. Drivers'
    BY DriversStep
<1>2. Types /\ Types'
    BY <1>1 DEF Drivers
<1>3. CASE UserStep
    BY <1>2, <1>3, UserStages
<1>4. CASE \E t \in Trains : Works(t) \/ ReplacedReports(t)
    BY <1>2, <1>4, WorksStages, ReplacedStages
<1>5. CASE (\E k \in 1 .. MaxGroups : GroupNotified(k) \/ GroupDone(k)) \/ UNCHANGED vars
    BY <1>2, <1>5, QuietStages
<1>6. CASE DispatcherStep
    BY <1>2, <1>6, QuietStages, HandleCommandStages, HandleReadyStages, ConductorTakesStages,
       SunsetStages, GroupEndsStages, SetTrainsStages DEF DispatcherStep
<1> QED BY <1>3, <1>4, <1>5, <1>6 DEF Next

LEMMA StagesAlways == Spec => [](Drivers /\ Stages)
<1>1. Init => Drivers /\ Stages
    BY DriversInit, StagesInit
<1>2. Drivers /\ Stages /\ [Next]_vars => (Drivers /\ Stages)'
    BY DriversStep, StagesStep
<1> QED BY <1>1, <1>2, PTL DEF Spec

\* A train that no GROUP and no SET has named while it was in a group has one task that
\* drives it, its conductor or that of its group, and no conductor was put in place of
\* another of its (usr/command_dispatcher.c:381-389, 419-421): whatever the user sets,
\* groups and ungroups, and however the other trains are mixed up.
THEOREM OneDriverAlways == Spec => []OneDriver
<1>1. Drivers /\ Stages => OneDriver
  <2> SUFFICES ASSUME Drivers, Stages, doing.op # "group", NEW t \in Trains \ mixed
               PROVE  /\ conductors[t].tid => t \notin Grouped
                      /\ \A j, k \in DOMAIN groups :
                            t \in Members(groups[j]) \cap Members(groups[k]) => j = k
                      /\ replaced[t] = NoneReplaced
      BY DEF OneDriver
  <2>1. replaced[t] = NoneReplaced
      BY DEF Stages, TrainTrue
  <2> HIDE DEF Members
  <2> QED BY <2>1, GroupedIs DEF Drivers, GroupsApart
<1> QED BY <1>1, StagesAlways, PTL

\* The dispatcher sends to a conductor only when it receives, sends it everything
\* first that is in its queue, and knows whether the train is driven automatically
\* (usr/command_dispatcher.c:119-131, 146-163): for any trains and any length of the
\* queues, also when they are overrun, but for the trains that are mixed up.
THEOREM ReadyAlways == Spec => []ReadyExact
<1>1. Stages => ReadyExact
  <2> HIDE DEF Starting, IsAutoCmd
  <2> QED BY DEF Stages, TrainTrue, ReadyExact
<1> QED BY <1>1, StagesAlways, PTL

----------------------------------------------------------------------------
(* Care. *)

\* The mailbox: k messages fewer at its head, those of fresh more at its end.
Moves(k, fresh) ==
    /\ \A n \in DOMAIN inbox' :
          /\ n \in Nat \ {0}
          /\ \/ n + k \in DOMAIN inbox /\ inbox'[n] = inbox[n + k]
             \/ inbox'[n] \in fresh /\ \A m \in DOMAIN inbox' : m <= n
    /\ \A n \in DOMAIN inbox :
          /\ n \in Nat \ {0}
          /\ n > k => n - k \in DOMAIN inbox' /\ inbox'[n - k] = inbox[n]

LEMMA AppendMoves ==
    ASSUME Types, NEW m \in Message, inbox' = Append(inbox, m)
    PROVE  Moves(0, {m})
<1>1. /\ DOMAIN inbox' = 1 .. Len(inbox) + 1 /\ inbox'[Len(inbox) + 1] = m
      /\ Len(inbox) \in Nat /\ DOMAIN inbox = 1 .. Len(inbox)
      /\ \A i \in DOMAIN inbox : inbox'[i] = inbox[i]
    BY Grows DEF Types
<1> QED BY <1>1 DEF Moves

LEMMA TailMoves ==
    ASSUME Types, inbox # << >>, inbox' = Tail(inbox)
    PROVE  Moves(1, {})
BY Shrinks DEF Moves, Types

LEMMA PassMoves ==
    ASSUME Types, inbox # << >>, NEW m \in Message, inbox' = Append(Tail(inbox), m)
    PROVE  Moves(1, {m})
<1>1. PICK r \in Seq(Message) : r = Tail(inbox)
    BY Shrinks DEF Types
<1>2. /\ DOMAIN r = 1 .. Len(r) /\ Len(r) = Len(inbox) - 1
      /\ DOMAIN inbox = 1 .. Len(inbox) /\ Len(inbox) \in Nat \ {0}
      /\ \A i \in DOMAIN r : r[i] = inbox[i + 1]
    BY <1>1 DEF Types
<1>3. /\ DOMAIN inbox' = 1 .. Len(r) + 1 /\ inbox'[Len(r) + 1] = m
      /\ \A i \in DOMAIN r : inbox'[i] = r[i]
    BY <1>1, Grows
<1> QED BY <1>2, <1>3 DEF Moves

LEMMA StillMoves ==
    ASSUME Types, UNCHANGED inbox
    PROVE  Moves(0, {})
BY DEF Moves, Types

\* What a step does to a train that it is not about.
Untouched(t) ==
    /\ (conductors[t].tid => conductors[t].rdy) => (conductors'[t].tid => conductors'[t].rdy)
    /\ conductors'[t].t2 <=> conductors[t].t2
    /\ conductors[t].t2 /\ conductors[t].tid => conductors'[t].tid
    /\ t \notin Grouped /\ conductors[t].tid => conductors'[t].tid
    /\ demo'[t] = demo[t]
    /\ Starting(t)' => Starting(t) /\ doing' = doing

\* No request about the train is on the way behind the message that is received.
NotCalled(t, k) ==
    \A n \in DOMAIN inbox : n > k =>
        /\ inbox[n].op = "t2start" => inbox[n].train # t
        /\ inbox[n].op = "group" => t \notin MembersOf(inbox[n].arg)

NotAsked(t, k) ==
    /\ NotCalled(t, k)
    /\ \A n \in DOMAIN inbox : n > k /\ inbox[n].op = "t2stop" => inbox[n].train # t

LEMMA CalmKept ==
    ASSUME NEW k \in {0, 1}, NEW F, Moves(k, F),
           NEW t \in Trains, Untouched(t), NEW n \in DOMAIN inbox, n > k, Calm(t, n),
           \A f \in F : f.train # t
    PROVE  Calm(t, n - k)'
<1> HIDE DEF Starting
<1>1. /\ conductors'[t].tid => conductors'[t].rdy
      /\ ~ Starting(t)' /\ ~ conductors'[t].t2
    BY DEF Untouched, Calm
<1>2. ASSUME NEW m \in DOMAIN inbox', m # n - k, inbox'[m].train = t
      PROVE  FALSE
  <2>1. m + k \in DOMAIN inbox /\ inbox[m + k].train = t /\ m \in Nat /\ n \in Nat
      BY <1>2 DEF Moves
  <2>2. m + k # n
      BY <1>2, <2>1
  <2> QED BY <2>1, <2>2 DEF Calm
<1> QED BY <1>1, <1>2 DEF Calm

LEMMA StopsKept ==
    ASSUME StopsCalm, NEW k \in {0, 1}, NEW F, Moves(k, F), NEW t, NotAsked(t, k),
           \A f \in F : f.op # "t2stop",
           \A u \in Trains : u # t => Untouched(u)
    PROVE  StopsCalm'
<1> HIDE DEF Starting
<1> SUFFICES ASSUME NEW n \in DOMAIN inbox', NEW u \in Trains,
                    inbox'[n].op = "t2stop", inbox'[n].train = u
             PROVE  StopCalm(u, n)'
    BY DEF StopsCalm
<1>1. n \in Nat \ {0} /\ n + k \in DOMAIN inbox /\ inbox'[n] = inbox[n + k] /\ n + k > k
    BY DEF Moves
<1>2. Untouched(u)
    BY <1>1 DEF NotAsked
<1>3. StopCalm(u, n + k)
    BY <1>1 DEF StopsCalm
<1>4. ASSUME NEW m \in DOMAIN inbox', m < n
      PROVE  inbox'[m].train # u
  <2>1. m \in Nat /\ m + k \in DOMAIN inbox /\ inbox'[m] = inbox[m + k]
      BY <1>1, <1>4 DEF Moves
  <2>2. m + k < n + k
      BY <1>1, <1>4, <2>1
  <2> QED BY <1>3, <2>1, <2>2 DEF StopCalm
<1>5. demo'[u] # "sending" /\ ~ Starting(u)'
    BY <1>2, <1>3 DEF Untouched, StopCalm
<1> QED BY <1>4, <1>5 DEF StopCalm

LEMMA StartsKept ==
    ASSUME StartsCalm, NEW k \in {0, 1}, NEW F, Moves(k, F), NEW t, NotCalled(t, k),
           \A f \in F : f.op # "t2start" /\ NotCalled(f.train, k),
           \A u \in Trains : u # t => Untouched(u),
           (\E n \in DOMAIN inbox : n > k /\ inbox[n].op = "t2start") => Grouped' \subseteq Grouped
    PROVE  StartsCalm'
<1> HIDE DEF Starting, Grouped
<1> SUFFICES ASSUME NEW n \in DOMAIN inbox', NEW u \in Trains,
                    inbox'[n].op = "t2start", inbox'[n].train = u
             PROVE  StartCalm(u, n)'
    BY DEF StartsCalm
<1>1. n \in Nat \ {0} /\ n + k \in DOMAIN inbox /\ inbox'[n] = inbox[n + k] /\ n + k > k
    BY DEF Moves
<1>2. Untouched(u) /\ (\A f \in F : f.train # u) /\ Grouped' \subseteq Grouped
    BY <1>1 DEF NotCalled
<1>3. conductors[u].tid /\ u \notin Grouped /\ Calm(u, n + k)
    BY <1>1 DEF StartsCalm, StartCalm
<1>4. conductors'[u].tid /\ u \notin Grouped'
    BY <1>2, <1>3 DEF Untouched
<1>5. (n + k) - k = n
    BY <1>1
<1>6. Calm(u, n)'
    BY <1>1, <1>2, <1>3, <1>5, CalmKept
<1> QED BY <1>4, <1>6 DEF StartCalm

LEMMA GroupsKept ==
    ASSUME GroupsCalm, NEW k \in {0, 1}, NEW F, Moves(k, F), NEW t, NotCalled(t, k),
           \A f \in F : f.op # "group" /\ NotCalled(f.train, k),
           \A u \in Trains : u # t => Untouched(u)
    PROVE  GroupsCalm'
<1> HIDE DEF Starting, MembersOf
<1> SUFFICES ASSUME NEW n \in DOMAIN inbox', NEW u \in Trains,
                    inbox'[n].op = "group", u \in MembersOf(inbox'[n].arg)
             PROVE  Calm(u, n)'
    BY DEF GroupsCalm
<1>1. n \in Nat \ {0} /\ n + k \in DOMAIN inbox /\ inbox'[n] = inbox[n + k] /\ n + k > k
    BY DEF Moves
<1>2. Untouched(u) /\ \A f \in F : f.train # u
    BY <1>1 DEF NotCalled
<1>3. Calm(u, n + k)
    BY <1>1 DEF GroupsCalm
<1>4. (n + k) - k = n
    BY <1>1
<1> QED BY <1>1, <1>2, <1>3, <1>4, CalmKept

\* The message of a demo task that waits in Send stays, before any report.
LEMMA DemoFirstKept ==
    ASSUME NEW k \in {0, 1}, NEW F, Moves(k, F), NEW u \in Trains,
           demo'[u] = demo[u], DemoFirst(u), DemoOnce(u),
           \A f \in F : f.train = u => f.from # "demo",
           k = 1 /\ 1 \in DOMAIN inbox /\ inbox[1].train = u => inbox[1].from # "demo"
    PROVE  DemoFirst(u)' /\ DemoOnce(u)'
<1>1. ASSUME demo'[u] = "sending"
      PROVE  \E n \in DOMAIN inbox' :
                /\ inbox'[n].from = "demo" /\ inbox'[n].train = u
                /\ \A m \in DOMAIN inbox' : inbox'[m].op = "ready" /\ inbox'[m].train = u => n < m
  <2>1. PICK n \in DOMAIN inbox :
            /\ inbox[n].from = "demo" /\ inbox[n].train = u
            /\ \A m \in DOMAIN inbox : inbox[m].op = "ready" /\ inbox[m].train = u => n < m
      BY <1>1 DEF DemoFirst
  <2>2. n \in Nat \ {0} /\ n > k
    <3>1. n \in Nat \ {0}
        BY DEF Moves
    <3>2. k = 1 => n # 1
        BY <2>1
    <3> QED BY <3>1, <3>2
  <2>3. n - k \in DOMAIN inbox' /\ inbox'[n - k] = inbox[n] /\ n - k \in Nat
      BY <2>2 DEF Moves
  <2>4. ASSUME NEW m \in DOMAIN inbox', inbox'[m].op = "ready", inbox'[m].train = u
        PROVE  n - k < m
    <3>1. m \in Nat
        BY DEF Moves
    <3>2. CASE m + k \in DOMAIN inbox /\ inbox'[m] = inbox[m + k]
      <4>1. n < m + k
          BY <2>1, <2>4, <3>2
      <4> QED BY <2>2, <3>1, <4>1
    <3>3. CASE inbox'[m] \in F /\ \A i \in DOMAIN inbox' : i <= m
      <4>1. n - k <= m
          BY <2>3, <3>3
      <4>2. n - k # m
          BY <2>1, <2>3, <2>4, <3>3
      <4> QED BY <2>3, <3>1, <4>1, <4>2
    <3> QED BY <3>2, <3>3 DEF Moves
  <2> QED BY <2>1, <2>3, <2>4
<1>2. ASSUME NEW n \in DOMAIN inbox', inbox'[n].from = "demo", inbox'[n].train = u
      PROVE  /\ n \in Nat /\ n + k \in DOMAIN inbox /\ inbox'[n] = inbox[n + k]
             /\ demo'[u] = "sending"
    BY <1>2 DEF Moves, DemoOnce
<1>3. ASSUME NEW n \in DOMAIN inbox', inbox'[n].from = "demo", inbox'[n].train = u,
             NEW m \in DOMAIN inbox', inbox'[m].from = "demo", inbox'[m].train = u
      PROVE  m = n
  <2>1. /\ n \in Nat /\ n + k \in DOMAIN inbox /\ inbox'[n] = inbox[n + k]
        /\ m \in Nat /\ m + k \in DOMAIN inbox /\ inbox'[m] = inbox[m + k]
      BY <1>2, <1>3
  <2>2. m + k = n + k
      BY <1>3, <2>1 DEF DemoOnce
  <2> QED BY <2>1, <2>2
<1>4. DemoFirst(u)'
    BY <1>1 DEF DemoFirst
<1>5. DemoOnce(u)'
    BY <1>2, <1>3 DEF DemoOnce
<1> QED BY <1>4, <1>5

\* A train the step is not about.
LEMMA DemoKept ==
    ASSUME NEW k \in {0, 1}, NEW F, Moves(k, F), NEW u \in Trains, Untouched(u), DemoCare(u),
           \A f \in F : f.train = u => f.from # "demo",
           k = 1 /\ 1 \in DOMAIN inbox /\ inbox[1].train = u => inbox[1].from # "demo"
    PROVE  DemoCare(u)'
<1> HIDE DEF Starting
<1>1. DemoTrue(u)'
    BY DEF Untouched, DemoCare, DemoTrue
<1>2. DemoAnswered(u)'
    BY DEF Untouched, DemoCare, DemoAnswered
<1>3. DemoFirst(u)' /\ DemoOnce(u)'
    BY DemoFirstKept DEF Untouched, DemoCare
<1> QED BY <1>1, <1>2, <1>3 DEF DemoCare

\* A demo task that is let go: its message is the only one, and no report is on the way.
LEMMA DemoStarts ==
    ASSUME NEW k \in {0, 1}, NEW t \in Trains, NEW m, DemoMail(m, t), Moves(k, {m}),
           \E n \in DOMAIN inbox' : inbox'[n] = m,
           demo[t] # "sending", DemoOnce(t), demo'[t] = "sending",
           \A n \in DOMAIN inbox' : inbox'[n].op = "ready" => inbox'[n].train # t
    PROVE  DemoFirst(t)' /\ DemoOnce(t)'
<1>1. DemoFirst(t)'
    BY DEF DemoFirst, DemoMail
<1>2. ASSUME NEW n \in DOMAIN inbox', inbox'[n].from = "demo", inbox'[n].train = t
      PROVE  n \in Nat /\ \A i \in DOMAIN inbox' : i <= n
    BY <1>2 DEF Moves, DemoOnce
<1>3. DemoOnce(t)'
  <2>1. ASSUME NEW n \in DOMAIN inbox', inbox'[n].from = "demo", inbox'[n].train = t,
               NEW i \in DOMAIN inbox', inbox'[i].from = "demo", inbox'[i].train = t
        PROVE  i = n
    <3>1. n \in Nat /\ i \in Nat /\ i <= n /\ n <= i
        BY <1>2, <2>1
    <3> QED BY <3>1
  <2> QED BY <2>1 DEF DemoOnce
<1> QED BY <1>1, <1>3

\* Who has not been asked for.
LEMMA NobodyNotAsked ==
    ASSUME Types, NEW k \in {0, 1}
    PROVE  NotAsked(NoTrain, k)
<1>1. NoTrain \notin Trains
    BY DispatcherAssumption
<1>2. \A n \in DOMAIN inbox : inbox[n] \in Message
    BY DEF Types
<1>3. \A n \in DOMAIN inbox : inbox[n].op = "group" => MembersOf(inbox[n].arg) \subseteq Trains
    BY <1>2, MessageParts, OrderIsSequence, MembersOfOrder
<1>4. \A n \in DOMAIN inbox :
          inbox[n].op \in {"t2start", "t2stop"} => inbox[n].train \in Trains
    BY <1>2, MessageParts
<1> QED BY <1>1, <1>3, <1>4 DEF NotAsked, NotCalled

LEMMA StartingNotAsked ==
    ASSUME CareTaken, NEW t \in Trains, Starting(t)
    PROVE  NotAsked(t, 0)
<1> HIDE DEF Starting, MembersOf
<1> QED BY DEF CareTaken, StopsCalm, StopCalm, StartsCalm, StartCalm, GroupsCalm, Calm,
               NotAsked, NotCalled

LEMMA HeadNotAsked ==
    ASSUME Types, CareTaken, inbox # << >>, NEW t \in Trains, inbox[1].train = t
    PROVE  NotAsked(t, 1)
<1> HIDE DEF Starting, MembersOf
<1>1. 1 \in DOMAIN inbox
    BY Shrinks DEF Types
<1>2. \A n \in DOMAIN inbox : n > 1 => 1 < n /\ 1 # n
    BY DEF Types
<1> QED BY <1>1, <1>2 DEF CareTaken, StopsCalm, StopCalm, StartsCalm, StartCalm, GroupsCalm,
                          Calm, NotAsked, NotCalled

LEMMA BusyNotCalled ==
    ASSUME CareTaken, NEW t \in Trains, TrainTrue(t), stage[t] \notin {"none", "receive"}
    PROVE  NotCalled(t, 0)
<1> HIDE DEF Starting, MembersOf, IsAutoCmd
<1>1. ASSUME NEW n, Calm(t, n)
      PROVE  FALSE
    BY <1>1 DEF Calm, TrainTrue
<1> QED BY <1>1 DEF CareTaken, StartsCalm, StartCalm, GroupsCalm, NotCalled

\* What the user interface has sent is known to the dispatcher, or still true.
LEMMA KnownKept ==
    ASSUME GroupCommandsKnown, NEW k \in {0, 1}, NEW F, Moves(k, F),
           \A f \in F : f.op # "groupcommand",
           doing'.op = "ungroup" => UNCHANGED doing,
           DOMAIN groups \subseteq DOMAIN groups'
    PROVE  GroupCommandsKnown'
BY DEF GroupCommandsKnown, Moves

\* A step about one train, with messages that are no requests.
LEMMA CareFrame ==
    ASSUME Types, CareTaken, NEW k \in {0, 1}, NEW F, Moves(k, F), NEW t, NotAsked(t, k),
           \A f \in F : /\ f.op \notin {"t2start", "t2stop", "group"}
                        /\ NotCalled(f.train, k)
                        /\ f.from = "demo" => f.train = t,
           k = 1 => inbox[1].train = t,
           \A u \in Trains : u # t => Untouched(u),
           (\E n \in DOMAIN inbox : n > k /\ inbox[n].op = "t2start") => Grouped' \subseteq Grouped,
           t \in Trains => DemoCare(t)',
           failed' = "no", SunsetsCalm', GroupCommandsKnown'
    PROVE  CareTaken'
<1> HIDE DEF Starting, Grouped, MembersOf
<1>1. NotCalled(t, k)
    BY DEF NotAsked
<1>2. StopsCalm'
    BY StopsKept DEF CareTaken
<1>3. StartsCalm'
    BY <1>1, StartsKept DEF CareTaken
<1>4. GroupsCalm'
    BY <1>1, GroupsKept DEF CareTaken
<1>5. ASSUME NEW u \in Trains, u # t
      PROVE  DemoCare(u)'
    BY <1>5, DemoKept DEF CareTaken
<1> QED BY <1>2, <1>3, <1>4, <1>5 DEF CareTaken

\* The user: its message is its only one.
LEMMA EnterCare ==
    ASSUME Drivers, CareTaken, NEW op, NEW t, NEW arg, Enter(op, t, arg), NEW m \in Message,
           m = [from |-> "ui", op |-> op, train |-> t, arg |-> arg],
           op = "t2stop" => OnTheWay(t) = {} /\ ~ Starting(t),
           op = "t2start" => conductors[t].tid /\ Quiet(t),
           op = "group" => \A u \in MembersOf(arg) : Quiet(u),
           op = "groupcommand" => doing.op # "ungroup" /\ arg \in DOMAIN groups
    PROVE  CareTaken'
<1> USE DEF Drivers
<1> HIDE DEF Starting, Grouped, MembersOf
<1>1. /\ inbox' = Append(inbox, m)
      /\ failed = "no"
      /\ UNCHANGED <<doing, conductors, demo, groups, failed>>
      /\ \A n \in DOMAIN inbox : inbox[n].from # "ui"
      /\ m.from = "ui" /\ m.op = op /\ m.train = t /\ m.arg = arg
    BY DEF Enter, Mail, OneRequest
<1>2. Moves(0, {m})
    BY <1>1, AppendMoves
<1>3. /\ \A u : Starting(u)' <=> Starting(u)
      /\ Grouped' = Grouped
    BY <1>1 DEF Starting, Grouped, Members
<1>4. \A u \in Trains : Untouched(u)
    BY <1>1, <1>3 DEF Untouched
<1>5. ASSUME NEW n \in DOMAIN inbox',
             inbox'[n].op \in {"t2start", "t2stop", "group", "groupcommand"}
      PROVE  /\ inbox'[n] = m /\ n \in Nat
             /\ \A i \in DOMAIN inbox' : i # n => i \in DOMAIN inbox /\ inbox'[i] = inbox[i]
  <2>1. n \notin DOMAIN inbox \/ inbox'[n] # inbox[n]
    <3>1. \A i \in DOMAIN inbox : inbox[i] \in Message
        BY DEF Types
    <3> QED BY <1>1, <1>5, <3>1, MessageParts
  <2> QED BY <1>1, <2>1, Grows DEF Types
<1>6. \A u : OnTheWay(u) = {} => \A i \in DOMAIN inbox : inbox[i].train # u
    BY DEF OnTheWay
<1>7. StopsCalm'
  <2> SUFFICES ASSUME NEW n \in DOMAIN inbox', NEW u \in Trains,
                      inbox'[n].op = "t2stop", inbox'[n].train = u
               PROVE  StopCalm(u, n)'
      BY DEF StopsCalm
  <2>1. inbox'[n] = m /\ u = t /\ op = "t2stop"
      BY <1>1, <1>5
  <2>2. \A i \in DOMAIN inbox : inbox[i].train # u
      BY <1>6, <2>1
  <2>3. demo[u] # "sending"
      BY <2>2 DEF CareTaken, DemoCare, DemoFirst
  <2>4. ~ Starting(u)'
      BY <1>3, <2>1
  <2>5. \A i \in DOMAIN inbox' : i < n => inbox'[i].train # u
      BY <1>5, <2>2
  <2> QED BY <1>1, <2>3, <2>4, <2>5 DEF StopCalm
<1>8. ASSUME NEW n \in DOMAIN inbox', NEW u \in Trains, Quiet(u),
             inbox'[n].op \in {"t2start", "group"}
      PROVE  Calm(u, n)'
  <2>1. \A i \in DOMAIN inbox' : i # n => inbox'[i].train # u
      BY <1>5, <1>6, <1>8 DEF Quiet
  <2> QED BY <1>1, <1>3, <1>8, <2>1 DEF Calm, Quiet
<1>9. StartsCalm'
  <2> SUFFICES ASSUME NEW n \in DOMAIN inbox', NEW u \in Trains,
                      inbox'[n].op = "t2start", inbox'[n].train = u
               PROVE  StartCalm(u, n)'
      BY DEF StartsCalm
  <2>1. u = t /\ op = "t2start"
      BY <1>1, <1>5
  <2> QED BY <1>1, <1>3, <1>8, <2>1 DEF StartCalm, Quiet
<1>10. GroupsCalm'
  <2> SUFFICES ASSUME NEW n \in DOMAIN inbox', NEW u \in Trains,
                      inbox'[n].op = "group", u \in MembersOf(inbox'[n].arg)
               PROVE  Calm(u, n)'
      BY DEF GroupsCalm
  <2>1. inbox'[n] = m
      BY <1>5
  <2>2. op = "group" /\ u \in MembersOf(arg)
      BY <1>1, <2>1
  <2> QED BY <1>8, <2>2
<1>11. GroupCommandsKnown'
    BY <1>1, <1>5 DEF GroupCommandsKnown
<1>12. SunsetsCalm'
    BY <1>1 DEF SunsetsCalm, CareTaken
<1>13. \A u \in Trains : DemoCare(u)'
    BY <1>1, <1>2, <1>4, DemoKept DEF CareTaken
<1> QED BY <1>1, <1>7, <1>9, <1>10, <1>11, <1>12, <1>13 DEF CareTaken

LEMMA UserCare ==
    ASSUME Drivers, careful, CareTaken, UserStep
    PROVE  CareTaken'
<1> USE DEF Drivers
<1> HIDE DEF Starting, Grouped, MembersOf
<1>1. ASSUME NEW t \in Driven, NEW c \in Commands, EnterCommand(t, c)
      PROVE  CareTaken'
  <2>1. [from |-> "ui", op |-> "command", train |-> t, arg |-> c] \in Message
      BY DispatcherAssumption DEF Message
  <2> QED BY <1>1, <2>1, EnterCare DEF EnterCommand
<1>2. ASSUME NEW t \in Driven, EnterT2Start(t)
      PROVE  CareTaken'
  <2>1. [from |-> "ui", op |-> "t2start", train |-> t, arg |-> NoCommand] \in Message
      BY DispatcherAssumption DEF Message
  <2> QED BY <1>2, <2>1, EnterCare DEF EnterT2Start
<1>3. ASSUME NEW t \in Driven, EnterT2Stop(t)
      PROVE  CareTaken'
  <2>1. [from |-> "ui", op |-> "t2stop", train |-> t, arg |-> NoCommand] \in Message
      BY DispatcherAssumption DEF Message
  <2> QED BY <1>3, <2>1, EnterCare DEF EnterT2Stop
<1>4. ASSUME NEW members \in Orders, EnterGroup(members)
      PROVE  CareTaken'
  <2>1. [from |-> "ui", op |-> "group", train |-> NoTrain, arg |-> members] \in Message
      BY DEF Message
  <2>2. \A u \in MembersOf(members) : Quiet(u)
      BY <1>4 DEF EnterGroup, MembersOf
  <2> HIDE DEF MayName
  <2> QED BY <1>4, <2>1, <2>2, EnterCare DEF EnterGroup
<1>5. ASSUME NEW k \in DOMAIN groups, EnterUngroup(k) \/ EnterGroupCommand(k)
      PROVE  CareTaken'
  <2>1. k \in Nat /\ groups[k].members \in Orders
    <3>1. k \in Nat /\ groups[k] \in Group
        BY DEF Types
    <3> QED BY <3>1 DEF Group
  <2>2. /\ [from |-> "ui", op |-> "ungroup", train |-> NoTrain,
            arg |-> groups[k].members] \in Message
        /\ [from |-> "ui", op |-> "groupcommand", train |-> NoTrain, arg |-> k] \in Message
      BY <2>1 DEF Message
  <2>3. CASE EnterUngroup(k)
      BY <2>2, <2>3, EnterCare DEF EnterUngroup
  <2>4. CASE EnterGroupCommand(k)
      BY <2>2, <2>4, EnterCare DEF EnterGroupCommand
  <2> QED BY <1>5, <2>3, <2>4
<1>6. ASSUME NEW ts \in SUBSET Trains, EnterSetTrains(ts)
      PROVE  CareTaken'
  <2>1. [from |-> "ui", op |-> "set", train |-> NoTrain, arg |-> ts] \in Message
      BY DEF Message
  <2> HIDE DEF MayName
  <2> QED BY <1>6, <2>1, EnterCare DEF EnterSetTrains
<1> QED BY <1>1, <1>2, <1>3, <1>4, <1>5, <1>6 DEF UserStep

LEMMA WorksCare ==
    ASSUME Types, Stages, mixed = {}, CareTaken, NEW t \in Trains, Works(t)
    PROVE  CareTaken'
<1> HIDE DEF Starting, Grouped, MembersOf
<1>1. /\ stage[t] \in {"working", "routing", "arrived"}
      /\ failed = "no"
      /\ UNCHANGED <<doing, conductors, demo, groups, failed>>
    BY DEF Works, Routes, Arrives, Reports, Conducts
<1>2. /\ \A u : Starting(u)' <=> Starting(u)
      /\ Grouped' = Grouped
    BY <1>1 DEF Starting, Grouped, Members
<1>3. \A u \in Trains : Untouched(u)
    BY <1>1, <1>2 DEF Untouched
<1>4. NotCalled(t, 0)
    BY <1>1, BusyNotCalled DEF Stages
<1>5. NotAsked(NoTrain, 0) /\ NoTrain \notin Trains
    BY NobodyNotAsked, DispatcherAssumption
<1>6. SunsetsCalm'
    BY <1>1 DEF SunsetsCalm, CareTaken
<1>7. CASE UNCHANGED inbox
  <2>1. Moves(0, {})
      BY <1>7, StillMoves
  <2>2. GroupCommandsKnown'
      BY <1>1, <2>1, KnownKept DEF CareTaken
  <2> QED BY <1>1, <1>2, <1>3, <1>5, <1>6, <2>1, <2>2, CareFrame
<1>8. CASE Reports(t)
  <2> DEFINE m == [from |-> "conductor", op |-> "ready", train |-> t, arg |-> NoCommand]
  <2>1. /\ m \in Message /\ m.train = t /\ m.op = "ready" /\ m.from = "conductor"
        /\ inbox' = Append(inbox, m)
      BY <1>8 DEF Reports, Mail, Message
  <2> HIDE DEF m
  <2>2. Moves(0, {m})
      BY <2>1, AppendMoves
  <2>3. GroupCommandsKnown'
      BY <1>1, <2>1, <2>2, KnownKept DEF CareTaken
  <2> QED BY <1>1, <1>2, <1>3, <1>4, <1>5, <1>6, <2>1, <2>2, <2>3, CareFrame
<1> QED BY <1>7, <1>8 DEF Works, Routes, Arrives

\* A step of the dispatcher that changes neither conductors nor demo tasks.
LEMMA PassiveCare ==
    ASSUME Types, CareTaken, NEW k \in {0, 1}, Moves(k, {}),
           k = 1 => inbox[1].train = NoTrain,
           UNCHANGED <<conductors, demo, failed>>,
           \A u : Starting(u)' => Starting(u) /\ UNCHANGED doing,
           (\E n \in DOMAIN inbox : n > k /\ inbox[n].op = "t2start") => Grouped' \subseteq Grouped,
           SunsetsCalm', GroupCommandsKnown'
    PROVE  CareTaken'
<1> HIDE DEF Starting, Grouped, MembersOf
<1>1. \A u \in Trains : Untouched(u)
    BY DEF Untouched
<1>2. failed' = "no"
    BY DEF CareTaken
<1>3. NotAsked(NoTrain, k) /\ NoTrain \notin Trains
    BY NobodyNotAsked, DispatcherAssumption
<1> QED BY <1>1, <1>2, <1>3, CareFrame

LEMMA HandleCommandCare ==
    ASSUME Types, CareTaken, HandleCommand
    PROVE  CareTaken'
<1> HIDE DEF Starting, Grouped, MembersOf, IsAutoCmd
<1>1. PICK m \in Message : m = inbox[1]
    BY ReceivesParts DEF HandleCommand
<1>2. /\ inbox # << >> /\ inbox' = Tail(inbox) /\ 1 \in DOMAIN inbox
      /\ failed = "no" /\ doing = NotBusy /\ UNCHANGED <<groups, failed>>
      /\ m = Head(inbox) /\ m.train \in Trains /\ m.arg \in Commands
    BY <1>1, ReceivesParts, MessageParts DEF HandleCommand
<1>3. PICK t \in Trains : t = m.train
    BY <1>2
<1>4. PICK c \in Conductor : c = conductors[t]
    BY DEF Types
<1>5. /\ demo' = IF m.from = "demo" THEN [demo EXCEPT ![t] = "awaiting"] ELSE demo
      /\ \/ UNCHANGED <<doing, conductors>>
         \/ /\ conductors' = [conductors EXCEPT ![t] = Store(c, m.arg)]
            /\ doing' \in {NotBusy, [op |-> "start", train |-> t, ready |-> FALSE]}
    BY <1>2, <1>3, <1>4 DEF HandleCommand
<1>6. /\ \A u \in Trains : u # t => conductors'[u] = conductors[u] /\ demo'[u] = demo[u]
      /\ conductors'[t].tid = c.tid /\ conductors'[t].t2 = c.t2
  <2>1. Store(c, m.arg) \in Conductor /\ SameFlags(c, Store(c, m.arg))
      BY <1>2, StoreParts
  <2> QED BY <1>4, <1>5, <2>1 DEF SameFlags, Types
<1>7. /\ doing'.op \in {"receive", "start"} /\ ~ (doing'.op = "start" /\ doing'.ready)
      /\ \A u \in Trains : u # t => ~ Starting(u)'
    BY <1>2, <1>5 DEF Starting, NotBusy
<1>8. \A u \in Trains : u # t => Untouched(u)
    BY <1>6, <1>7 DEF Untouched
<1>9. Moves(1, {}) /\ NotAsked(t, 1)
    BY <1>1, <1>2, <1>3, TailMoves, HeadNotAsked
<1>10. DemoTrue(t) /\ DemoFirst(t) /\ DemoOnce(t)
    BY DEF CareTaken, DemoCare
<1>11. DemoAnswered(t)'
    BY <1>7 DEF DemoAnswered, Starting
<1>12. DemoCare(t)'
  <2>1. CASE m.from = "demo"
    <3>1. /\ demo[t] = "sending"
          /\ \A n \in DOMAIN inbox : n # 1 => ~ (inbox[n].from = "demo" /\ inbox[n].train = t)
        BY <1>1, <1>2, <1>3, <1>10, <2>1 DEF DemoOnce
    <3>2. demo'[t] = "awaiting"
        BY <1>5, <2>1 DEF Types
    <3>3. DemoTrue(t)'
        BY <1>4, <1>6, <1>10, <3>1, <3>2 DEF DemoTrue
    <3>4. \A n \in DOMAIN inbox' : ~ (inbox'[n].from = "demo" /\ inbox'[n].train = t)
      <4> SUFFICES ASSUME NEW n \in DOMAIN inbox'
                   PROVE  ~ (inbox'[n].from = "demo" /\ inbox'[n].train = t)
          OBVIOUS
      <4>1. n \in Nat \ {0} /\ n + 1 \in DOMAIN inbox /\ inbox'[n] = inbox[n + 1]
          BY <1>9 DEF Moves
      <4>2. n + 1 # 1
          BY <4>1
      <4> QED BY <3>1, <4>1, <4>2
    <3>5. DemoFirst(t)' /\ DemoOnce(t)'
        BY <3>2, <3>4 DEF DemoFirst, DemoOnce
    <3> QED BY <1>11, <3>3, <3>5 DEF DemoCare
  <2>2. CASE m.from # "demo"
    <3>1. demo' = demo
        BY <1>5, <2>2
    <3>2. DemoTrue(t)'
        BY <1>4, <1>6, <1>10, <3>1 DEF DemoTrue
    <3>3. DemoFirst(t)' /\ DemoOnce(t)'
        BY <1>1, <1>9, <1>10, <2>2, <3>1, DemoFirstKept
    <3> QED BY <1>11, <3>2, <3>3 DEF DemoCare
  <2> QED BY <2>1, <2>2
<1>13. SunsetsCalm'
    BY <1>7 DEF SunsetsCalm
<1>14. GroupCommandsKnown'
    BY <1>2, <1>7, <1>9, KnownKept DEF CareTaken
<1>15. Grouped' \subseteq Grouped
    BY <1>2, <1>7 DEF Grouped, Members
<1>16. failed' = "no" /\ inbox[1].train = t
    BY <1>1, <1>2, <1>3
<1> QED BY <1>8, <1>9, <1>12, <1>13, <1>14, <1>15, <1>16, CareFrame

\* The end of the handler of MESSAGE_READY, for a demo task that has its answer.
LEMMA LetDemoGoCare ==
    ASSUME Types, CareTaken, NEW t \in Trains, NEW c \in Conductor, NEW rest \in Seq(Message),
           LetDemoGo(t, c, rest),
           c.tid = conductors[t].tid, c.t2 = conductors[t].t2,
           demo[t] # "sending", ReportsTrue', mixed' = {}, stage'[t] # "reporting",
           doing'.op # "start", NEW k \in {0, 1},
           \/ k = 0 /\ rest = inbox
           \/ k = 1 /\ rest = Tail(inbox) /\ inbox # << >> /\ inbox[1].from # "demo"
    PROVE  /\ DemoCare(t)' /\ failed' = "no"
           /\ \E F : /\ Moves(k, F)
                     /\ \A f \in F : f.op = "command" /\ f.train = t
           /\ \A u \in Trains : u # t => conductors'[u] = conductors[u] /\ demo'[u] = demo[u]
<1> HIDE DEF Starting, Grouped, MembersOf
<1>1. DemoTrue(t) /\ DemoFirst(t) /\ DemoOnce(t) /\ failed = "no"
    BY DEF CareTaken, DemoCare
<1>2. /\ conductors' = [conductors EXCEPT ![t] = ForgetDestination(c)]
      /\ \/ ~ c.t2 /\ inbox' = rest /\ UNCHANGED <<demo, failed>>
         \/ demo[t] = "awaiting" /\ c.t2 /\ LetsDemoGo(t, rest)
    BY <1>1, LetDemoGoParts DEF DemoTrue
<1>3. /\ conductors'[t].tid = conductors[t].tid /\ conductors'[t].t2 = conductors[t].t2
      /\ \A u \in Trains : u # t => conductors'[u] = conductors[u]
    BY <1>2, ForgetParts DEF Types
<1>4. DemoAnswered(t)'
    BY DEF DemoAnswered, Starting
<1>5. CASE ~ c.t2 /\ inbox' = rest /\ UNCHANGED <<demo, failed>>
  <2>1. Moves(k, {})
    <3>1. CASE k = 0
        BY <1>5, <3>1, StillMoves
    <3>2. CASE k = 1
        BY <1>5, <3>2, TailMoves
    <3> QED BY <3>1, <3>2
  <2>2. DemoFirst(t)' /\ DemoOnce(t)'
      BY <1>1, <1>5, <2>1, DemoFirstKept
  <2>3. DemoTrue(t)'
      BY <1>1, <1>3, <1>5 DEF DemoTrue
  <2> QED BY <1>1, <1>3, <1>4, <1>5, <2>1, <2>2, <2>3 DEF DemoCare
<1>6. CASE demo[t] = "awaiting" /\ c.t2 /\ LetsDemoGo(t, rest)
  <2>1. PICK m : DemoMail(m, t) /\ inbox' = Append(rest, m)
      BY <1>6 DEF LetsDemoGo
  <2>2. /\ m \in Message /\ m.op = "command" /\ m.train = t
        /\ \E n \in DOMAIN inbox' : inbox'[n] = m
      BY <2>1, MessageParts, Grows DEF DemoMail
  <2>3. Moves(k, {m})
    <3>1. CASE k = 0
        BY <2>1, <2>2, <3>1, AppendMoves
    <3>2. CASE k = 1
        BY <2>1, <2>2, <3>2, PassMoves
    <3> QED BY <3>1, <3>2
  <2>4. demo'[t] = "sending" /\ failed' = "no"
        /\ \A u \in Trains : u # t => demo'[u] = demo[u]
      BY <1>1, <1>6 DEF LetsDemoGo, Types
  <2>5. \A n \in DOMAIN inbox' : inbox'[n].op = "ready" => inbox'[n].train # t
      BY DEF ReportsTrue
  <2>6. DemoFirst(t)' /\ DemoOnce(t)'
      BY <1>1, <2>1, <2>2, <2>3, <2>4, <2>5, DemoStarts
  <2>7. DemoTrue(t)'
      BY <1>1, <1>3, <1>6, <2>4 DEF DemoTrue
  <2> QED BY <1>3, <1>4, <2>2, <2>3, <2>4, <2>6, <2>7 DEF DemoCare
<1> QED BY <1>2, <1>5, <1>6

LEMMA HandleReadyCare ==
    ASSUME Types, Types', Stages, Stages', mixed = {}, mixed' = {}, CareTaken, HandleReady
    PROVE  CareTaken'
<1> HIDE DEF Starting, Grouped, MembersOf
<1>1. PICK m \in Message : m = inbox[1]
    BY ReceivesParts DEF HandleReady
<1>2. /\ inbox # << >> /\ 1 \in DOMAIN inbox /\ Tail(inbox) \in Seq(Message)
      /\ failed = "no" /\ doing = NotBusy /\ groups' = groups
      /\ m = Head(inbox) /\ m.train \in Trains /\ m.op = "ready"
    BY <1>1, ReceivesParts, MessageParts DEF HandleReady
<1>3. PICK t \in Trains : t = m.train
    BY <1>2
<1>4. PICK c \in Conductor : c = conductors[t]
    BY DEF Types
<1>5. m.from = "conductor" /\ ~ (replaced[t].reporting > 0)
  <2>1. m.from = "conductor"
      BY <1>1, <1>2 DEF Stages, ReportsTrue
  <2> HIDE DEF Starting, IsAutoCmd
  <2>2. replaced[t].reporting = 0
      BY DEF Stages, TrainTrue, NoneReplaced
  <2> QED BY <2>1, <2>2
<1>6. /\ stage' = [stage EXCEPT ![t] = "receive"]
      /\ \/ /\ doing' = [op |-> "start", train |-> t, ready |-> TRUE]
            /\ inbox' = Tail(inbox) /\ UNCHANGED <<conductors, demo, failed>>
         \/ LetDemoGo(t, Idle(c), Tail(inbox)) /\ UNCHANGED doing
    BY <1>5, <1>2, <1>3, <1>4 DEF HandleReady
<1>7. DemoCare(t) /\ NotAsked(t, 1)
    BY <1>1, <1>2, <1>3, HeadNotAsked DEF CareTaken
<1>8. demo[t] # "sending"
  <2>1. ASSUME demo[t] = "sending"
        PROVE  \E n \in DOMAIN inbox : n < 1
      BY <1>1, <1>2, <1>3, <1>7, <2>1 DEF DemoCare, DemoFirst
  <2>2. \A n \in DOMAIN inbox : ~ (n < 1)
      BY DEF Types
  <2> QED BY <2>1, <2>2
<1>9. /\ doing'.op \in {"receive", "start"}
      /\ \A u \in Trains : u # t => ~ Starting(u)'
    BY <1>2, <1>6 DEF Starting, NotBusy
<1>10. SunsetsCalm' /\ Grouped' \subseteq Grouped
    BY <1>2, <1>9 DEF SunsetsCalm, Grouped, Members
<1>11. \E F : /\ Moves(1, F)
              /\ \A f \in F : f.op = "command" /\ f.train = t
              /\ DemoCare(t)' /\ failed' = "no"
              /\ \A u \in Trains : u # t => conductors'[u] = conductors[u] /\ demo'[u] = demo[u]
  <2>1. CASE /\ doing' = [op |-> "start", train |-> t, ready |-> TRUE]
             /\ inbox' = Tail(inbox) /\ UNCHANGED <<conductors, demo, failed>>
    <3>1. Moves(1, {})
        BY <1>2, <2>1, TailMoves
    <3>2. DemoFirst(t)' /\ DemoOnce(t)'
        BY <1>5, <1>1, <1>2, <1>7, <2>1, <3>1, DemoFirstKept DEF DemoCare
    <3>3. DemoTrue(t)' /\ DemoAnswered(t)'
        BY <1>7, <1>8, <2>1 DEF DemoCare, DemoTrue, DemoAnswered
    <3> QED BY <1>2, <2>1, <3>1, <3>2, <3>3 DEF DemoCare
  <2>2. CASE LetDemoGo(t, Idle(c), Tail(inbox)) /\ UNCHANGED doing
    <3>1. /\ Idle(c) \in Conductor /\ Idle(c).tid = conductors[t].tid
          /\ Idle(c).t2 = conductors[t].t2
        BY <1>4, ForgetParts
    <3>2. ReportsTrue' /\ stage'[t] # "reporting" /\ doing'.op # "start"
        BY <1>2, <1>6, <2>2 DEF Types, Stages, NotBusy
    <3>3. inbox[1].from # "demo"
        BY <1>5, <1>1
    <3>4. /\ DemoCare(t)' /\ failed' = "no"
          /\ \E F : Moves(1, F) /\ \A f \in F : f.op = "command" /\ f.train = t
          /\ \A u \in Trains : u # t => conductors'[u] = conductors[u] /\ demo'[u] = demo[u]
        BY <1>2, <1>8, <2>2, <3>1, <3>2, <3>3, LetDemoGoCare
    <3> QED BY <3>4
  <2> QED BY <1>6, <2>1, <2>2
<1>12. PICK F : /\ Moves(1, F)
                /\ \A f \in F : f.op = "command" /\ f.train = t
                /\ DemoCare(t)' /\ failed' = "no"
                /\ \A u \in Trains : u # t => conductors'[u] = conductors[u] /\ demo'[u] = demo[u]
    BY <1>11
<1>13. GroupCommandsKnown'
    BY <1>2, <1>9, <1>12, KnownKept DEF CareTaken
<1>14. \A u \in Trains : u # t => Untouched(u)
    BY <1>9, <1>12 DEF Untouched
<1>15. NotCalled(t, 1) /\ inbox[1].train = t
    BY <1>1, <1>3, <1>7 DEF NotAsked
<1> QED BY <1>7, <1>10, <1>12, <1>13, <1>14, <1>15, CareFrame

LEMMA ConductorTakesCare ==
    ASSUME Types, Types', Stages, Stages', mixed = {}, mixed' = {}, CareTaken, ConductorTakes
    PROVE  CareTaken'
<1> HIDE DEF Starting, Grouped, MembersOf
<1>1. PICK t \in Trains : t = doing.train
    BY HandlerParts DEF ConductorTakes
<1>2. PICK c \in Conductor : c = conductors[t]
    BY DEF Types
<1>3. /\ doing.op = "start" /\ doing' = NotBusy /\ groups' = groups /\ failed = "no"
      /\ stage' = [stage EXCEPT ![t] = "working"]
      /\ \/ doing.ready /\ LetDemoGo(t, Start(c), inbox)
         \/ /\ conductors' = [conductors EXCEPT ![t] = Start(c)]
            /\ UNCHANGED <<inbox, demo, failed>>
    BY <1>1, <1>2 DEF ConductorTakes
<1>4. Starting(t) /\ \A u : ~ Starting(u)'
    BY <1>1, <1>3 DEF Starting, NotBusy
<1>5. /\ Start(c) \in Conductor /\ Start(c).tid = conductors[t].tid
      /\ Start(c).t2 = conductors[t].t2
    BY <1>2, StartParts
<1>6. DemoCare(t) /\ NotAsked(t, 0)
    BY <1>4, StartingNotAsked DEF CareTaken
<1>7. doing'.op = "receive"
    BY <1>3 DEF NotBusy
<1>8. SunsetsCalm' /\ Grouped' \subseteq Grouped
    BY <1>3, <1>7 DEF SunsetsCalm, Grouped, Members
<1>9. \E F : /\ Moves(0, F)
             /\ \A f \in F : f.op = "command" /\ f.train = t
             /\ DemoCare(t)' /\ failed' = "no"
             /\ \A u \in Trains : u # t => conductors'[u] = conductors[u] /\ demo'[u] = demo[u]
  <2>1. CASE doing.ready /\ LetDemoGo(t, Start(c), inbox)
    <3>1. demo[t] # "sending"
        BY <1>4, <1>6, <2>1 DEF DemoCare, DemoAnswered
    <3>2. ReportsTrue' /\ stage'[t] # "reporting" /\ inbox \in Seq(Message)
        BY <1>3 DEF Types, Stages
    <3> QED BY <1>5, <1>7, <2>1, <3>1, <3>2, LetDemoGoCare
  <2>2. CASE /\ conductors' = [conductors EXCEPT ![t] = Start(c)]
             /\ UNCHANGED <<inbox, demo, failed>>
    <3>1. Moves(0, {})
        BY <2>2, StillMoves
    <3>2. DemoFirst(t)' /\ DemoOnce(t)'
        BY <1>6, <2>2, <3>1, DemoFirstKept DEF DemoCare
    <3>3. conductors'[t] = Start(c)
          /\ \A u \in Trains : u # t => conductors'[u] = conductors[u]
        BY <2>2 DEF Types
    <3>4. DemoTrue(t)' /\ DemoAnswered(t)'
        BY <1>4, <1>5, <1>6, <2>2, <3>3 DEF DemoCare, DemoTrue, DemoAnswered
    <3> QED BY <1>3, <2>2, <3>1, <3>2, <3>3, <3>4 DEF DemoCare
  <2> QED BY <1>3, <2>1, <2>2
<1>10. PICK F : /\ Moves(0, F)
                /\ \A f \in F : f.op = "command" /\ f.train = t
                /\ DemoCare(t)' /\ failed' = "no"
                /\ \A u \in Trains : u # t => conductors'[u] = conductors[u] /\ demo'[u] = demo[u]
    BY <1>9
<1>11. GroupCommandsKnown'
    BY <1>3, <1>7, <1>10, KnownKept DEF CareTaken
<1>12. \A u \in Trains : u # t => Untouched(u)
    BY <1>4, <1>10 DEF Untouched
<1>13. NotCalled(t, 0)
    BY <1>6 DEF NotAsked
<1> QED BY <1>6, <1>8, <1>10, <1>11, <1>12, <1>13, CareFrame

LEMMA HandleT2StartCare ==
    ASSUME Types, Types', Stages, Stages', mixed = {}, mixed' = {}, CareTaken, HandleT2Start
    PROVE  CareTaken'
<1> HIDE DEF Starting, Grouped, MembersOf, IsAutoCmd
<1>1. PICK m \in Message : m = inbox[1]
    BY ReceivesParts DEF HandleT2Start
<1>2. /\ inbox # << >> /\ 1 \in DOMAIN inbox /\ Tail(inbox) \in Seq(Message)
      /\ failed = "no" /\ doing = NotBusy /\ UNCHANGED <<doing, stage, groups, failed>>
      /\ m = Head(inbox) /\ m.train \in Trains /\ m.op = "t2start" /\ m.from = "ui"
    BY <1>1, ReceivesParts, MessageParts DEF HandleT2Start
<1>3. PICK t \in Trains : t = m.train
    BY <1>2
<1>4. PICK c \in Conductor : c = conductors[t]
    BY DEF Types
<1>5. StartCalm(t, 1)
    BY <1>1, <1>2, <1>3 DEF CareTaken, StartsCalm
<1>6. /\ c.tid /\ ~ c.t2 /\ c.rdy /\ ~ Starting(t)
      /\ \A n \in DOMAIN inbox : n # 1 => inbox[n].train # t
    BY <1>4, <1>5 DEF StartCalm, Calm
<1>7. /\ conductors' = [conductors EXCEPT ![t].t2 = TRUE]
      /\ demo' = [demo EXCEPT ![t] = "sending"]
      /\ DemoSends(t, Tail(inbox))
    BY <1>2, <1>3, <1>4, <1>6 DEF HandleT2Start
<1>8. PICK d : DemoMail(d, t) /\ inbox' = Append(Tail(inbox), d)
    BY <1>7, DemoSendsParts
<1>9. /\ d \in Message /\ d.op = "command" /\ d.train = t /\ d.from = "demo"
      /\ \E n \in DOMAIN inbox' : inbox'[n] = d
    BY <1>2, <1>8, MessageParts, Grows DEF DemoMail
<1>10. Moves(1, {d})
    BY <1>2, <1>8, <1>9, PassMoves
<1>11. /\ conductors'[t].tid /\ conductors'[t].t2 /\ demo'[t] = "sending"
       /\ \A u \in Trains : u # t => conductors'[u] = conductors[u] /\ demo'[u] = demo[u]
    BY <1>4, <1>6, <1>7 DEF Types, Conductor
<1>12. DemoCare(t) /\ NotAsked(t, 1)
    BY <1>1, <1>2, <1>3, HeadNotAsked DEF CareTaken
<1>13. demo[t] # "sending" /\ DemoOnce(t)
    BY <1>4, <1>6, <1>12 DEF DemoCare, DemoTrue
<1>14. \A n \in DOMAIN inbox' : inbox'[n].op = "ready" => inbox'[n].train # t
  <2>1. stage'[t] = "receive"
      BY <1>2, <1>4, <1>6 DEF Stages, TrainTrue
  <2> QED BY <2>1 DEF Stages, ReportsTrue
<1>15. DemoFirst(t)' /\ DemoOnce(t)'
    BY <1>8, <1>9, <1>10, <1>11, <1>13, <1>14, DemoStarts
<1>16. /\ \A u : ~ Starting(u)'
       /\ doing'.op = "receive"
    BY <1>2 DEF Starting, NotBusy
<1>17. DemoCare(t)'
    BY <1>11, <1>15, <1>16 DEF DemoCare, DemoTrue, DemoAnswered
<1>18. SunsetsCalm' /\ Grouped' \subseteq Grouped
    BY <1>2, <1>16 DEF SunsetsCalm, Grouped, Members
<1>19. GroupCommandsKnown'
    BY <1>2, <1>9, <1>10, <1>16, KnownKept DEF CareTaken
<1>20. \A u \in Trains : u # t => Untouched(u)
    BY <1>11, <1>16 DEF Untouched
<1>21. NotCalled(t, 1) /\ failed' = "no" /\ inbox[1].train = t
    BY <1>1, <1>2, <1>3, <1>12 DEF NotAsked
<1> QED BY <1>9, <1>10, <1>12, <1>17, <1>18, <1>19, <1>20, <1>21, CareFrame

LEMMA HandleT2StopCare ==
    ASSUME Types, CareTaken, HandleT2Stop
    PROVE  CareTaken'
<1> HIDE DEF Starting, Grouped, MembersOf
<1>1. PICK m \in Message : m = inbox[1]
    BY ReceivesParts DEF HandleT2Stop
<1>2. /\ inbox # << >> /\ 1 \in DOMAIN inbox /\ inbox' = Tail(inbox)
      /\ failed = "no" /\ doing = NotBusy /\ UNCHANGED <<doing, groups, failed>>
      /\ m = Head(inbox) /\ m.train \in Trains /\ m.op = "t2stop" /\ m.from = "ui"
    BY <1>1, ReceivesParts, MessageParts DEF HandleT2Stop
<1>3. PICK t \in Trains : t = m.train
    BY <1>2
<1>4. PICK c \in Conductor : c = conductors[t]
    BY DEF Types
<1>5. demo[t] # "sending"
    BY <1>1, <1>2, <1>3 DEF CareTaken, StopsCalm, StopCalm
<1>6. DemoCare(t) /\ NotAsked(t, 1)
    BY <1>1, <1>2, <1>3, HeadNotAsked DEF CareTaken
<1>7. \/ ~ c.t2 /\ UNCHANGED <<conductors, demo>>
      \/ /\ conductors' = [conductors EXCEPT ![t] = ForgetDemo(c)]
         /\ demo' = [demo EXCEPT ![t] = "none"]
    BY <1>2, <1>3, <1>4, <1>5 DEF HandleT2Stop, Types
<1>8. /\ ~ conductors'[t].t2 /\ demo'[t] \notin {"sending", "awaiting", "killed"}
      /\ \A u \in Trains : u # t => conductors'[u] = conductors[u] /\ demo'[u] = demo[u]
  <2>1. CASE ~ c.t2 /\ UNCHANGED <<conductors, demo>>
      BY <1>4, <1>6, <2>1 DEF DemoCare, DemoTrue
  <2>2. CASE /\ conductors' = [conductors EXCEPT ![t] = ForgetDemo(c)]
             /\ demo' = [demo EXCEPT ![t] = "none"]
      BY <2>2, ForgetParts DEF Types
  <2> QED BY <1>7, <2>1, <2>2
<1>9. Moves(1, {})
    BY <1>2, TailMoves
<1>10. \A n \in DOMAIN inbox' : ~ (inbox'[n].from = "demo" /\ inbox'[n].train = t)
    BY <1>5, <1>6, <1>9 DEF Moves, DemoCare, DemoOnce
<1>11. DemoCare(t)'
    BY <1>8, <1>10 DEF DemoCare, DemoTrue, DemoFirst, DemoOnce, DemoAnswered
<1>12. /\ \A u : ~ Starting(u)'
       /\ doing'.op = "receive"
    BY <1>2 DEF Starting, NotBusy
<1>13. SunsetsCalm' /\ Grouped' \subseteq Grouped
    BY <1>2, <1>12 DEF SunsetsCalm, Grouped, Members
<1>14. GroupCommandsKnown'
    BY <1>2, <1>9, <1>12, KnownKept DEF CareTaken
<1>15. \A u \in Trains : u # t => Untouched(u)
    BY <1>8, <1>12 DEF Untouched
<1>16. failed' = "no" /\ inbox[1].train = t
    BY <1>1, <1>2, <1>3
<1> QED BY <1>6, <1>9, <1>11, <1>13, <1>14, <1>15, <1>16, CareFrame

\* The handlers of messages about groups: no other request is on the way.
LEMMA GroupRequestsCare ==
    ASSUME Drivers, CareTaken, HandleGroup \/ HandleUngroup \/ HandleGroupCommand
    PROVE  CareTaken'
<1> USE DEF Drivers
<1> HIDE DEF Starting, Grouped, MembersOf
<1>1. PICK m \in Message : m = inbox[1]
    BY ReceivesParts DEF HandleGroup, HandleUngroup, HandleGroupCommand
<1>2. /\ inbox # << >> /\ 1 \in DOMAIN inbox /\ inbox' = Tail(inbox)
      /\ failed = "no" /\ doing = NotBusy /\ UNCHANGED <<conductors, demo, groups>>
      /\ m = Head(inbox) /\ m.op \in {"group", "ungroup", "groupcommand"}
    BY <1>1, ReceivesParts DEF HandleGroup, HandleUngroup, HandleGroupCommand
<1>3. m.from = "ui" /\ m.train = NoTrain
    BY <1>2, MessageParts
<1>4. Moves(1, {})
    BY <1>2, TailMoves
<1>5. \A n \in DOMAIN inbox : n > 1 => inbox[n].op \notin {"t2start", "groupcommand"}
  <2>1. \A n \in DOMAIN inbox : n > 1 => n # 1 /\ inbox[n] \in Message
      BY DEF Types
  <2>2. \A n \in DOMAIN inbox : n > 1 => inbox[n].from # "ui"
      BY <1>1, <1>2, <1>3, <2>1 DEF OneRequest
  <2> QED BY <2>1, <2>2, MessageParts
<1>6. GroupCommandsKnown'
    BY <1>4, <1>5 DEF GroupCommandsKnown, Moves
<1>7. failed' = failed
  <2>1. CASE HandleGroup \/ HandleUngroup
      BY <2>1 DEF HandleGroup, HandleUngroup
  <2>2. CASE HandleGroupCommand
    <3>1. m.op = "groupcommand"
        BY <1>2, <2>2, ReceivesParts DEF HandleGroupCommand
    <3>2. m.arg \in DOMAIN groups
        BY <1>1, <1>2, <3>1 DEF CareTaken, GroupCommandsKnown
    <3> QED BY <1>2, <2>2, <3>2 DEF HandleGroupCommand
  <2> QED BY <2>1, <2>2
<1>8. \/ doing'.op \in {"receive", "ungroup", "groupcommand"}
      \/ m.op = "group" /\ doing'.op = "group" /\ doing'.left = m.arg
    BY <1>2 DEF HandleGroup, HandleUngroup, HandleGroupCommand, Receives, NotBusy
<1>9. \A u : ~ Starting(u)'
    BY <1>8 DEF Starting
<1>10. SunsetsCalm'
  <2> SUFFICES ASSUME doing'.op = "group", NEW u \in MembersOf(doing'.left)
               PROVE  ~ conductors'[u].t2 /\ (conductors'[u].tid => conductors'[u].rdy)
      BY DEF SunsetsCalm
  <2>1. m.op = "group" /\ u \in MembersOf(m.arg)
      BY <1>8
  <2>2. u \in Trains
      BY <2>1, MessageParts, OrderIsSequence, MembersOfOrder
  <2>3. Calm(u, 1)
      BY <1>1, <1>2, <2>1, <2>2 DEF CareTaken, GroupsCalm
  <2> QED BY <1>2, <2>3 DEF Calm
<1> QED BY <1>1, <1>2, <1>3, <1>4, <1>5, <1>6, <1>7, <1>9, <1>10, PassiveCare

\* A careful user groups what stands idle: every conductor that is told to exit receives.
LEMMA SunsetCare ==
    ASSUME Drivers, Stages, mixed = {}, CareTaken, SunsetMember
    PROVE  CareTaken'
<1> USE DEF Drivers
<1>1. /\ doing.op = "group" /\ doing.left \in Seq(Trains) /\ doing.left # << >>
      /\ doing.members \in Orders /\ failed = "no"
    BY HandlerParts DEF SunsetMember
<1>2. PICK t \in Trains : t = Head(doing.left)
    BY <1>1, FirstOfMembers
<1>3. PICK c \in Conductor : c = conductors[t]
    BY DEF Types
<1>4. t \in MembersOf(doing.left) /\ MembersOf(Tail(doing.left)) \subseteq MembersOf(doing.left)
    BY <1>1, <1>2, Shrinks, FirstOfMembers DEF MembersOf
<1>5. ~ c.t2 /\ (c.tid => c.rdy) /\ ~ Starting(t)
    BY <1>1, <1>3, <1>4 DEF CareTaken, SunsetsCalm, Starting
<1> HIDE DEF Starting, Grouped, MembersOf, IsAutoCmd
<1>6. c.tid => stage[t] = "receive"
    BY <1>3, <1>5 DEF Stages, TrainTrue
<1>7. /\ conductors' = [conductors EXCEPT ![t] = ForgetConductor(c)]
      /\ doing' = [doing EXCEPT !.left = Tail(doing.left)]
      /\ UNCHANGED <<inbox, demo, groups, failed>>
    BY <1>2, <1>3, <1>6 DEF SunsetMember
<1>8. doing'.op = "group" /\ doing'.left = Tail(doing.left) /\ doing'.members = doing.members
    BY <1>1, <1>7 DEF Types, Handler, NotBusy
<1>9. /\ ~ conductors'[t].tid /\ conductors'[t].t2 = conductors[t].t2
      /\ \A u \in Trains : u # t => conductors'[u] = conductors[u]
    BY <1>3, <1>7, ForgetParts DEF Types
<1>10. Grouped' = Grouped
    BY <1>1, <1>7, <1>8 DEF Grouped, Members
<1>11. t \in Grouped
    BY <1>1, <1>4 DEF GroupInMaking, Grouped
<1>12. \A u : ~ Starting(u)'
    BY <1>8 DEF Starting
<1>13. ASSUME NEW u \in Trains
       PROVE  Untouched(u)
    BY <1>3, <1>5, <1>7, <1>9, <1>11, <1>12 DEF Untouched
<1>14. SunsetsCalm'
  <2> SUFFICES ASSUME NEW u \in MembersOf(Tail(doing.left))
               PROVE  ~ conductors'[u].t2 /\ (conductors'[u].tid => conductors'[u].rdy)
      BY <1>8 DEF SunsetsCalm
  <2>1. u \in MembersOf(doing.left) /\ u \in Trains
      BY <1>1, <1>4, MembersOfOrder
  <2>2. ~ conductors[u].t2 /\ (conductors[u].tid => conductors[u].rdy)
      BY <1>1, <2>1 DEF CareTaken, SunsetsCalm
  <2> QED BY <1>13, <2>1, <2>2 DEF Untouched
<1>15. Moves(0, {})
    BY <1>7, StillMoves
<1>16. GroupCommandsKnown'
    BY <1>7, <1>8, <1>15, KnownKept DEF CareTaken
<1>17. NotAsked(NoTrain, 0) /\ NoTrain \notin Trains /\ failed' = "no"
    BY <1>1, <1>7, NobodyNotAsked, DispatcherAssumption
<1> QED BY <1>10, <1>13, <1>14, <1>15, <1>16, <1>17, CareFrame

\* Steps that leave mailbox, conductors and demo tasks alone.
LEMMA StillCare ==
    ASSUME Drivers, CareTaken,
           \/ GroupMade \/ GroupTakes \/ UNCHANGED vars
           \/ \E k : GroupNotified(k) \/ GroupDone(k)
    PROVE  CareTaken'
<1> USE DEF Drivers
<1>1. UNCHANGED <<inbox, conductors, demo, failed>>
    BY DEF GroupMade, GroupTakes, GroupNotified, GroupDone, GroupWorks, vars
<1>2. UNCHANGED doing \/ doing'.op = "receive"
    BY DEF GroupMade, GroupTakes, GroupNotified, GroupDone, GroupWorks, vars, NotBusy
<1>3. DOMAIN groups \subseteq DOMAIN groups' /\ Grouped' \subseteq Grouped
  <2>1. CASE GroupMade
    <3>1. /\ doing.op = "group" /\ doing'.op # "group"
          /\ groups' = Append(groups, [members |-> doing.members, stage |-> "receive"])
        BY <2>1 DEF GroupMade, NotBusy
    <3>2. /\ DOMAIN groups' = 1 .. Len(groups) + 1 /\ DOMAIN groups = 1 .. Len(groups)
          /\ Len(groups) \in Nat
          /\ groups'[Len(groups) + 1].members = doing.members
          /\ \A k \in DOMAIN groups : groups'[k] = groups[k]
        BY <3>1 DEF Types
    <3>3. \A k \in DOMAIN groups' : Members(groups'[k]) \subseteq Grouped
        BY <3>1, <3>2 DEF Grouped, Members
    <3>4. Grouped' \subseteq Grouped
        BY <3>1, <3>3 DEF Grouped, Members
    <3> QED BY <3>2, <3>4
  <2>2. CASE \/ GroupTakes \/ \E k : GroupNotified(k) \/ GroupDone(k)
    <3>1. PICK g \in DOMAIN groups : \E to : groups' = [groups EXCEPT ![g].stage = to]
      <4>1. doing.op = "groupcommand" => doing.group \in DOMAIN groups
          BY DEF GroupInHand
      <4> QED BY <2>2, <4>1 DEF GroupTakes, GroupNotified, GroupDone, GroupWorks
    <3>2. /\ DOMAIN groups' = DOMAIN groups
          /\ \A k \in DOMAIN groups : groups'[k].members = groups[k].members
      <4>1. \A k \in DOMAIN groups : groups[k] \in Group
          BY DEF Types
      <4> QED BY <3>1, <4>1 DEF Group
    <3>3. doing' = doing \/ doing'.op # "group"
        BY <1>2
    <3> QED BY <3>2, <3>3 DEF Grouped, Members
  <2>3. CASE UNCHANGED vars
      BY <2>3 DEF vars, Grouped, Members
  <2> QED BY <2>1, <2>2, <2>3
<1>4. \A u : Starting(u)' => Starting(u) /\ UNCHANGED doing
    BY <1>2 DEF Starting
<1>5. SunsetsCalm'
    BY <1>1, <1>2 DEF SunsetsCalm, CareTaken
<1>6. Moves(0, {})
    BY <1>1, StillMoves
<1>7. GroupCommandsKnown'
    BY <1>2, <1>3, <1>6, KnownKept DEF CareTaken
<1> HIDE DEF Starting, Grouped
<1> QED BY <1>1, <1>3, <1>4, <1>5, <1>6, <1>7, PassiveCare

\* Conductors are made for trains without one, of which no demo task is started.
LEMMA CreatedCare ==
    ASSUME Types, CareTaken, NEW ts, CreateConductors(ts),
           \A t \in Trains : t \in ts => ~ conductors[t].tid,
           NEW k \in {0, 1}, Moves(k, {}), k = 1 => inbox[1].train = NoTrain,
           UNCHANGED <<demo, failed>>, doing'.op = "receive", Grouped' \subseteq Grouped,
           GroupCommandsKnown'
    PROVE  CareTaken'
<1>1. \A u : ~ Starting(u)'
    BY DEF Starting
<1> HIDE DEF Starting, Grouped, MembersOf
<1>2. \A t \in Trains :
          /\ t \in ts => conductors'[t] = NewConductor
          /\ t \notin ts => conductors'[t] = conductors[t]
    BY CreateParts
<1>3. ASSUME NEW u \in Trains
      PROVE  Untouched(u)
  <2>1. CASE u \in ts
    <3>1. ~ conductors[u].tid /\ ~ conductors[u].t2
        BY <2>1 DEF CareTaken, DemoCare, DemoTrue
    <3> QED BY <1>1, <1>2, <2>1, <3>1, NewConductorType DEF Untouched
  <2>2. CASE u \notin ts
      BY <1>1, <1>2, <2>2 DEF Untouched
  <2> QED BY <2>1, <2>2
<1>4. NotAsked(NoTrain, k) /\ NoTrain \notin Trains
    BY NobodyNotAsked, DispatcherAssumption
<1>5. SunsetsCalm' /\ failed' = "no"
    BY DEF SunsetsCalm, CareTaken
<1> QED BY <1>3, <1>4, <1>5, CareFrame

LEMMA GroupEndsCare ==
    ASSUME Drivers, mixed = {}, CareTaken, GroupEnds
    PROVE  CareTaken'
<1> USE DEF Drivers
<1>1. PICK g \in DOMAIN groups : g = doing.group
    BY DEF GroupEnds, GroupInHand
<1>2. /\ UNCHANGED <<inbox, demo, failed>> /\ doing.op = "ungroup" /\ doing'.op = "receive"
      /\ CreateConductors(Members(groups[g])) /\ groups' = GroupsWithout(g)
    BY <1>1 DEF GroupEnds, GroupsWithout, NotBusy
<1>3. Moves(0, {})
    BY <1>2, StillMoves
<1>4. GroupCommandsKnown'
    BY <1>2 DEF CareTaken, GroupCommandsKnown
<1>5. \A k \in DOMAIN groups' : \E j \in DOMAIN groups : groups'[k] = groups[j]
    BY <1>2, GroupsLeft
<1> HIDE DEF Members
<1>6. Grouped' \subseteq Grouped
    BY <1>2, <1>5, GroupedIs, MembersAre
<1>7. \A t \in Trains : t \in Members(groups[g]) => ~ conductors[t].tid
    BY DEF GroupsApart
<1> HIDE DEF Grouped
<1> QED BY <1>2, <1>3, <1>4, <1>6, <1>7, CreatedCare

LEMMA SetTrainsCare ==
    ASSUME Types, CareTaken, HandleSetTrains
    PROVE  CareTaken'
<1>1. PICK m \in Message : m = inbox[1] /\ m = Head(inbox)
    BY ReceivesParts DEF HandleSetTrains
<1>2. /\ inbox # << >> /\ inbox' = Tail(inbox) /\ UNCHANGED <<doing, demo, groups, failed>>
      /\ doing'.op = "receive" /\ m.op = "set"
    BY <1>1, ReceivesParts DEF HandleSetTrains, NotBusy
<1>3. Moves(1, {}) /\ inbox[1].train = NoTrain
    BY <1>1, <1>2, TailMoves, MessageParts
<1>4. GroupCommandsKnown'
    BY <1>2, <1>3, KnownKept DEF CareTaken
<1>5. Grouped' \subseteq Grouped
    BY <1>2 DEF Grouped, Members
<1>6. PICK ts : ts = {t \in Head(inbox).arg : ~ conductors[t].tid}
    OBVIOUS
<1> HIDE DEF Grouped
<1>7. CreateConductors(ts) /\ \A t \in Trains : t \in ts => ~ conductors[t].tid
    BY <1>6 DEF HandleSetTrains
<1> QED BY <1>2, <1>3, <1>4, <1>5, <1>7, CreatedCare

\* The dispatcher knows every demo task that has sent it a message.
LEMMA NobodyForgotten ==
    ASSUME Types, CareTaken, ReceivesFromForgotten
    PROVE  FALSE
<1>1. PICK m \in Message : m = Head(inbox) /\ m = inbox[1]
    BY ReceivesParts DEF ReceivesFromForgotten
<1>2. 1 \in DOMAIN inbox /\ m.op = "command"
    BY <1>1, ReceivesParts DEF ReceivesFromForgotten
<1>3. m.from = "demo" /\ ~ conductors[m.train].t2 /\ m.train \in Trains
    BY <1>1, <1>2, MessageParts DEF ReceivesFromForgotten, Forgotten
<1> QED BY <1>1, <1>2, <1>3 DEF CareTaken, DemoCare, DemoTrue, DemoOnce

\* No conductor was replaced.
LEMMA NobodyReplaced ==
    ASSUME Stages, mixed = {}, NEW t \in Trains, ReplacedReports(t)
    PROVE  FALSE
<1>1. TrainTrue(t)
    BY DEF Stages
<1> HIDE DEF Starting, IsAutoCmd
<1> QED BY <1>1 DEF TrainTrue, ReplacedReports, NoneReplaced

\* Nobody was killed in Send.
LEMMA NobodyDead ==
    ASSUME Types, CareTaken
    PROVE  ~ ReceivesFromDead
<1> SUFFICES ASSUME ReceivesFromDead PROVE FALSE
    OBVIOUS
<1>1. PICK m \in Message : m = Head(inbox)
    BY Shrinks DEF ReceivesFromDead, Types
<1>2. m.from = "demo" /\ demo[m.train] = "killed" /\ m.train \in Trains
    BY <1>1, MessageParts DEF ReceivesFromDead
<1> QED BY <1>2 DEF CareTaken, DemoCare, DemoTrue

LEMMA CareInit == Init => Care
<1> SUFFICES ASSUME Init PROVE CareTaken
    BY DEF Care
<1>1. /\ inbox = << >> /\ doing.op = "receive" /\ demo = [t \in Trains |-> "none"]
      /\ failed = "no"
    BY DEF Init, NotBusy
<1>2. \A t \in Trains : ~ conductors[t].t2
  <2>1. PICK active \in SUBSET Trains :
            conductors = [t \in Trains |-> [NewConductor EXCEPT !.tid = t \in active]]
      BY DEF Init
  <2> QED BY <2>1 DEF NewConductor
<1>3. \A t \in Trains : DemoCare(t)
    BY <1>1, <1>2 DEF DemoCare, DemoTrue, DemoFirst, DemoOnce, DemoAnswered, Starting
<1> QED BY <1>1, <1>3 DEF CareTaken, StopsCalm, StartsCalm, GroupsCalm, SunsetsCalm,
                          GroupCommandsKnown

\* What this user is like does not change.
LEMMA SameUser == [Next]_vars => careful' = careful
<1> SUFFICES ASSUME [Next]_vars PROVE careful' = careful
    OBVIOUS
<1> HIDE DEF Spares, MayName, Grouped, Forgotten
<1>1. CASE UserStep
    BY <1>1 DEF UserStep, EnterCommand, EnterT2Start, EnterT2Stop, EnterGroup, EnterUngroup,
                EnterGroupCommand, EnterSetTrains, Enter
<1>2. CASE \E t \in Trains : Works(t) \/ ReplacedReports(t)
    BY <1>2 DEF Works, Routes, Arrives, Reports, Conducts, ReplacedReports
<1>3. CASE (\E k \in 1 .. MaxGroups : GroupNotified(k) \/ GroupDone(k)) \/ UNCHANGED vars
    BY <1>3 DEF GroupNotified, GroupDone, GroupWorks, vars
<1>4. CASE DispatcherStep
    BY <1>4 DEF DispatcherStep, ReceivesFromDead, ReceivesFromForgotten, HandleCommand,
                HandleReady, ConductorTakes, HandleT2Start, HandleT2Stop, HandleGroup,
                SunsetMember, GroupMade, HandleUngroup, GroupEnds, HandleGroupCommand,
                GroupTakes, HandleSetTrains
<1> QED BY <1>1, <1>2, <1>3, <1>4 DEF Next

LEMMA CareStep == Drivers /\ Stages /\ Care /\ [Next]_vars => Care'
<1> SUFFICES ASSUME Drivers, Stages, careful, CareTaken, [Next]_vars PROVE CareTaken'
    BY SameUser DEF Care
<1>1. Drivers' /\ Stages'
    BY DriversStep, StagesStep
<1>2. Types /\ Types' /\ mixed = {} /\ mixed' = {}
    BY <1>1, SameUser DEF Drivers, NoneMixed
<1>3. CASE UserStep
    BY <1>3, UserCare
<1>4. CASE \E t \in Trains : Works(t) \/ ReplacedReports(t)
    BY <1>2, <1>4, WorksCare, NobodyReplaced
<1>5. CASE (\E k \in 1 .. MaxGroups : GroupNotified(k) \/ GroupDone(k)) \/ UNCHANGED vars
    BY <1>5, StillCare
<1>6. CASE DispatcherStep
    BY <1>1, <1>2, <1>6, NobodyDead, NobodyForgotten, HandleCommandCare, HandleReadyCare,
       ConductorTakesCare, HandleT2StartCare, HandleT2StopCare, GroupRequestsCare, SunsetCare,
       StillCare, GroupEndsCare, SetTrainsCare DEF DispatcherStep
<1> QED BY <1>3, <1>4, <1>5, <1>6 DEF Next

\* With a user that groups, starts and stops only what stands idle the program never
\* stops: no assertion fails in the dispatcher or in a conductor, and nobody is killed
\* in Send (usr/command_dispatcher.c:303, 454, usr/train/train_conductor.c:383).
THEOREM NothingFailsAlways == Spec => []NothingFails
<1>1. Init => Drivers /\ Stages /\ Care
    BY DriversInit, StagesInit, CareInit
<1>2. Drivers /\ Stages /\ Care /\ [Next]_vars => (Drivers /\ Stages /\ Care)'
    BY DriversStep, StagesStep, CareStep
<1>3. Care => NothingFails
    BY DEF Care, CareTaken, NothingFails
<1> QED BY <1>1, <1>2, <1>3, PTL DEF Spec

----------------------------------------------------------------------------
(* Commands.  The user gives no more commands than the queue holds here.     *)

\* The message of a demo task: one, while it waits in Send, and before any request to
\* start another.
DemoMailed(t) == \E n \in DOMAIN inbox : inbox[n].from = "demo" /\ inbox[n].train = t

OneDemoMail(t) ==
    /\ DemoMailed(t) => demo[t] \in {"sending", "killed"}
    /\ \A m, n \in DOMAIN inbox :
          /\ inbox[m].from = "demo" /\ inbox[m].train = t
          /\ inbox[n].from = "demo" /\ inbox[n].train = t
          => m = n
    /\ conductors[t].t2 => demo[t] # "killed"
    /\ \A m, n \in DOMAIN inbox :
          /\ inbox[m].from = "demo" /\ inbox[m].train = t
          /\ inbox[n].op = "t2start" /\ inbox[n].train = t
          /\ n < m
          => conductors[t].t2

\* A request to start a demo task is not about a train that comes out of its group.
StartsApart ==
    doing.op = "ungroup" =>
        \A n \in DOMAIN inbox : inbox[n].op = "t2start" =>
            inbox[n].train \notin Members(groups[doing.group]) \ mixed

\* A message of the user that ends as a command in the queue, behind the first k.
UserMailed(t, k) ==
    \E n \in DOMAIN inbox :
        /\ n > k
        /\ inbox[n].from = "ui" /\ inbox[n].op \in {"command", "t2start"} /\ inbox[n].train = t

Load(t) ==
    conductors[t].available + (IF UserMailed(t, 0) THEN 1 ELSE 0)
        + (IF DemoMailed(t) THEN 1 ELSE 0)

\* A command behind a report was entered when there was room for both.
ReportFits(t) ==
    \A n \in DOMAIN inbox :
        inbox[n].op = "ready" /\ inbox[n].train = t /\ UserMailed(t, n) => QueueLen >= 2

Fits(t) == Load(t) <= QueueLen /\ ReportFits(t)

\* The ring: from o on the commands that wait, and i after them.
RingTrue(c) ==
    /\ c.i = (c.o + c.available) % QueueLen
    /\ \A k \in 1 .. c.available : c.msgs[(c.o + k - 1) % QueueLen] \in Commands

LineTrue(t) ==
    /\ RingTrue(conductors[t])
    /\ ~ conductors[t].rdy /\ ~ Starting(t) => task[t] \in Commands
    /\ ~ conductors[t].tid => conductors[t].rdy /\ conductors[t].available = 0

Line(t) == OneDemoMail(t) /\ Fits(t) /\ LineTrue(t)

\* Those of the trains that are not mixed up.
Lines == \A t \in Trains \ mixed : Line(t)

PendingOf(t) ==
    LET all == Waiting(conductors[t], conductors[t].available)
    IN  IF t \in mixed THEN << >> ELSE IF Starting(t) THEN Tail(all) ELSE all

ActiveOf(t) ==
    IF t \in mixed THEN NoCommand ELSE IF Starting(t) THEN NextCommand(conductors[t])
    ELSE IF conductors[t].rdy THEN NoCommand ELSE task[t]

\* Indices go round once.
LEMMA Around ==
    ASSUME NEW Q \in Nat \ {0}, NEW n \in Nat, n < 2 * Q
    PROVE  n % Q = IF n < Q THEN n ELSE n - Q
OBVIOUS

LEMMA Places ==
    ASSUME NEW Q \in Nat \ {0}, NEW o \in 0 .. Q - 1, NEW n \in 0 .. Q
    PROVE  (o + n) % Q = IF o + n < Q THEN o + n ELSE o + n - Q
<1>1. o + n \in Nat /\ o + n < 2 * Q
    OBVIOUS
<1>2. PICK m \in Nat : m = o + n /\ m < 2 * Q
    BY <1>1
<1>3. m % Q = IF m < Q THEN m ELSE m - Q
    BY <1>2, Around, Zenon
<1>4. (o + n) % Q = m % Q
    BY <1>2
<1>5. (o + n < Q <=> m < Q) /\ o + n - Q = m - Q
    BY <1>2
<1> QED BY <1>2, <1>3, <1>4, <1>5, Zenon

\* The place after one; the same place, counted from the one after the first; two
\* places that differ.
LEMMA NextPlace ==
    ASSUME NEW Q \in Nat \ {0}, NEW o \in 0 .. Q - 1, NEW n \in 0 .. Q - 1
    PROVE  (o + (n + 1)) % Q = IF (o + n) % Q < Q - 1 THEN ((o + n) % Q) + 1 ELSE 0
<1>1. n + 1 \in 0 .. Q /\ n \in 0 .. Q
    OBVIOUS
<1>2. (o + (n + 1)) % Q = IF o + (n + 1) < Q THEN o + (n + 1) ELSE o + (n + 1) - Q
    BY <1>1, Places, Zenon
<1>3. (o + n) % Q = IF o + n < Q THEN o + n ELSE o + n - Q
    BY <1>1, Places, Zenon
<1> QED BY <1>2, <1>3

LEMMA ShiftedPlace ==
    ASSUME NEW Q \in Nat \ {0}, NEW o \in 0 .. Q - 1, NEW n \in 0 .. Q - 1,
           NEW w, w = IF o < Q - 1 THEN o + 1 ELSE 0
    PROVE  (w + n) % Q = (o + (n + 1)) % Q
<1>1. n + 1 \in 0 .. Q /\ n \in 0 .. Q
    OBVIOUS
<1>2. (o + (n + 1)) % Q = IF o + (n + 1) < Q THEN o + (n + 1) ELSE o + (n + 1) - Q
    BY <1>1, Places, Zenon
<1>3. CASE o < Q - 1
  <2>1. w + n = o + (n + 1)
      BY <1>3
  <2> QED BY <2>1
<1>4. CASE ~ (o < Q - 1)
  <2>1. 0 \in 0 .. Q - 1 /\ w + n = 0 + n
      BY <1>4
  <2>2. (0 + n) % Q = IF 0 + n < Q THEN 0 + n ELSE 0 + n - Q
      BY <1>1, <2>1, Places, Zenon
  <2> QED BY <1>2, <1>4, <2>1, <2>2
<1> QED BY <1>3, <1>4

LEMMA OtherPlace ==
    ASSUME NEW Q \in Nat \ {0}, NEW o \in 0 .. Q - 1, NEW m \in 0 .. Q - 1, NEW n \in 0 .. Q - 1,
           m < n
    PROVE  (o + m) % Q # (o + n) % Q
<1>0. m \in 0 .. Q /\ n \in 0 .. Q
    OBVIOUS
<1>1. (o + m) % Q = IF o + m < Q THEN o + m ELSE o + m - Q
    BY <1>0, Places, Zenon
<1>2. (o + n) % Q = IF o + n < Q THEN o + n ELSE o + n - Q
    BY <1>0, Places, Zenon
<1> QED BY <1>1, <1>2

SameRing(c, d) == d.o = c.o /\ d.i = c.i /\ d.available = c.available /\ d.msgs = c.msgs

LEMMA RingKept ==
    ASSUME NEW c, NEW d, SameRing(c, d)
    PROVE  /\ RingTrue(c) => RingTrue(d)
           /\ \A n : Waiting(d, n) = Waiting(c, n)
           /\ NextCommand(d) = NextCommand(c)
BY DEF SameRing, RingTrue, Waiting, NextCommand

LEMMA RingUntouched ==
    ASSUME NEW c \in Conductor
    PROVE  /\ SameRing(c, Idle(c)) /\ SameRing(c, ForgetDestination(c))
           /\ SameRing(c, ForgetDemo(c)) /\ SameRing(c, ForgetConductor(c))
           /\ SameRing(c, [c EXCEPT !.t2 = TRUE])
BY DEF SameRing, Idle, ForgetDestination, ForgetDemo, ForgetConductor, Conductor

LEMMA StoreFields ==
    ASSUME NEW c \in Conductor, NEW m \in Commands
    PROVE  /\ Store(c, m).o = c.o /\ Store(c, m).i = Wrap(c.i)
           /\ Store(c, m).available = c.available + 1
           /\ Store(c, m).msgs = [c.msgs EXCEPT ![c.i] = m]
BY DEF Store, Conductor

LEMMA StartFields ==
    ASSUME NEW c \in Conductor
    PROVE  /\ Start(c).o = Wrap(c.o) /\ Start(c).i = c.i
           /\ Start(c).available = c.available - 1
           /\ Start(c).msgs = c.msgs
<1> HIDE DEF NextCommand, IsAutoCmd
<1> QED BY DEF Start, Conductor

\* Sequences as functions.
LEMMA AppendIs ==
    ASSUME NEW S, NEW s \in Seq(S), NEW m \in S
    PROVE  Append(s, m) = [k \in 1 .. Len(s) + 1 |-> IF k \in 1 .. Len(s) THEN s[k] ELSE m]
<1>1. Append(s, m) \in [1 .. Len(s) + 1 -> S]
  <2>1. Append(s, m) \in Seq(S) /\ Len(Append(s, m)) = Len(s) + 1
      OBVIOUS
  <2>2. \A r : r \in Seq(S) => r \in [1 .. Len(r) -> S]
      OBVIOUS
  <2> QED BY <2>1, <2>2
<1>2. \A k \in 1 .. Len(s) + 1 : Append(s, m)[k] = IF k \in 1 .. Len(s) THEN s[k] ELSE m
    OBVIOUS
<1> QED BY <1>1, <1>2

LEMMA TailIs ==
    ASSUME NEW S, NEW s \in Seq(S), s # << >>
    PROVE  Tail(s) = [k \in 1 .. Len(s) - 1 |-> s[k + 1]]
<1>1. Tail(s) \in [1 .. Len(s) - 1 -> S]
  <2>1. Tail(s) \in Seq(S) /\ Len(Tail(s)) = Len(s) - 1
      OBVIOUS
  <2>2. \A r : r \in Seq(S) => r \in [1 .. Len(r) -> S]
      OBVIOUS
  <2> QED BY <2>1, <2>2
<1>2. \A k \in 1 .. Len(s) - 1 : Tail(s)[k] = s[k + 1]
    OBVIOUS
<1> QED BY <1>1, <1>2

\* Where the k-th command that waits is.
LEMMA PlaceOf ==
    ASSUME NEW c \in Conductor, NEW k \in 1 .. QueueLen
    PROVE  /\ (c.o + k - 1) % QueueLen = (c.o + (k - 1)) % QueueLen
           /\ (c.o + (k - 1)) % QueueLen \in Positions
           /\ k - 1 \in 0 .. QueueLen - 1
<1>1. c.o \in 0 .. QueueLen - 1 /\ QueueLen \in Nat \ {0}
    BY DispatcherAssumption DEF Conductor, Positions
<1>2. c.o + k - 1 = c.o + (k - 1) /\ k - 1 \in 0 .. QueueLen - 1 /\ k - 1 \in 0 .. QueueLen
    BY <1>1
<1>3. (c.o + (k - 1)) % QueueLen =
          IF c.o + (k - 1) < QueueLen THEN c.o + (k - 1) ELSE c.o + (k - 1) - QueueLen
    BY <1>1, <1>2, Places, Zenon
<1> QED BY <1>1, <1>2, <1>3 DEF Positions

\* A command is stored behind the others.
LEMMA StoreAppends ==
    ASSUME NEW c \in Conductor, NEW m \in Commands, RingTrue(c),
           c.available >= 0, c.available < QueueLen
    PROVE  /\ RingTrue(Store(c, m))
           /\ Waiting(Store(c, m), c.available + 1) = Append(Waiting(c, c.available), m)
<1> DEFINE d == Store(c, m)
           a == c.available
           P(k) == (c.o + k - 1) % QueueLen
<1>1. /\ d.o = c.o /\ d.i = Wrap(c.i) /\ d.available = a + 1
      /\ d.msgs = [c.msgs EXCEPT ![c.i] = m]
    BY StoreFields
<1> HIDE DEF d
<1>2. /\ QueueLen \in Nat \ {0} /\ c.o \in 0 .. QueueLen - 1 /\ c.i \in Positions
      /\ a \in 0 .. QueueLen - 1 /\ c.msgs \in [Positions -> CommandOrNone]
    BY DispatcherAssumption DEF Conductor, Positions
<1>3. c.i = (c.o + a) % QueueLen
    BY DEF RingTrue
<1>4. \A k \in 1 .. a + 1 : k \in 1 .. QueueLen
    BY <1>2
<1>5. \A k \in 1 .. a + 1 : P(k) = (c.o + (k - 1)) % QueueLen /\ P(k) \in Positions
    BY <1>4, PlaceOf
<1>6. ASSUME NEW k \in 1 .. a
      PROVE  P(k) # c.i
  <2>1. k - 1 \in 0 .. QueueLen - 1 /\ k - 1 < a /\ k \in 1 .. a + 1
      BY <1>2
  <2>2. (c.o + (k - 1)) % QueueLen # (c.o + a) % QueueLen
      BY <1>2, <2>1, OtherPlace, Zenon
  <2> QED BY <1>3, <1>5, <2>1, <2>2
<1>7. P(a + 1) = c.i
  <2>1. c.o + (a + 1) - 1 = c.o + a
      BY <1>2
  <2> QED BY <1>3, <2>1
<1>8. \A k \in 1 .. a + 1 : k \in 1 .. a \/ k = a + 1
    BY <1>2
<1>9. \A k \in 1 .. a + 1 :
          d.msgs[(d.o + k - 1) % QueueLen] = IF k \in 1 .. a THEN c.msgs[P(k)] ELSE m
  <2> SUFFICES ASSUME NEW k \in 1 .. a + 1
               PROVE  d.msgs[P(k)] = IF k \in 1 .. a THEN c.msgs[P(k)] ELSE m
      BY <1>1
  <2>1. P(k) \in Positions /\ d.msgs[P(k)] = IF P(k) = c.i THEN m ELSE c.msgs[P(k)]
    <3> HIDE DEF P
    <3> QED BY <1>1, <1>2, <1>5
  <2>2. CASE k \in 1 .. a
      BY <1>6, <2>1, <2>2
  <2>3. CASE k = a + 1 /\ k \notin 1 .. a
    <3>1. P(k) = c.i
        BY <1>7, <2>3
    <3> QED BY <2>1, <2>3, <3>1
  <2> QED BY <1>8, <2>2, <2>3
<1>10. \A k \in 1 .. a : c.msgs[P(k)] \in Commands
    BY DEF RingTrue
<1>11. RingTrue(d)
  <2>1. d.i = (d.o + d.available) % QueueLen
    <3>1. (c.o + (a + 1)) % QueueLen =
              IF (c.o + a) % QueueLen < QueueLen - 1 THEN ((c.o + a) % QueueLen) + 1 ELSE 0
        BY <1>2, NextPlace, Zenon
    <3>2. d.i = IF c.i < QueueLen - 1 THEN c.i + 1 ELSE 0
        BY <1>1 DEF Wrap
    <3> QED BY <1>1, <1>3, <3>1, <3>2, Zenon
  <2>2. \A k \in 1 .. a + 1 : d.msgs[(d.o + k - 1) % QueueLen] \in Commands
    <3> HIDE DEF P
    <3> QED BY <1>9, <1>10
  <2> QED BY <1>1, <2>1, <2>2 DEF RingTrue
<1>12. Waiting(d, a + 1) = Append(Waiting(c, a), m)
  <2> DEFINE w == Waiting(c, a)
  <2>1. w \in Seq(Commands) /\ Len(w) = a /\ \A k \in 1 .. a : w[k] = c.msgs[P(k)]
    <3>1. w = [k \in 1 .. a |-> c.msgs[P(k)]]
        BY DEF Waiting
    <3> HIDE DEF w, P
    <3> QED BY <1>2, <1>10, <3>1
  <2> HIDE DEF w, P
  <2>2. Append(w, m) = [k \in 1 .. a + 1 |-> IF k \in 1 .. a THEN w[k] ELSE m]
    <3>1. Append(w, m) = [k \in 1 .. Len(w) + 1 |-> IF k \in 1 .. Len(w) THEN w[k] ELSE m]
        BY <2>1, AppendIs
    <3> QED BY <2>1, <3>1
  <2>3. Waiting(d, a + 1) = [k \in 1 .. a + 1 |-> d.msgs[(d.o + k - 1) % QueueLen]]
      BY DEF Waiting
  <2>4. \A k \in 1 .. a + 1 :
            d.msgs[(d.o + k - 1) % QueueLen] = IF k \in 1 .. a THEN w[k] ELSE m
      BY <1>9, <2>1
  <2>5. [k \in 1 .. a + 1 |-> d.msgs[(d.o + k - 1) % QueueLen]]
            = [k \in 1 .. a + 1 |-> IF k \in 1 .. a THEN w[k] ELSE m]
      BY <2>4, Zenon
  <2> QED BY <2>2, <2>3, <2>5 DEF w
<1> QED BY <1>11, <1>12 DEF d

\* The oldest command is started.
LEMMA StartTakesFirst ==
    ASSUME NEW c \in Conductor, RingTrue(c), c.available > 0, c.available <= QueueLen
    PROVE  /\ RingTrue(Start(c)) /\ NextCommand(c) \in Commands
           /\ Waiting(c, c.available) \in Seq(Commands) /\ Waiting(c, c.available) # << >>
           /\ NextCommand(c) = Head(Waiting(c, c.available))
           /\ Waiting(Start(c), c.available - 1) = Tail(Waiting(c, c.available))
<1> DEFINE d == Start(c)
           a == c.available
           w == Waiting(c, a)
           P(k) == (c.o + k - 1) % QueueLen
<1>1. d.o = Wrap(c.o) /\ d.i = c.i /\ d.available = a - 1 /\ d.msgs = c.msgs
    BY StartFields
<1> HIDE DEF d
<1>2. /\ QueueLen \in Nat \ {0} /\ c.o \in 0 .. QueueLen - 1 /\ a \in 1 .. QueueLen
    BY DispatcherAssumption DEF Conductor, Positions
<1>3. \A k \in 1 .. a : c.msgs[P(k)] \in Commands
    BY DEF RingTrue
<1>4. w \in Seq(Commands) /\ Len(w) = a /\ \A k \in 1 .. a : w[k] = c.msgs[P(k)]
  <2>1. w = [k \in 1 .. a |-> c.msgs[P(k)]]
      BY DEF Waiting
  <2> HIDE DEF w, P
  <2> QED BY <1>2, <1>3, <2>1
<1>5. P(1) = c.o
  <2>1. 0 \in 0 .. QueueLen /\ c.o + 1 - 1 = c.o + 0 /\ c.o + 0 = c.o /\ c.o < QueueLen
      BY <1>2
  <2>2. (c.o + 0) % QueueLen = IF c.o + 0 < QueueLen THEN c.o + 0 ELSE c.o + 0 - QueueLen
      BY <1>2, <2>1, Places, Zenon
  <2> QED BY <2>1, <2>2
<1>6. w # << >> /\ NextCommand(c) = Head(w) /\ NextCommand(c) \in Commands
  <2>1. 1 \in 1 .. a /\ NextCommand(c) = c.msgs[P(1)]
      BY <1>2, <1>5 DEF NextCommand
  <2> HIDE DEF w, P
  <2> QED BY <1>2, <1>3, <1>4, <2>1
<1>7. ASSUME NEW n \in 0 .. QueueLen - 1
      PROVE  (Wrap(c.o) + n) % QueueLen = (c.o + (n + 1)) % QueueLen
  <2>1. Wrap(c.o) = IF c.o < QueueLen - 1 THEN c.o + 1 ELSE 0
      BY DEF Wrap
  <2> QED BY <1>2, <2>1, ShiftedPlace, Zenon
<1>8. ASSUME NEW k \in 1 .. a - 1
      PROVE  k + 1 \in 1 .. a /\ (d.o + k - 1) % QueueLen = P(k + 1)
  <2>1. /\ k + 1 \in 1 .. a /\ k - 1 \in 0 .. QueueLen - 1 /\ (k - 1) + 1 = k
        /\ Wrap(c.o) + k - 1 = Wrap(c.o) + (k - 1) /\ c.o + (k + 1) - 1 = c.o + k
      BY <1>2 DEF Wrap
  <2>2. (Wrap(c.o) + (k - 1)) % QueueLen = (c.o + k) % QueueLen
      BY <1>7, <2>1
  <2> QED BY <1>1, <2>1, <2>2
<1>9. RingTrue(d)
  <2>1. d.i = (d.o + d.available) % QueueLen
    <3>1. a - 1 \in 0 .. QueueLen - 1 /\ (a - 1) + 1 = a
        BY <1>2
    <3>2. (Wrap(c.o) + (a - 1)) % QueueLen = (c.o + a) % QueueLen
        BY <1>7, <3>1
    <3> QED BY <1>1, <3>2 DEF RingTrue
  <2>2. ASSUME NEW k \in 1 .. a - 1
        PROVE  d.msgs[(d.o + k - 1) % QueueLen] \in Commands
    <3> HIDE DEF P
    <3> QED BY <1>1, <1>3, <1>8
  <2> QED BY <1>1, <2>1, <2>2 DEF RingTrue
<1>10. Waiting(d, a - 1) = Tail(w)
  <2>1. Waiting(d, a - 1) = [k \in 1 .. a - 1 |-> d.msgs[(d.o + k - 1) % QueueLen]]
      BY DEF Waiting
  <2> HIDE DEF w, P
  <2>2. Tail(w) = [k \in 1 .. a - 1 |-> w[k + 1]]
    <3>1. Tail(w) = [k \in 1 .. Len(w) - 1 |-> w[k + 1]]
        BY <1>4, <1>6, TailIs
    <3> QED BY <1>4, <3>1
  <2>3. \A k \in 1 .. a - 1 : d.msgs[(d.o + k - 1) % QueueLen] = w[k + 1]
      BY <1>1, <1>4, <1>8
  <2> QED BY <2>1, <2>2, <2>3, Zenon
<1> QED BY <1>4, <1>6, <1>9, <1>10 DEF d

----------------------------------------------------------------------------
(* Demo tasks' messages, and the load, when the mailbox moves on. *)

\* Nothing new is on the way that ends as a command for the train.
NoLoad(F, t) ==
    \A f \in F : f.train = t =>
        f.from # "demo" /\ (f.from = "ui" => f.op \notin {"command", "t2start"})

LEMMA DemoMailKept ==
    ASSUME NEW k \in {0, 1}, NEW F, Moves(k, F), NEW t \in Trains, OneDemoMail(t),
           \A f \in F : f.train = t => f.from # "demo",
           demo[t] \in {"sending", "killed"} => demo'[t] \in {"sending", "killed"},
           conductors'[t].t2 => demo'[t] # "killed",
           \/ conductors[t].t2 => conductors'[t].t2
           \/ \A n \in DOMAIN inbox : n > k /\ inbox[n].op = "t2start" => inbox[n].train # t
    PROVE  OneDemoMail(t)'
<1>1. \A n \in DOMAIN inbox' :
          inbox'[n].from = "demo" /\ inbox'[n].train = t =>
              n \in Nat \ {0} /\ n + k \in DOMAIN inbox /\ inbox'[n] = inbox[n + k]
    BY DEF Moves
<1>2. DemoMailed(t)' => DemoMailed(t)
    BY <1>1 DEF DemoMailed
<1>3. \A m, n \in DOMAIN inbox' :
          /\ inbox'[m].from = "demo" /\ inbox'[m].train = t
          /\ inbox'[n].from = "demo" /\ inbox'[n].train = t
          => m = n
  <2>1. \A m, n \in DOMAIN inbox' :
            /\ inbox'[m].from = "demo" /\ inbox'[m].train = t
            /\ inbox'[n].from = "demo" /\ inbox'[n].train = t
            => m + k = n + k
      BY <1>1 DEF OneDemoMail
  <2> QED BY <1>1, <2>1
<1>4. ASSUME NEW m \in DOMAIN inbox', NEW n \in DOMAIN inbox',
             inbox'[m].from = "demo", inbox'[m].train = t,
             inbox'[n].op = "t2start", inbox'[n].train = t, n < m
      PROVE  conductors'[t].t2
  <2>1. m \in Nat \ {0} /\ m + k \in DOMAIN inbox /\ inbox'[m] = inbox[m + k]
      BY <1>1, <1>4
  <2>2. n \in Nat \ {0} /\ n + k \in DOMAIN inbox /\ inbox'[n] = inbox[n + k]
      BY <1>4, <2>1 DEF Moves
  <2>3. n + k < m + k /\ n + k > k
      BY <1>4, <2>1, <2>2
  <2> QED BY <1>4, <2>1, <2>2, <2>3 DEF OneDemoMail
<1> QED BY <1>2, <1>3, <1>4 DEF OneDemoMail

LEMMA DemoMailGone ==
    ASSUME Moves(1, {}), NEW t \in Trains, OneDemoMail(t),
           1 \in DOMAIN inbox, inbox[1].from = "demo", inbox[1].train = t,
           demo'[t] = "awaiting"
    PROVE  OneDemoMail(t)' /\ ~ DemoMailed(t)'
<1>1. \A n \in DOMAIN inbox' : ~ (inbox'[n].from = "demo" /\ inbox'[n].train = t)
  <2> SUFFICES ASSUME NEW n \in DOMAIN inbox', inbox'[n].from = "demo", inbox'[n].train = t
               PROVE  FALSE
      OBVIOUS
  <2>1. n \in Nat \ {0} /\ n + 1 \in DOMAIN inbox /\ inbox'[n] = inbox[n + 1]
      BY DEF Moves
  <2>2. n + 1 = 1
      BY <2>1 DEF OneDemoMail
  <2> QED BY <2>1, <2>2
<1> QED BY <1>1 DEF OneDemoMail, DemoMailed

LEMMA DemoMailComes ==
    ASSUME NEW k \in {0, 1}, NEW m, Moves(k, {m}), NEW t \in Trains,
           \A n \in DOMAIN inbox : n > k => ~ (inbox[n].from = "demo" /\ inbox[n].train = t),
           demo'[t] = "sending", conductors'[t].t2
    PROVE  OneDemoMail(t)'
<1>1. \A n \in DOMAIN inbox' :
          inbox'[n].from = "demo" /\ inbox'[n].train = t =>
              n \in Nat /\ \A i \in DOMAIN inbox' : i <= n
  <2> SUFFICES ASSUME NEW n \in DOMAIN inbox', inbox'[n].from = "demo", inbox'[n].train = t
               PROVE  n \in Nat /\ \A i \in DOMAIN inbox' : i <= n
      OBVIOUS
  <2>1. n \in Nat \ {0} /\ n + k > k
      BY DEF Moves
  <2>2. ~ (n + k \in DOMAIN inbox /\ inbox'[n] = inbox[n + k])
      BY <2>1
  <2> QED BY <2>1, <2>2 DEF Moves
<1>2. \A m1, n \in DOMAIN inbox' :
          /\ inbox'[m1].from = "demo" /\ inbox'[m1].train = t
          /\ inbox'[n].from = "demo" /\ inbox'[n].train = t
          => m1 = n
    BY <1>1
<1> QED BY <1>2 DEF OneDemoMail

\* The messages of the user and of the demo task are old ones.
LEMMA MailedBefore ==
    ASSUME NEW k \in {0, 1}, NEW F, Moves(k, F), NEW t \in Trains, Types
    PROVE  /\ (\A f \in F : f.train = t /\ f.from = "ui" => f.op \notin {"command", "t2start"})
                  => /\ UserMailed(t, 0)' => UserMailed(t, k)
                     /\ ReportFits(t) => ReportFits(t)'
           /\ (\A f \in F : f.train = t => f.from # "demo")
                  => (DemoMailed(t)' => DemoMailed(t))
           /\ UserMailed(t, k) => UserMailed(t, 0)
<1>1. ASSUME \A f \in F : f.train = t /\ f.from = "ui" => f.op \notin {"command", "t2start"},
             NEW n \in Nat, UserMailed(t, n)'
      PROVE  \E i \in DOMAIN inbox' : i > n /\ i \in Nat /\ i + k \in DOMAIN inbox
                 /\ inbox[i + k].from = "ui" /\ inbox[i + k].op \in {"command", "t2start"}
                 /\ inbox[i + k].train = t
  <2>1. PICK i \in DOMAIN inbox' : i > n /\ inbox'[i].from = "ui"
                 /\ inbox'[i].op \in {"command", "t2start"} /\ inbox'[i].train = t
      BY <1>1 DEF UserMailed
  <2>2. i \in Nat /\ i + k \in DOMAIN inbox /\ inbox'[i] = inbox[i + k]
      BY <1>1, <2>1 DEF Moves
  <2> QED BY <2>1, <2>2
<1>2. ASSUME \A f \in F : f.train = t /\ f.from = "ui" => f.op \notin {"command", "t2start"}
      PROVE  UserMailed(t, 0)' => UserMailed(t, k)
  <2> SUFFICES ASSUME UserMailed(t, 0)' PROVE UserMailed(t, k)
      OBVIOUS
  <2>1. PICK i \in DOMAIN inbox' : i > 0 /\ i \in Nat /\ i + k \in DOMAIN inbox
                 /\ inbox[i + k].from = "ui" /\ inbox[i + k].op \in {"command", "t2start"}
                 /\ inbox[i + k].train = t
      BY <1>1, <1>2
  <2>2. i + k > k
      BY <2>1
  <2> QED BY <2>1, <2>2 DEF UserMailed
<1>3. ASSUME \A f \in F : f.train = t /\ f.from = "ui" => f.op \notin {"command", "t2start"},
             ReportFits(t)
      PROVE  ReportFits(t)'
  <2> SUFFICES ASSUME NEW n \in DOMAIN inbox', inbox'[n].op = "ready", inbox'[n].train = t,
                      UserMailed(t, n)'
               PROVE  QueueLen >= 2
      BY DEF ReportFits
  <2>1. n \in Nat
      BY DEF Moves
  <2>2. PICK i \in DOMAIN inbox' : i > n /\ i \in Nat /\ i + k \in DOMAIN inbox
                 /\ inbox[i + k].from = "ui" /\ inbox[i + k].op \in {"command", "t2start"}
                 /\ inbox[i + k].train = t
      BY <1>1, <1>3, <2>1
  <2>3. n + k \in DOMAIN inbox /\ inbox'[n] = inbox[n + k]
      BY <2>1, <2>2 DEF Moves
  <2>4. i + k > n + k
      BY <2>1, <2>2
  <2>5. UserMailed(t, n + k)
      BY <2>2, <2>4 DEF UserMailed
  <2> QED BY <1>3, <2>3, <2>5 DEF ReportFits
<1>4. (\A f \in F : f.train = t => f.from # "demo") => (DemoMailed(t)' => DemoMailed(t))
    BY DEF Moves, DemoMailed
<1>5. UserMailed(t, k) => UserMailed(t, 0)
    BY DEF UserMailed, Types
<1> QED BY <1>2, <1>3, <1>4, <1>5

LEMMA FitsKept ==
    ASSUME Types, Types', NEW k \in {0, 1}, NEW F, Moves(k, F), NEW t \in Trains, Fits(t),
           NoLoad(F, t), conductors'[t].available <= conductors[t].available
    PROVE  Fits(t)'
<1>1. /\ UserMailed(t, 0)' => UserMailed(t, 0)
      /\ DemoMailed(t)' => DemoMailed(t)
      /\ ReportFits(t)'
    BY MailedBefore DEF NoLoad, Fits
<1>2. conductors[t].available \in Int /\ conductors'[t].available \in Int /\ QueueLen \in Int
    BY DispatcherAssumption DEF Types, Conductor
<1> HIDE DEF UserMailed, DemoMailed
<1>3. Load(t)' <= Load(t) /\ Load(t)' \in Int /\ Load(t) \in Int
    BY <1>1, <1>2 DEF Load
<1> QED BY <1>1, <1>2, <1>3 DEF Fits

----------------------------------------------------------------------------
(* Steps of the promise. *)

Kept(t) == PendingOf(t)' = PendingOf(t) /\ ActiveOf(t)' = ActiveOf(t)

\* One train moves on, the others do not.
Given(t) == \E m \in Commands :
    \/ ActiveOf(t) = NoCommand /\ ActiveOf(t)' = m /\ PendingOf(t)' = PendingOf(t)
    \/ /\ ActiveOf(t) # NoCommand /\ ~ IsAutoCmd(ActiveOf(t)) /\ ActiveOf(t)' = ActiveOf(t)
       /\ PendingOf(t)' = Append(PendingOf(t), m)

Finished(t) ==
    /\ ActiveOf(t) # NoCommand
    /\ \/ /\ PendingOf(t) = << >> /\ ActiveOf(t)' = NoCommand /\ PendingOf(t)' = PendingOf(t)
       \/ /\ PendingOf(t) # << >> /\ ActiveOf(t)' = Head(PendingOf(t))
          /\ PendingOf(t)' = Tail(PendingOf(t))

Pendings == [t \in Trains |-> PendingOf(t)]
Actives == [t \in Trains |-> ActiveOf(t)]

LEMMA PromiseVariables == Promise!vars = <<Pendings, Actives>>
BY DEF Promise!vars, Pendings, Actives, PendingOf, ActiveOf

LEMMA PromiseKept ==
    ASSUME \A t \in Trains : Kept(t)
    PROVE  [Promise!Next]_Promise!vars
<1>1. Pendings' = Pendings /\ Actives' = Actives
  <2> HIDE DEF PendingOf, ActiveOf
  <2> QED BY DEF Pendings, Actives, Kept
<1> QED BY <1>1 DEF Promise!vars, Pendings, Actives, PendingOf, ActiveOf

LEMMA PromiseMoved ==
    ASSUME NEW t \in Trains, \A u \in Trains : u # t => Kept(u), Given(t) \/ Finished(t)
    PROVE  [Promise!Next]_Promise!vars
<1>1. /\ \A u \in Trains : u # t => PendingOf(u)' = PendingOf(u) /\ ActiveOf(u)' = ActiveOf(u)
      /\ Pendings[t] = PendingOf(t) /\ Actives[t] = ActiveOf(t)
    BY DEF Kept, Pendings, Actives
<1>2. ASSUME NEW p, NEW a, PendingOf(t)' = p, ActiveOf(t)' = a
      PROVE  Pendings' = [Pendings EXCEPT ![t] = p] /\ Actives' = [Actives EXCEPT ![t] = a]
  <2> HIDE DEF PendingOf, ActiveOf
  <2> QED BY <1>1, <1>2 DEF Pendings, Actives
<1>3. ASSUME PendingOf(t)' = PendingOf(t) PROVE Pendings' = Pendings
  <2> HIDE DEF PendingOf, ActiveOf
  <2> QED BY <1>1, <1>3 DEF Pendings
<1>4. ASSUME ActiveOf(t)' = ActiveOf(t) PROVE Actives' = Actives
  <2> HIDE DEF PendingOf, ActiveOf
  <2> QED BY <1>1, <1>4 DEF Actives
<1>5. ASSUME NEW m \in Commands, Actives[t] = NoCommand, Actives' = [Actives EXCEPT ![t] = m],
             Pendings' = Pendings
      PROVE  Promise!Next
  <2>1. Promise!Give(t, m)
      BY <1>5 DEF Promise!Give, Pendings, Actives, PendingOf, ActiveOf
  <2> QED BY <2>1 DEF Promise!Next
<1>6. ASSUME NEW m \in Commands, Actives[t] # NoCommand, ~ IsAutoCmd(Actives[t]),
             Pendings' = [Pendings EXCEPT ![t] = Append(Pendings[t], m)], Actives' = Actives
      PROVE  Promise!Next
  <2>1. Promise!Give(t, m)
      BY <1>6 DEF Promise!Give, Pendings, Actives, PendingOf, ActiveOf
  <2> QED BY <2>1 DEF Promise!Next
<1>7. ASSUME Actives[t] # NoCommand, Pendings[t] = << >>,
             Actives' = [Actives EXCEPT ![t] = NoCommand], Pendings' = Pendings
      PROVE  Promise!Next
  <2>1. Promise!Finish(t)
      BY <1>7 DEF Promise!Finish, Pendings, Actives, PendingOf, ActiveOf
  <2> QED BY <2>1 DEF Promise!Next
<1>8. ASSUME Actives[t] # NoCommand, Pendings[t] # << >>,
             Actives' = [Actives EXCEPT ![t] = Head(Pendings[t])],
             Pendings' = [Pendings EXCEPT ![t] = Tail(Pendings[t])]
      PROVE  Promise!Next
  <2>1. Promise!Finish(t)
      BY <1>8 DEF Promise!Finish, Pendings, Actives, PendingOf, ActiveOf
  <2> QED BY <2>1 DEF Promise!Next
<1> HIDE DEF PendingOf, ActiveOf, Pendings, Actives, IsAutoCmd
<1>9. CASE Given(t)
  <2>1. PICK m \in Commands :
          \/ ActiveOf(t) = NoCommand /\ ActiveOf(t)' = m /\ PendingOf(t)' = PendingOf(t)
          \/ /\ ActiveOf(t) # NoCommand /\ ~ IsAutoCmd(ActiveOf(t)) /\ ActiveOf(t)' = ActiveOf(t)
             /\ PendingOf(t)' = Append(PendingOf(t), m)
      BY <1>9 DEF Given
  <2> QED BY <1>1, <1>2, <1>3, <1>4, <1>5, <1>6, <2>1
<1>10. CASE Finished(t)
    BY <1>1, <1>2, <1>3, <1>4, <1>7, <1>8, <1>10 DEF Finished
<1> QED BY <1>9, <1>10

----------------------------------------------------------------------------
(* A train whose line of commands stays. *)

Still(t) ==
    /\ SameRing(conductors[t], conductors'[t])
    /\ conductors'[t].rdy = conductors[t].rdy /\ conductors'[t].tid = conductors[t].tid
    /\ task'[t] = task[t] /\ (Starting(t)' <=> Starting(t))

LEMMA StillKept ==
    ASSUME NEW t \in Trains, t \notin mixed, t \notin mixed', LineTrue(t), Still(t)
    PROVE  LineTrue(t)' /\ Kept(t)
<1> HIDE DEF Starting, RingTrue, Waiting, NextCommand
<1>1. PICK c : c = conductors[t]
    OBVIOUS
<1>2. PICK d : d = conductors'[t]
    OBVIOUS
<1>3. /\ SameRing(c, d) /\ d.rdy = c.rdy /\ d.tid = c.tid
      /\ task'[t] = task[t] /\ (Starting(t)' <=> Starting(t))
    BY <1>1, <1>2 DEF Still
<1>4. RingTrue(d) /\ NextCommand(d) = NextCommand(c) /\ d.available = c.available
      /\ Waiting(d, d.available) = Waiting(c, c.available)
    BY <1>1, <1>3, RingKept DEF LineTrue, SameRing
<1>5. LineTrue(t)'
    BY <1>1, <1>2, <1>3, <1>4 DEF LineTrue
<1>6. PendingOf(t)' = PendingOf(t)
    BY <1>1, <1>2, <1>3, <1>4 DEF PendingOf
<1>7. ActiveOf(t)' = ActiveOf(t)
    BY <1>1, <1>2, <1>3, <1>4 DEF ActiveOf
<1> QED BY <1>5, <1>6, <1>7 DEF Kept

LEMMA StillLine ==
    ASSUME Types, Types', NEW k \in {0, 1}, NEW F, Moves(k, F),
           NEW t \in Trains, t \notin mixed, t \notin mixed', Line(t),
           Still(t), NoLoad(F, t),
           conductors'[t].t2 = conductors[t].t2, demo'[t] = demo[t]
    PROVE  Line(t)' /\ Kept(t)
<1>1. conductors'[t].available <= conductors[t].available
  <2>1. conductors[t].available \in Int /\ conductors'[t].available = conductors[t].available
      BY DEF Still, SameRing, Types, Conductor
  <2> QED BY <2>1
<1>2. Fits(t)'
    BY <1>1, FitsKept DEF Line
<1>3. OneDemoMail(t)'
    BY DemoMailKept DEF Line, NoLoad, OneDemoMail
<1>4. LineTrue(t)' /\ Kept(t)
    BY StillKept DEF Line
<1> QED BY <1>2, <1>3, <1>4 DEF Line

----------------------------------------------------------------------------
(* The lines of commands, action by action. *)

Goes == Lines' /\ [Promise!Next]_Promise!vars

\* Nothing happens to the line of this train.
Same(F, t) ==
    /\ Still(t) /\ NoLoad(F, t)
    /\ conductors'[t].t2 = conductors[t].t2 /\ demo'[t] = demo[t]

\* A train that gets mixed up has no commands.
MixesUp ==
    /\ mixed \subseteq mixed'
    /\ \A t \in mixed' \ mixed : PendingOf(t) = << >> /\ ActiveOf(t) = NoCommand

LEMMA MixedKept ==
    ASSUME MixesUp, NEW t, t \in mixed'
    PROVE  Kept(t)
<1>1. PendingOf(t)' = << >> /\ ActiveOf(t)' = NoCommand
    BY DEF PendingOf, ActiveOf
<1>2. CASE t \in mixed
  <2>1. PendingOf(t) = << >> /\ ActiveOf(t) = NoCommand
      BY <1>2 DEF PendingOf, ActiveOf
  <2> HIDE DEF PendingOf, ActiveOf
  <2> QED BY <1>1, <2>1 DEF Kept
<1>3. CASE t \notin mixed
  <2>1. PendingOf(t) = << >> /\ ActiveOf(t) = NoCommand
      BY <1>3 DEF MixesUp
  <2> HIDE DEF PendingOf, ActiveOf
  <2> QED BY <1>1, <2>1 DEF Kept
<1> QED BY <1>2, <1>3

LEMMA AllSame ==
    ASSUME Types, Types', Lines, MixesUp, NEW k \in {0, 1}, NEW F, Moves(k, F),
           \A t \in Trains \ mixed' : Same(F, t)
    PROVE  Goes
<1>1. \A t \in Trains \ mixed' : Line(t)' /\ Kept(t)
    BY StillLine DEF Lines, Same, MixesUp
<1>2. \A t \in Trains : Kept(t)
  <2> HIDE DEF Kept
  <2> QED BY <1>1, MixedKept
<1> QED BY <1>1, <1>2, PromiseKept DEF Goes, Lines

LEMMA OthersSame ==
    ASSUME Types, Types', Lines, UNCHANGED mixed, NEW k \in {0, 1}, NEW F, Moves(k, F),
           NEW t \in Trains,
           \A u \in Trains : u # t => Same(F, u),
           t \in mixed \/ (Line(t)' /\ (Kept(t) \/ Given(t) \/ Finished(t)))
    PROVE  Goes
<1>1. MixesUp
    BY DEF MixesUp
<1>2. \A u \in Trains \ mixed : u # t => Line(u)' /\ Kept(u)
    BY StillLine DEF Lines, Same
<1>3. \A u \in Trains : u # t \/ t \in mixed => Kept(u)
  <2> HIDE DEF Kept
  <2> QED BY <1>1, <1>2, MixedKept
<1>4. Lines'
  <2> HIDE DEF Line
  <2> QED BY <1>2 DEF Lines
<1>5. CASE Kept(t) \/ t \in mixed
  <2>1. \A u \in Trains : Kept(u)
    <3> HIDE DEF Kept
    <3> QED BY <1>3, <1>5
  <2> QED BY <1>4, <2>1, PromiseKept DEF Goes
<1>6. CASE Given(t) \/ Finished(t)
  <2>1. \A u \in Trains : u # t => Kept(u)
    <3> HIDE DEF Kept
    <3> QED BY <1>3
  <2> QED BY <1>4, <1>6, <2>1, PromiseMoved DEF Goes
<1> QED BY <1>5, <1>6

LEMMA NothingWaits ==
    ASSUME NEW c
    PROVE  Waiting(c, 0) = << >>
BY DEF Waiting

\* A train in a group has no commands.
LEMMA GroupedIdle ==
    ASSUME Drivers, Lines, doing.op = "receive", NEW t \in Trains \ mixed, t \in Grouped
    PROVE  PendingOf(t) = << >> /\ ActiveOf(t) = NoCommand
<1>1. PICK c : c = conductors[t]
    OBVIOUS
<1>2. ~ c.tid
  <2>1. PICK k \in DOMAIN groups : t \in Members(groups[k])
      BY DEF Grouped
  <2> HIDE DEF Members
  <2> QED BY <1>1, <2>1 DEF Drivers, GroupsApart
<1>3. ~ Starting(t)
    BY DEF Starting
<1> HIDE DEF Starting, Waiting, NextCommand
<1>4. c.rdy /\ c.available = 0
    BY <1>1, <1>2 DEF Lines, Line, LineTrue
<1>5. PendingOf(t) = << >>
    BY <1>1, <1>3, <1>4, NothingWaits DEF PendingOf
<1>6. ActiveOf(t) = NoCommand
    BY <1>1, <1>3, <1>4 DEF ActiveOf
<1> QED BY <1>5, <1>6

LEMMA UnchangedStill ==
    ASSUME NEW t \in Trains, conductors'[t] = conductors[t], task'[t] = task[t],
           Starting(t)' <=> Starting(t)
    PROVE  Still(t)
BY DEF Still, SameRing

LEMMA OnTheWayFinite ==
    ASSUME Types
    PROVE  \A t : IsFiniteSet(OnTheWay(t)) /\ Cardinality(OnTheWay(t)) \in Nat
<1>1. IsFiniteSet(DOMAIN inbox)
  <2>1. DOMAIN inbox = 1 .. Len(inbox) /\ Len(inbox) \in Nat
      BY DEF Types
  <2> QED BY <2>1, FS_Interval
<1> QED BY <1>1, FS_Subset, FS_CardinalityType DEF OnTheWay

\* Where there is room, nothing else is on the way but what fits.
LEMMA RoomParts ==
    ASSUME MaxExcess = 0, Types, NEW t \in Trains, Room(t)
    PROVE  /\ conductors[t].available < QueueLen
           /\ (\E n \in DOMAIN inbox : inbox[n].train = t) => conductors[t].available + 1 < QueueLen
<1>1. /\ Cardinality(OnTheWay(t)) \in Nat
      /\ conductors[t].available + Cardinality(OnTheWay(t)) < QueueLen + 0
    BY OnTheWayFinite DEF Room
<1>2. conductors[t].available \in Int /\ QueueLen \in Int
    BY DispatcherAssumption DEF Types, Conductor
<1>3. (\E n \in DOMAIN inbox : inbox[n].train = t) => Cardinality(OnTheWay(t)) # 0
  <2>1. (\E n \in DOMAIN inbox : inbox[n].train = t) => OnTheWay(t) # {}
      BY DEF OnTheWay
  <2> QED BY <2>1, OnTheWayFinite, FS_EmptySet
<1> QED BY <1>1, <1>2, <1>3

LEMMA EnterLines ==
    ASSUME MaxExcess = 0, Drivers, Types', Stages, Lines, NEW op, NEW t, NEW arg,
           Enter(op, t, arg), NEW m \in Message,
           m = [from |-> "ui", op |-> op, train |-> t, arg |-> arg],
           op \in {"command", "t2start"} => t \in Trains /\ Room(t)
    PROVE  Goes
<1> HIDE DEF Starting
<1>0. Types
    BY DEF Drivers
<1>1. /\ inbox' = Append(inbox, m)
      /\ UNCHANGED <<doing, conductors, task, demo, mixed>>
      /\ \A n \in DOMAIN inbox : inbox[n].from # "ui"
      /\ m.from = "ui" /\ m.op = op /\ m.train = t /\ m.arg = arg
    BY DEF Enter, Mail, Drivers, OneRequest
<1>2. Moves(0, {m})
    BY <1>0, <1>1, AppendMoves
<1>3. \A u \in Trains : Still(u)
  <2>1. \A u : Starting(u)' <=> Starting(u)
      BY <1>1 DEF Starting
  <2> QED BY <1>1, <2>1, UnchangedStill
<1>4. \A u \in Trains : u # t \/ op \notin {"command", "t2start"} => Same({m}, u)
    BY <1>1, <1>3 DEF Same, NoLoad
<1>5. CASE op \notin {"command", "t2start"}
    BY <1>0, <1>1, <1>2, <1>4, <1>5, AllSame DEF MixesUp
<1>6. CASE op \in {"command", "t2start"}
  <2>1. t \in Trains /\ Room(t)
      BY <1>6
  <2>2. t \in mixed => Goes
      BY <1>0, <1>1, <1>2, <1>4, <2>1, OthersSame
  <2> SUFFICES ASSUME t \notin mixed, t \notin mixed' PROVE Goes
      BY <1>1, <2>2
  <2>3. /\ conductors[t].available < QueueLen
        /\ (\E n \in DOMAIN inbox : inbox[n].train = t) => conductors[t].available + 1 < QueueLen
      BY <1>0, <2>1, RoomParts
  <2>4. /\ conductors'[t].available = conductors[t].available
        /\ conductors[t].available \in Int /\ QueueLen \in Int /\ conductors[t].available >= 0
      BY <1>0, <1>1, <2>1, DispatcherAssumption DEF Types, Conductor, Stages, TrainTrue
  <2>5. DemoMailed(t)' => \E n \in DOMAIN inbox : inbox[n].train = t
    <3>1. DemoMailed(t)' => DemoMailed(t)
        BY <1>0, <1>1, <1>2, <2>1, MailedBefore
    <3> QED BY <3>1 DEF DemoMailed
  <2>6. Load(t)' <= QueueLen
    <3> HIDE DEF UserMailed, DemoMailed
    <3> QED BY <2>3, <2>4, <2>5 DEF Load
  <2>7. ReportFits(t)'
    <3> SUFFICES ASSUME NEW n \in DOMAIN inbox', inbox'[n].op = "ready", inbox'[n].train = t
                 PROVE  QueueLen >= 2
        BY DEF ReportFits
    <3>1. inbox'[n] # m
        BY <1>1, <1>6
    <3>2. n + 0 \in DOMAIN inbox /\ inbox'[n] = inbox[n + 0]
        BY <1>2, <3>1 DEF Moves
    <3> QED BY <2>3, <2>4, <3>2
  <2>8. OneDemoMail(t)'
      BY <1>1, <1>2, <2>1, DemoMailKept DEF Lines, Line, OneDemoMail
  <2>9. LineTrue(t)' /\ Kept(t)
      BY <1>3, <2>1, StillKept DEF Lines, Line
  <2>10. Line(t)'
      BY <2>6, <2>7, <2>8, <2>9 DEF Line, Fits
  <2> QED BY <1>0, <1>1, <1>2, <1>4, <2>1, <2>9, <2>10, OthersSame
<1> QED BY <1>5, <1>6

LEMMA UserLines ==
    ASSUME MaxExcess = 0, Drivers, Types', Stages, Lines, UserStep
    PROVE  Goes
<1> HIDE DEF Starting, Grouped, MayName
<1>1. ASSUME NEW t \in Driven, NEW c \in Commands, EnterCommand(t, c)
      PROVE  Goes
  <2>1. [from |-> "ui", op |-> "command", train |-> t, arg |-> c] \in Message /\ t \in Trains
      BY DispatcherAssumption DEF Message
  <2> QED BY <1>1, <2>1, EnterLines DEF EnterCommand
<1>2. ASSUME NEW t \in Driven, EnterT2Start(t)
      PROVE  Goes
  <2>1. [from |-> "ui", op |-> "t2start", train |-> t, arg |-> NoCommand] \in Message
        /\ t \in Trains
      BY DispatcherAssumption DEF Message
  <2> QED BY <1>2, <2>1, EnterLines DEF EnterT2Start
<1>3. ASSUME NEW t \in Driven, EnterT2Stop(t)
      PROVE  Goes
  <2>1. [from |-> "ui", op |-> "t2stop", train |-> t, arg |-> NoCommand] \in Message
      BY DispatcherAssumption DEF Message
  <2> QED BY <1>3, <2>1, EnterLines DEF EnterT2Stop
<1>4. ASSUME NEW members \in Orders, EnterGroup(members)
      PROVE  Goes
  <2>1. [from |-> "ui", op |-> "group", train |-> NoTrain, arg |-> members] \in Message
      BY DEF Message
  <2> QED BY <1>4, <2>1, EnterLines DEF EnterGroup
<1>5. ASSUME NEW k \in DOMAIN groups, EnterUngroup(k) \/ EnterGroupCommand(k)
      PROVE  Goes
  <2>1. k \in Nat /\ groups[k].members \in Orders
    <3>1. k \in Nat /\ groups[k] \in Group
        BY DEF Drivers, Types
    <3> QED BY <3>1 DEF Group
  <2>2. /\ [from |-> "ui", op |-> "ungroup", train |-> NoTrain,
            arg |-> groups[k].members] \in Message
        /\ [from |-> "ui", op |-> "groupcommand", train |-> NoTrain, arg |-> k] \in Message
      BY <2>1 DEF Message
  <2>3. CASE EnterUngroup(k)
      BY <2>2, <2>3, EnterLines DEF EnterUngroup
  <2>4. CASE EnterGroupCommand(k)
      BY <2>2, <2>4, EnterLines DEF EnterGroupCommand
  <2> QED BY <1>5, <2>3, <2>4
<1>6. ASSUME NEW ts \in SUBSET Trains, EnterSetTrains(ts)
      PROVE  Goes
  <2>1. [from |-> "ui", op |-> "set", train |-> NoTrain, arg |-> ts] \in Message
      BY DEF Message
  <2> QED BY <1>6, <2>1, EnterLines DEF EnterSetTrains
<1> QED BY <1>1, <1>2, <1>3, <1>4, <1>5, <1>6 DEF UserStep

LEMMA WorksLines ==
    ASSUME Types, Types', Lines, NEW t \in Trains, Works(t)
    PROVE  Goes
<1> HIDE DEF Starting
<1>1. UNCHANGED <<doing, conductors, task, demo, mixed>> /\ MixesUp
    BY DEF Works, Routes, Arrives, Reports, Conducts, MixesUp
<1>2. \A u \in Trains : Still(u)
  <2>1. \A u : Starting(u)' <=> Starting(u)
      BY <1>1 DEF Starting
  <2> QED BY <1>1, <2>1, UnchangedStill
<1>3. CASE UNCHANGED inbox
  <2>1. Moves(0, {})
      BY <1>3, StillMoves
  <2>2. \A u \in Trains : Same({}, u)
      BY <1>1, <1>2 DEF Same, NoLoad
  <2> QED BY <1>1, <2>1, <2>2, AllSame
<1>4. CASE Reports(t)
  <2> DEFINE m == [from |-> "conductor", op |-> "ready", train |-> t, arg |-> NoCommand]
  <2>1. /\ m \in Message /\ m.from = "conductor" /\ inbox' = Append(inbox, m)
      BY <1>4 DEF Reports, Mail, Message
  <2> HIDE DEF m
  <2>2. Moves(0, {m})
      BY <2>1, AppendMoves
  <2>3. \A u \in Trains : Same({m}, u)
      BY <1>1, <1>2, <2>1 DEF Same, NoLoad
  <2> QED BY <1>1, <2>2, <2>3, AllSame
<1> QED BY <1>3, <1>4 DEF Works, Routes, Arrives

LEMMA ReplacedLines ==
    ASSUME Types, Types', Lines, NEW t \in Trains, ReplacedReports(t)
    PROVE  Goes
<1> HIDE DEF Starting
<1>1. UNCHANGED <<doing, conductors, task, demo, mixed>> /\ MixesUp
    BY DEF ReplacedReports, MixesUp
<1>2. \A u \in Trains : Still(u)
  <2>1. \A u : Starting(u)' <=> Starting(u)
      BY <1>1 DEF Starting
  <2> QED BY <1>1, <2>1, UnchangedStill
<1> DEFINE m == [from |-> "replaced", op |-> "ready", train |-> t, arg |-> NoCommand]
<1>3. /\ m \in Message /\ m.from = "replaced" /\ inbox' = Append(inbox, m)
    BY DEF ReplacedReports, Mail, Message
<1> HIDE DEF m
<1>4. Moves(0, {m})
    BY <1>3, AppendMoves
<1>5. \A u \in Trains : Same({m}, u)
    BY <1>1, <1>2, <1>3 DEF Same, NoLoad
<1> QED BY <1>1, <1>4, <1>5, AllSame

LEMMA HandleGroupLines ==
    ASSUME Drivers, Types', Lines, HandleGroup
    PROVE  Goes
<1>0. Types
    BY DEF Drivers
<1>1. /\ inbox # << >> /\ inbox' = Tail(inbox) /\ UNCHANGED <<conductors, task, demo>>
      /\ doing.op = "receive" /\ doing'.op # "start"
    BY <1>0, ReceivesParts DEF HandleGroup, NotBusy
<1>2. mixed \subseteq mixed' /\ mixed' \ mixed \subseteq Grouped /\ mixed' \subseteq Trains
  <2> HIDE DEF Grouped
  <2>1. UNCHANGED mixed \/ \E ts : mixed' = mixed \cup (ts \cap Grouped)
      BY DEF HandleGroup
  <2>2. mixed' \subseteq Trains
      BY DEF Types
  <2> QED BY <2>1, <2>2
<1>3. MixesUp
    BY <1>1, <1>2, GroupedIdle DEF MixesUp
<1>4. Moves(1, {})
    BY <1>0, <1>1, TailMoves
<1>5. \A u \in Trains : Same({}, u)
    BY <1>1, NotStarting, UnchangedStill DEF Same, NoLoad
<1> QED BY <1>0, <1>3, <1>4, <1>5, AllSame

LEMMA QuietLines ==
    ASSUME Types, Types', Lines,
           \/ ReceivesFromDead \/ ReceivesFromForgotten \/ GroupMade
           \/ HandleUngroup \/ HandleGroupCommand \/ GroupTakes
           \/ \E k : GroupNotified(k) \/ GroupDone(k)
           \/ UNCHANGED vars
    PROVE  Goes
<1>1. CASE HandleUngroup \/ HandleGroupCommand
  <2>1. /\ inbox # << >> /\ inbox' = Tail(inbox)
        /\ UNCHANGED <<conductors, task, demo, mixed>>
        /\ doing.op # "start" /\ doing'.op # "start"
      BY <1>1, ReceivesParts DEF HandleUngroup, HandleGroupCommand, NotBusy
  <2>2. Moves(1, {}) /\ MixesUp
      BY <2>1, TailMoves DEF MixesUp
  <2>3. \A u \in Trains : Same({}, u)
      BY <2>1, NotStarting, UnchangedStill DEF Same, NoLoad
  <2> QED BY <2>2, <2>3, AllSame
<1>2. CASE GroupMade \/ GroupTakes
  <2>1. /\ UNCHANGED <<inbox, conductors, task, demo, mixed>>
        /\ doing.op # "start" /\ doing'.op # "start"
      BY <1>2 DEF GroupMade, GroupTakes, NotBusy
  <2>2. Moves(0, {}) /\ MixesUp
      BY <2>1, StillMoves DEF MixesUp
  <2>3. \A u \in Trains : Same({}, u)
      BY <2>1, NotStarting, UnchangedStill DEF Same, NoLoad
  <2> QED BY <2>2, <2>3, AllSame
<1>3. CASE \/ ReceivesFromDead \/ ReceivesFromForgotten
           \/ (\E k : GroupNotified(k) \/ GroupDone(k)) \/ UNCHANGED vars
  <2>1. UNCHANGED <<inbox, doing, conductors, task, demo, mixed>>
      BY <1>3 DEF ReceivesFromDead, ReceivesFromForgotten, GroupNotified, GroupDone,
                  GroupWorks, vars
  <2>2. Moves(0, {}) /\ MixesUp
      BY <2>1, StillMoves DEF MixesUp
  <2>3. \A u : Starting(u)' <=> Starting(u)
      BY <2>1 DEF Starting
  <2>4. \A u \in Trains : Same({}, u)
    <3> HIDE DEF Starting
    <3> QED BY <2>1, <2>3, UnchangedStill DEF Same, NoLoad
  <2> QED BY <2>2, <2>4, AllSame
<1> QED BY <1>1, <1>2, <1>3

LEMMA HandleT2StopLines ==
    ASSUME Drivers, Types', Lines, HandleT2Stop
    PROVE  Goes
<1> HIDE DEF Starting
<1>0. Types
    BY DEF Drivers
<1>1. PICK m \in Message : m = inbox[1]
    BY <1>0, ReceivesParts DEF HandleT2Stop
<1>2. /\ inbox # << >> /\ 1 \in DOMAIN inbox /\ inbox' = Tail(inbox)
      /\ UNCHANGED <<doing, task, mixed>>
      /\ m = Head(inbox) /\ m.train \in Trains /\ m.from = "ui"
    BY <1>0, <1>1, ReceivesParts, MessageParts DEF HandleT2Stop
<1>3. PICK t \in Trains : t = m.train
    BY <1>2
<1>4. PICK c \in Conductor : c = conductors[t]
    BY <1>0 DEF Types
<1>5. \/ ~ c.t2 /\ UNCHANGED <<conductors, demo>>
      \/ /\ conductors' = [conductors EXCEPT ![t] = ForgetDemo(c)] /\ c.t2
         /\ demo' = [demo EXCEPT ![t] = IF @ = "sending" THEN "killed" ELSE "none"]
    BY <1>2, <1>3, <1>4 DEF HandleT2Stop
<1>6. /\ \A u \in Trains : u # t => conductors'[u] = conductors[u] /\ demo'[u] = demo[u]
      /\ conductors'[t] \in {c, ForgetDemo(c)}
      /\ conductors'[t].t2 => demo'[t] = demo[t] /\ conductors[t].t2
      /\ demo'[t] \in {demo[t], IF demo[t] = "sending" THEN "killed" ELSE "none"}
      /\ demo[t] = "killed" => c.t2 \/ demo'[t] = "killed"
    BY <1>0, <1>4, <1>5, ForgetParts DEF Types
<1>7. \A u : Starting(u)' <=> Starting(u)
    BY <1>2 DEF Starting
<1>8. Moves(1, {})
    BY <1>0, <1>2, TailMoves
<1>9. \A u \in Trains : u # t => Same({}, u)
    BY <1>2, <1>6, <1>7, UnchangedStill DEF Same, NoLoad
<1>10. t \in mixed => Goes
    BY <1>0, <1>2, <1>8, <1>9, OthersSame
<1> SUFFICES ASSUME t \notin mixed, t \notin mixed' PROVE Goes
    BY <1>2, <1>10
<1>11. Still(t)
  <2>1. /\ SameRing(c, conductors'[t]) /\ conductors'[t].rdy = c.rdy
        /\ conductors'[t].tid = c.tid
    <3>1. \A d \in {c, ForgetDemo(c)} : SameRing(c, d) /\ d.rdy = c.rdy /\ d.tid = c.tid
      <4>1. SameRing(c, c)
          BY DEF SameRing
      <4>2. SameRing(c, ForgetDemo(c)) /\ ForgetDemo(c).rdy = c.rdy /\ ForgetDemo(c).tid = c.tid
          BY RingUntouched, ForgetParts
      <4> QED BY <4>1, <4>2
    <3>2. PICK d \in {c, ForgetDemo(c)} : d = conductors'[t]
        BY <1>6
    <3> QED BY <3>1, <3>2, Zenon
  <2> QED BY <1>2, <1>4, <1>7, <2>1 DEF Still
<1>12. OneDemoMail(t)'
  <2>1. OneDemoMail(t)
      BY DEF Lines, Line
  <2>2. \A n \in DOMAIN inbox : n > 1 /\ inbox[n].op = "t2start" => inbox[n].train # t
    <3>1. \A n \in DOMAIN inbox : inbox[n].op = "t2start" => inbox[n].from = "ui"
        BY <1>0, RequestsOfUser
    <3>2. \A n \in DOMAIN inbox : n > 1 => n # 1
        BY <1>0 DEF Types
    <3> QED BY <1>1, <1>2, <3>1, <3>2 DEF Drivers, OneRequest
  <2>3. demo[t] \in {"sending", "killed"} => demo'[t] \in {"sending", "killed"}
      BY <1>4, <1>6, <2>1 DEF OneDemoMail
  <2>4. conductors'[t].t2 => demo'[t] # "killed"
      BY <1>6, <2>1 DEF OneDemoMail
  <2> QED BY <1>8, <2>1, <2>2, <2>3, <2>4, DemoMailKept
<1>13. Fits(t)'
  <2>1. conductors'[t].available <= conductors[t].available
    <3>1. conductors'[t].available = c.available /\ c.available \in Int
        BY <1>6, ForgetParts DEF Conductor
    <3> QED BY <1>4, <3>1
  <2> QED BY <1>0, <1>8, <2>1, FitsKept DEF Lines, Line, NoLoad
<1>14. LineTrue(t)' /\ Kept(t)
    BY <1>11, StillKept DEF Lines, Line
<1>15. Line(t)'
    BY <1>12, <1>13, <1>14 DEF Line
<1> QED BY <1>0, <1>2, <1>8, <1>9, <1>14, <1>15, OthersSame

LEMMA HandleT2StartLines ==
    ASSUME Drivers, Types', Lines, HandleT2Start
    PROVE  Goes
<1> HIDE DEF Starting
<1>0. Types
    BY DEF Drivers
<1>1. PICK m \in Message : m = inbox[1]
    BY <1>0, ReceivesParts DEF HandleT2Start
<1>2. /\ inbox # << >> /\ 1 \in DOMAIN inbox /\ Tail(inbox) \in Seq(Message)
      /\ UNCHANGED <<doing, task, mixed>>
      /\ m = Head(inbox) /\ m.train \in Trains /\ m.from = "ui" /\ m.op = "t2start"
    BY <1>0, <1>1, ReceivesParts, MessageParts DEF HandleT2Start
<1>3. PICK t \in Trains : t = m.train
    BY <1>2
<1>4. PICK c \in Conductor : c = conductors[t]
    BY <1>0 DEF Types
<1>5. \A u : Starting(u)' <=> Starting(u)
    BY <1>2 DEF Starting
<1>6. CASE inbox' = Tail(inbox) /\ UNCHANGED <<conductors, demo>>
  <2>1. Moves(1, {})
      BY <1>0, <1>2, <1>6, TailMoves
  <2>2. \A u \in Trains : Same({}, u)
      BY <1>2, <1>5, <1>6, UnchangedStill DEF Same, NoLoad
  <2> QED BY <1>0, <1>2, <2>1, <2>2, AllSame DEF MixesUp
<1>7. CASE /\ ~ c.t2 /\ conductors' = [conductors EXCEPT ![t] = [c EXCEPT !.t2 = TRUE]]
           /\ demo' = [demo EXCEPT ![t] = "sending"]
           /\ DemoSends(t, Tail(inbox))
  <2>1. PICK d : DemoMail(d, t) /\ inbox' = Append(Tail(inbox), d)
      BY <1>7, DemoSendsParts
  <2>2. d \in Message /\ d.train = t /\ d.from = "demo" /\ d.op = "command"
      BY <2>1, MessageParts DEF DemoMail
  <2>3. Moves(1, {d})
      BY <1>0, <1>2, <2>1, <2>2, PassMoves
  <2>4. /\ conductors'[t] = [c EXCEPT !.t2 = TRUE] /\ demo'[t] = "sending"
        /\ \A u \in Trains : u # t => conductors'[u] = conductors[u] /\ demo'[u] = demo[u]
      BY <1>0, <1>7 DEF Types
  <2>5. /\ SameRing(c, conductors'[t]) /\ conductors'[t].t2
        /\ conductors'[t].rdy = c.rdy /\ conductors'[t].tid = c.tid
        /\ conductors'[t].available = c.available /\ c.available \in Int
    <3>1. PICK e : e = [c EXCEPT !.t2 = TRUE]
        OBVIOUS
    <3>2. e.t2 /\ e.rdy = c.rdy /\ e.tid = c.tid /\ e.available = c.available
          /\ c.available \in Int
        BY <3>1 DEF Conductor
    <3>3. SameRing(c, e)
        BY <3>1, RingUntouched
    <3>4. PICK e2 : e2 = conductors'[t]
        OBVIOUS
    <3>5. e2 = e
        BY <2>4, <3>1, <3>4
    <3> QED BY <3>2, <3>3, <3>4, <3>5
  <2>6. \A u \in Trains : u # t => Same({d}, u)
      BY <1>2, <1>5, <2>2, <2>4, UnchangedStill DEF Same, NoLoad
  <2>7. t \in mixed => Goes
      BY <1>0, <1>2, <2>3, <2>6, OthersSame
  <2> SUFFICES ASSUME t \notin mixed, t \notin mixed' PROVE Goes
      BY <1>2, <2>7
  <2>8. Still(t)
      BY <1>2, <1>4, <1>5, <2>5 DEF Still
  <2>9. LineTrue(t)' /\ Kept(t)
      BY <2>8, StillKept DEF Lines, Line
  <2>10. \A n \in DOMAIN inbox : n > 1 => ~ (inbox[n].from = "demo" /\ inbox[n].train = t)
    <3>1. OneDemoMail(t)
        BY DEF Lines, Line
    <3> QED BY <1>1, <1>2, <1>3, <1>4, <1>7, <3>1 DEF OneDemoMail
  <2>11. OneDemoMail(t)'
      BY <2>3, <2>4, <2>5, <2>10, DemoMailComes
  <2>12. ReportFits(t)' /\ (UserMailed(t, 0)' => UserMailed(t, 1))
      BY <1>0, <2>2, <2>3, MailedBefore DEF Lines, Line, Fits
  <2>13. ~ UserMailed(t, 1) /\ UserMailed(t, 0)
    <3>1. \A n \in DOMAIN inbox : n > 1 => n # 1
        BY <1>0 DEF Types
    <3> QED BY <1>1, <1>2, <1>3, <3>1 DEF UserMailed, Drivers, OneRequest
  <2>14. Load(t)' <= QueueLen
    <3> HIDE DEF UserMailed, DemoMailed
    <3>1. Load(t) <= QueueLen /\ QueueLen \in Int
        BY DispatcherAssumption DEF Lines, Line, Fits
    <3> QED BY <1>4, <2>5, <2>12, <2>13, <3>1 DEF Load
  <2>15. Line(t)'
      BY <2>9, <2>11, <2>12, <2>14 DEF Line, Fits
  <2> QED BY <1>0, <1>2, <2>3, <2>6, <2>9, <2>15, OthersSame
<1>8. conductors' = [conductors EXCEPT ![t].t2 = TRUE] =>
          conductors' = [conductors EXCEPT ![t] = [c EXCEPT !.t2 = TRUE]]
    BY <1>4
<1> QED BY <1>2, <1>3, <1>4, <1>6, <1>7, <1>8 DEF HandleT2Start

\* No command is NoCommand.
LEMMA CommandsAre == NoCommand \notin Commands
BY DEF Commands, NoCommand

\* Whoever has given a command has one on the way less, and the queue has one more.
LEMMA HandleCommandLines ==
    ASSUME Drivers, Types', Stages, Lines, HandleCommand
    PROVE  Goes
<1> HIDE DEF Starting, IsAutoCmd, Forgotten
<1>0. Types
    BY DEF Drivers
<1>1. PICK m \in Message : m = inbox[1]
    BY <1>0, ReceivesParts DEF HandleCommand
<1>2. /\ inbox # << >> /\ 1 \in DOMAIN inbox /\ inbox' = Tail(inbox)
      /\ UNCHANGED <<stage, task, mixed>> /\ doing = NotBusy
      /\ m = Head(inbox) /\ m.train \in Trains /\ m.arg \in Commands
      /\ m.op = "command" /\ m.from \in {"ui", "demo"}
    BY <1>0, <1>1, ReceivesParts, MessageParts DEF HandleCommand
<1>3. PICK t \in Trains, p \in Commands : t = m.train /\ p = m.arg
    BY <1>2
<1>4. PICK c \in Conductor : c = conductors[t]
    BY <1>0 DEF Types
<1>5. /\ demo' = IF m.from = "demo" THEN [demo EXCEPT ![t] = "awaiting"] ELSE demo
      /\ \/ UNCHANGED <<doing, conductors>>
         \/ /\ c.tid /\ ~ c.auto
            /\ conductors' = [conductors EXCEPT ![t] = Store(c, p)]
            /\ doing' = IF c.rdy THEN [op |-> "start", train |-> t, ready |-> FALSE]
                        ELSE NotBusy
    BY <1>2, <1>3, <1>4 DEF HandleCommand
<1>6. Moves(1, {})
    BY <1>0, <1>2, TailMoves
<1>7. /\ \A s : ~ Starting(s)
      /\ \A s : Starting(s)' => s = t /\ c.rdy /\ doing' # doing
      /\ doing' # doing => Starting(t)'
    BY <1>2, <1>5 DEF Starting, NotBusy
<1>8. ASSUME NEW u \in Trains, u # t, conductors'[u] = conductors[u]
       PROVE  Same({}, u)
  <2>1. demo'[u] = demo[u] /\ task'[u] = task[u] /\ (Starting(u)' <=> Starting(u))
      BY <1>0, <1>2, <1>5, <1>7, <1>8 DEF Types
  <2> QED BY <1>8, <2>1, UnchangedStill DEF Same, NoLoad
<1>9. t \in mixed => Goes
  <2>1. \A u \in Trains : u # t => conductors'[u] = conductors[u]
      BY <1>0, <1>5 DEF Types
  <2> QED BY <1>0, <1>2, <1>6, <1>8, <2>1, OthersSame
<1> SUFFICES ASSUME t \notin mixed, t \notin mixed' PROVE Goes
    BY <1>2, <1>9
<1>10. OneDemoMail(t) /\ Fits(t) /\ LineTrue(t) /\ TrainTrue(t)
    BY DEF Lines, Line, Stages
<1>11. /\ ReportFits(t)' /\ (UserMailed(t, 0)' => UserMailed(t, 1))
       /\ DemoMailed(t)' => DemoMailed(t)
       /\ UserMailed(t, 1) => UserMailed(t, 0)
    BY <1>0, <1>6, <1>10, MailedBefore DEF Fits
<1>12. m.from = "ui" => UserMailed(t, 0) /\ ~ UserMailed(t, 0)'
  <2>1. \A n \in DOMAIN inbox : n > 1 => n # 1
      BY <1>0 DEF Types
  <2>2. m.from = "ui" => UserMailed(t, 0)
      BY <1>1, <1>2, <1>3 DEF UserMailed
  <2>3. m.from = "ui" => ~ UserMailed(t, 1)
      BY <1>1, <1>2, <1>3, <2>1 DEF UserMailed, Drivers, OneRequest
  <2> HIDE DEF UserMailed
  <2> QED BY <1>11, <2>2, <2>3
<1>13. m.from = "demo" => DemoMailed(t) /\ OneDemoMail(t)' /\ ~ DemoMailed(t)'
  <2> SUFFICES ASSUME m.from = "demo"
               PROVE  DemoMailed(t) /\ OneDemoMail(t)' /\ ~ DemoMailed(t)'
      OBVIOUS
  <2>1. demo'[t] = "awaiting"
      BY <1>0, <1>5 DEF Types
  <2>2. OneDemoMail(t)' /\ ~ DemoMailed(t)'
      BY <1>1, <1>2, <1>3, <1>6, <1>10, <2>1, DemoMailGone
  <2>3. DemoMailed(t)
      BY <1>1, <1>2, <1>3 DEF DemoMailed
  <2> QED BY <2>2, <2>3
<1>14. ASSUME conductors'[t].t2 = c.t2 PROVE OneDemoMail(t)'
  <2>1. CASE m.from = "ui"
    <3>1. demo' = demo /\ (conductors'[t].t2 => demo'[t] # "killed")
        BY <1>4, <1>5, <1>10, <1>14, <2>1 DEF OneDemoMail
    <3> QED BY <1>4, <1>6, <1>10, <1>14, <3>1, DemoMailKept
  <2> QED BY <1>2, <1>13, <2>1
<1>15. /\ c.available < QueueLen
       /\ conductors'[t].available <= c.available + 1 => Fits(t)'
  <2> HIDE DEF UserMailed, DemoMailed
  <2>1. /\ Load(t) <= QueueLen /\ QueueLen \in Int /\ c.available \in Int
        /\ conductors'[t].available \in Int
      BY <1>10, DispatcherAssumption DEF Fits, Types, Conductor
  <2>2. c.available < QueueLen
      BY <1>2, <1>4, <1>12, <1>13, <2>1 DEF Load
  <2>3. conductors'[t].available <= c.available + 1 => Load(t)' <= QueueLen
      BY <1>2, <1>4, <1>11, <1>12, <1>13, <2>1 DEF Load
  <2> QED BY <1>11, <2>2, <2>3 DEF Fits
<1>16. CASE UNCHANGED <<doing, conductors>>
  <2>1. conductors'[t] = c /\ c.available \in Int /\ (Starting(t)' <=> Starting(t))
      BY <1>4, <1>7, <1>16 DEF Conductor
  <2>2. Still(t)
      BY <1>2, <1>4, <2>1, UnchangedStill
  <2>3. LineTrue(t)' /\ Kept(t)
      BY <1>10, <2>2, StillKept
  <2>4. conductors'[t].available <= c.available + 1 /\ conductors'[t].t2 = c.t2
      BY <2>1
  <2>5. Line(t)'
      BY <1>14, <1>15, <2>3, <2>4 DEF Line
  <2> QED BY <1>0, <1>2, <1>6, <1>8, <1>16, <2>3, <2>5, OthersSame
<1>17. CASE /\ c.tid /\ ~ c.auto
            /\ conductors' = [conductors EXCEPT ![t] = Store(c, p)]
            /\ doing' = IF c.rdy THEN [op |-> "start", train |-> t, ready |-> FALSE]
                        ELSE NotBusy
  <2>1. PICK d \in Conductor : d = Store(c, p)
      BY StoreParts
  <2>2. conductors'[t] = d /\ \A u \in Trains : u # t => conductors'[u] = conductors[u]
      BY <1>0, <1>17, <2>1 DEF Types
  <2>3. /\ d.tid = c.tid /\ d.rdy = c.rdy /\ d.t2 = c.t2 /\ d.available = c.available + 1
        /\ c.available \in Int
      BY <2>1, StoreParts DEF SameFlags, Conductor
  <2>4. /\ RingTrue(c) /\ c.available >= 0
        /\ c.rdy => c.available = 0
        /\ ~ c.rdy => task[t] \in Commands /\ ~ IsAutoCmd(task[t])
      BY <1>4, <1>7, <1>10, <1>17 DEF LineTrue, TrainTrue
  <2>5. /\ RingTrue(d)
        /\ Waiting(d, d.available) = Append(Waiting(c, c.available), p)
      BY <1>15, <2>1, <2>3, <2>4, StoreAppends
  <2>6. conductors'[t].available <= c.available + 1 /\ conductors'[t].t2 = c.t2
      BY <2>2, <2>3
  <2>7. Fits(t)' /\ OneDemoMail(t)'
      BY <1>14, <1>15, <2>6
  <2> HIDE DEF RingTrue, Waiting, NextCommand
  <2>8. Starting(t)' <=> c.rdy
      BY <1>2, <1>7, <1>17 DEF NotBusy
  <2>9. LineTrue(t)'
      BY <1>2, <1>17, <2>2, <2>3, <2>4, <2>5, <2>8 DEF LineTrue
  <2>10. ASSUME c.rdy PROVE Given(t)
    <3>1. Waiting(c, c.available) = << >> /\ d.available = 1 /\ c.available = 0
        BY <2>3, <2>4, <2>10, NothingWaits
    <3>2. Waiting(d, d.available) = <<p>>
        BY <2>5, <3>1
    <3>3. NextCommand(d) = Head(Waiting(d, d.available))
      <4>1. d.available > 0 /\ d.available <= QueueLen
          BY <3>1, DispatcherAssumption
      <4> QED BY <2>5, <4>1, StartTakesFirst
    <3>4. ActiveOf(t) = NoCommand /\ ActiveOf(t)' = p
        BY <1>4, <1>7, <2>2, <2>8, <2>10, <3>2, <3>3 DEF ActiveOf
    <3>5. PendingOf(t) = << >> /\ PendingOf(t)' = << >>
      <4>1. Tail(<<p>>) = << >>
          OBVIOUS
      <4>2. PendingOf(t) = Waiting(c, c.available)
          BY <1>4, <1>7 DEF PendingOf
      <4>3. PendingOf(t)' = Tail(Waiting(d, d.available))
          BY <2>2, <2>8, <2>10 DEF PendingOf
      <4> QED BY <3>1, <3>2, <4>1, <4>2, <4>3
    <3> QED BY <3>4, <3>5 DEF Given
  <2>11. ASSUME ~ c.rdy PROVE Given(t)
    <3>1. ActiveOf(t) = task[t] /\ ActiveOf(t)' = task[t]
        BY <1>2, <1>4, <1>7, <2>2, <2>3, <2>8, <2>11 DEF ActiveOf
    <3>2. PendingOf(t) = Waiting(c, c.available) /\ PendingOf(t)' = Waiting(d, d.available)
        BY <1>4, <1>7, <2>2, <2>8, <2>11 DEF PendingOf
    <3>3. task[t] # NoCommand /\ ~ IsAutoCmd(task[t])
        BY <2>4, <2>11, CommandsAre
    <3> HIDE DEF PendingOf, ActiveOf
    <3> QED BY <2>5, <3>1, <3>2, <3>3 DEF Given
  <2>12. Line(t)'
      BY <2>7, <2>9 DEF Line
  <2> HIDE DEF Given
  <2> QED BY <1>0, <1>2, <1>6, <1>8, <2>2, <2>10, <2>11, <2>12, OthersSame
<1> QED BY <1>5, <1>16, <1>17

\* A demo task that is let go finds room for its message.
LEMMA LetDemoGoLines ==
    ASSUME Types, Types', NEW k \in {0, 1}, NEW t \in Trains, OneDemoMail(t), Fits(t),
           NEW e \in Conductor, e.t2 = conductors[t].t2,
           e.available <= conductors[t].available,
           e.available + (IF UserMailed(t, k) THEN 1 ELSE 0) + 1 <= QueueLen,
           NEW rest, LetDemoGo(t, e, rest),
           inbox' = rest => Moves(k, {}),
           \A d \in Message : inbox' = Append(rest, d) => Moves(k, {d})
    PROVE  \E F : /\ Moves(k, F)
                  /\ \A u \in Trains : u # t => NoLoad(F, u) /\ demo'[u] = demo[u]
                  /\ OneDemoMail(t)' /\ Fits(t)'
<1>1. /\ conductors' = [conductors EXCEPT ![t] = ForgetDestination(e)]
      /\ \/ ~ e.t2 /\ inbox' = rest /\ UNCHANGED <<demo, failed>>
         \/ e.t2 /\ demo[t] # "awaiting" /\ failed' = "assert" /\ inbox' = rest
                /\ UNCHANGED demo
         \/ e.t2 /\ demo[t] = "awaiting" /\ LetsDemoGo(t, rest)
    BY LetDemoGoParts
<1>2. PICK f : f = ForgetDestination(e)
    OBVIOUS
<1>3. conductors'[t] = f /\ f.t2 = e.t2 /\ f.available = e.available
    BY <1>1, <1>2, ForgetParts DEF Types
<1>4. /\ conductors'[t].t2 = conductors[t].t2 /\ conductors'[t].available = e.available
      /\ e.available \in Int /\ conductors'[t].available <= conductors[t].available
    BY <1>3 DEF Conductor
<1>5. CASE inbox' = rest /\ UNCHANGED demo
  <2>1. Moves(k, {}) /\ NoLoad({}, t) /\ \A u \in Trains : NoLoad({}, u)
      BY <1>5 DEF NoLoad
  <2>2. OneDemoMail(t)'
      BY <1>4, <1>5, <2>1, DemoMailKept DEF OneDemoMail
  <2>3. Fits(t)'
      BY <1>4, <2>1, FitsKept
  <2> QED BY <1>5, <2>1, <2>2, <2>3
<1>6. CASE e.t2 /\ demo[t] = "awaiting" /\ LetsDemoGo(t, rest)
  <2>1. PICK d : DemoMail(d, t) /\ inbox' = Append(rest, d)
      BY <1>6 DEF LetsDemoGo
  <2>2. d \in Message /\ d.train = t /\ d.from = "demo" /\ d.op = "command"
      BY <2>1, MessageParts DEF DemoMail
  <2>3. Moves(k, {d})
      BY <2>1, <2>2
  <2>4. demo'[t] = "sending" /\ \A u \in Trains : u # t => demo'[u] = demo[u]
      BY <1>6 DEF LetsDemoGo, Types
  <2>5. \A n \in DOMAIN inbox : ~ (inbox[n].from = "demo" /\ inbox[n].train = t)
      BY <1>6 DEF OneDemoMail, DemoMailed
  <2>6. OneDemoMail(t)'
      BY <1>3, <1>6, <2>3, <2>4, <2>5, DemoMailComes
  <2>7. ReportFits(t)' /\ (UserMailed(t, 0)' => UserMailed(t, k))
      BY <2>2, <2>3, MailedBefore DEF Fits
  <2>8. Load(t)' <= QueueLen
    <3> HIDE DEF UserMailed, DemoMailed
    <3>1. QueueLen \in Int
        BY DispatcherAssumption
    <3> QED BY <1>4, <2>7, <3>1 DEF Load
  <2>9. Fits(t)'
      BY <2>7, <2>8 DEF Fits
  <2>10. \A u \in Trains : u # t => NoLoad({d}, u) /\ demo'[u] = demo[u]
      BY <2>2, <2>4 DEF NoLoad
  <2> QED BY <2>3, <2>6, <2>9, <2>10
<1> QED BY <1>1, <1>5, <1>6

\* The other trains have nothing of it.
LEMMA LetDemoGoOthers ==
    ASSUME Types, Types', NEW k \in {0, 1}, NEW t \in Trains, NEW e,
           NEW rest, LetDemoGo(t, e, rest),
           inbox' = rest => Moves(k, {}),
           \A d \in Message : inbox' = Append(rest, d) => Moves(k, {d})
    PROVE  \E F : /\ Moves(k, F)
                  /\ \A u \in Trains : u # t =>
                        /\ NoLoad(F, u) /\ demo'[u] = demo[u]
                        /\ conductors'[u] = conductors[u]
<1>1. /\ conductors' = [conductors EXCEPT ![t] = ForgetDestination(e)]
      /\ \/ inbox' = rest /\ UNCHANGED demo
         \/ LetsDemoGo(t, rest)
    BY LetDemoGoParts
<1>2. \A u \in Trains : u # t => conductors'[u] = conductors[u]
    BY <1>1 DEF Types
<1>3. CASE inbox' = rest /\ UNCHANGED demo
  <2>1. Moves(k, {}) /\ \A u \in Trains : NoLoad({}, u)
      BY <1>3 DEF NoLoad
  <2> QED BY <1>2, <1>3, <2>1
<1>4. CASE LetsDemoGo(t, rest)
  <2>1. PICK d : DemoMail(d, t) /\ inbox' = Append(rest, d)
      BY <1>4 DEF LetsDemoGo
  <2>2. d \in Message /\ d.train = t
      BY <2>1, MessageParts DEF DemoMail
  <2>3. Moves(k, {d}) /\ \A u \in Trains : u # t => NoLoad({d}, u) /\ demo'[u] = demo[u]
      BY <1>4, <2>1, <2>2 DEF LetsDemoGo, Types, NoLoad
  <2> QED BY <1>2, <2>3
<1> QED BY <1>1, <1>3, <1>4

\* No more commands wait than the queue holds.
LEMMA LoadParts ==
    ASSUME Types, NEW t \in Trains, Fits(t), NEW c \in Conductor, c = conductors[t]
    PROVE  /\ c.available \in Int /\ c.available <= QueueLen
           /\ c.available + (IF UserMailed(t, 0) THEN 1 ELSE 0) <= QueueLen
           /\ DemoMailed(t) \/ UserMailed(t, 0) => c.available < QueueLen
<1> HIDE DEF UserMailed, DemoMailed
<1>1. c.available \in Int /\ QueueLen \in Int
    BY DispatcherAssumption DEF Conductor
<1>2. Load(t) <= QueueLen
    BY DEF Fits
<1> QED BY <1>1, <1>2 DEF Load

LEMMA HandleReadyLines ==
    ASSUME Drivers, Types', Stages, Lines, HandleReady
    PROVE  Goes
<1> HIDE DEF Starting, IsAutoCmd, RingTrue, Waiting, NextCommand
<1>0. Types
    BY DEF Drivers
<1>1. PICK t \in Trains : t = Head(inbox).train
    BY <1>0, ReceivesParts, MessageParts DEF HandleReady
<1>2. PICK c \in Conductor : c = conductors[t]
    BY <1>0 DEF Types
<1>3. /\ inbox # << >> /\ inbox[1] = Head(inbox) /\ 1 \in DOMAIN inbox
      /\ inbox[1].op = "ready" /\ Tail(inbox) \in Seq(Message)
      /\ doing = NotBusy /\ UNCHANGED <<task, mixed>>
    BY <1>0, ReceivesParts DEF HandleReady
<1>4. \A s : ~ Starting(s)
    BY <1>3 DEF Starting, NotBusy
<1>5. t \in mixed => Goes
  <2>1. \A s : Starting(s)' => s = t
      BY <1>1, <1>3 DEF HandleReady, Starting, NotBusy
  <2>2. \E F : /\ Moves(1, F)
               /\ \A u \in Trains : u # t =>
                     /\ NoLoad(F, u) /\ demo'[u] = demo[u]
                     /\ conductors'[u] = conductors[u]
    <3>1. inbox' = Tail(inbox) => Moves(1, {})
        BY <1>0, <1>3, TailMoves
    <3>2. \A m \in Message : inbox' = Append(Tail(inbox), m) => Moves(1, {m})
        BY <1>0, <1>3, PassMoves
    <3>3. CASE inbox' = Tail(inbox) /\ UNCHANGED <<conductors, demo>>
      <4>1. Moves(1, {}) /\ \A u \in Trains : NoLoad({}, u)
          BY <3>1, <3>3 DEF NoLoad
      <4> QED BY <3>3, <4>1
    <3>4. CASE LetDemoGo(t, Idle(c), Tail(inbox))
        BY <1>0, <3>1, <3>2, <3>4, LetDemoGoOthers
    <3> QED BY <1>1, <1>2, <3>3, <3>4 DEF HandleReady
  <2>3. PICK F : /\ Moves(1, F)
                 /\ \A u \in Trains : u # t =>
                       /\ NoLoad(F, u) /\ demo'[u] = demo[u]
                       /\ conductors'[u] = conductors[u]
      BY <2>2
  <2>4. \A u \in Trains : u # t => Same(F, u)
      BY <1>3, <1>4, <2>1, <2>3, UnchangedStill DEF Same
  <2> QED BY <1>0, <1>3, <2>3, <2>4, OthersSame
<1> SUFFICES ASSUME t \notin mixed, t \notin mixed' PROVE Goes
    BY <1>3, <1>5
<1>6. OneDemoMail(t) /\ Fits(t) /\ LineTrue(t) /\ TrainTrue(t)
    BY DEF Lines, Line, Stages
<1>7. /\ c.tid /\ ~ c.rdy /\ c.available >= 0 /\ RingTrue(c)
      /\ task[t] \in Commands
  <2>1. stage[t] = "reporting"
      BY <1>1, <1>3 DEF Stages, ReportsTrue
  <2> QED BY <1>2, <1>4, <1>6, <2>1 DEF TrainTrue, LineTrue
<1>8. c.available \in Int /\ c.available <= QueueLen
    BY <1>0, <1>2, <1>6, LoadParts
<1>9. /\ ActiveOf(t) = task[t] /\ ActiveOf(t) # NoCommand
      /\ PendingOf(t) = Waiting(c, c.available)
    BY <1>2, <1>4, <1>7, CommandsAre DEF ActiveOf, PendingOf
<1>10. CASE /\ c.available > 0
            /\ doing' = [op |-> "start", train |-> t, ready |-> TRUE]
            /\ inbox' = Tail(inbox) /\ UNCHANGED <<conductors, demo>>
  <2>1. Moves(1, {}) /\ conductors'[t] = c
      BY <1>0, <1>2, <1>3, <1>10, TailMoves
  <2>2. \A s : Starting(s)' <=> s = t
      BY <1>10 DEF Starting
  <2>3. OneDemoMail(t)'
      BY <1>6, <1>10, <2>1, DemoMailKept DEF OneDemoMail
  <2>4. Fits(t)'
      BY <1>0, <1>2, <1>6, <1>8, <2>1, FitsKept DEF NoLoad
  <2>5. LineTrue(t)'
      BY <1>7, <2>1, <2>2 DEF LineTrue
  <2>6. /\ Waiting(c, c.available) # << >>
        /\ NextCommand(c) = Head(Waiting(c, c.available))
      BY <1>7, <1>8, <1>10, StartTakesFirst
  <2>7. /\ ActiveOf(t)' = Head(Waiting(c, c.available))
        /\ PendingOf(t)' = Tail(Waiting(c, c.available))
      BY <2>1, <2>2, <2>6 DEF ActiveOf, PendingOf
  <2>8. Finished(t)
    <3> HIDE DEF ActiveOf, PendingOf
    <3> QED BY <1>9, <2>6, <2>7 DEF Finished
  <2>9. \A u \in Trains : u # t => Same({}, u)
      BY <1>3, <1>4, <1>10, <2>2, UnchangedStill DEF Same, NoLoad
  <2>10. Line(t)'
      BY <2>3, <2>4, <2>5 DEF Line
  <2> HIDE DEF Finished
  <2> QED BY <1>0, <1>3, <2>1, <2>8, <2>9, <2>10, OthersSame
<1>11. CASE /\ ~ (c.available > 0) /\ UNCHANGED doing
            /\ LetDemoGo(t, Idle(c), Tail(inbox))
  <2>1. c.available = 0
      BY <1>7, <1>8, <1>11
  <2>2. PICK e \in Conductor : e = Idle(c)
      BY ForgetParts
  <2>3. /\ e.t2 = c.t2 /\ e.tid = c.tid /\ e.rdy /\ e.available = 0 /\ SameRing(c, e)
      BY <2>1, <2>2, ForgetParts, RingUntouched
  <2>4. LetDemoGo(t, e, Tail(inbox))
      BY <1>11, <2>2
  <2>5. PICK d \in Conductor : d = ForgetDestination(e)
      BY ForgetParts
  <2>6. /\ conductors'[t] = d /\ \A u \in Trains : u # t => conductors'[u] = conductors[u]
    <3>1. conductors' = [conductors EXCEPT ![t] = d]
        BY <2>4, <2>5, LetDemoGoParts
    <3> QED BY <1>0, <3>1 DEF Types
  <2>7. d.tid = c.tid /\ d.rdy /\ d.available = 0 /\ SameRing(e, d)
      BY <2>3, <2>5, ForgetParts, RingUntouched
  <2>8. RingTrue(d)
      BY <1>7, <2>3, <2>7, RingKept
  <2>9. \A s : ~ Starting(s)'
      BY <1>3, <1>11 DEF Starting, NotBusy
  <2>10. LineTrue(t)'
      BY <1>7, <2>6, <2>7, <2>8, <2>9 DEF LineTrue
  <2>11. Finished(t)
    <3>1. ActiveOf(t)' = NoCommand /\ PendingOf(t)' = << >> /\ PendingOf(t) = << >>
        BY <1>9, <2>1, <2>6, <2>7, <2>9, NothingWaits DEF ActiveOf, PendingOf
    <3> HIDE DEF ActiveOf, PendingOf
    <3> QED BY <1>9, <3>1 DEF Finished
  <2>12. e.available + (IF UserMailed(t, 1) THEN 1 ELSE 0) + 1 <= QueueLen
    <3>1. UserMailed(t, 1) => QueueLen >= 2
        BY <1>1, <1>3, <1>6 DEF Fits, ReportFits
    <3> HIDE DEF UserMailed
    <3> QED BY <2>3, <3>1, DispatcherAssumption
  <2>13. \E F : /\ Moves(1, F)
                /\ \A u \in Trains : u # t => NoLoad(F, u) /\ demo'[u] = demo[u]
                /\ OneDemoMail(t)' /\ Fits(t)'
    <3>1. e.t2 = conductors[t].t2 /\ e.available <= conductors[t].available
        BY <1>2, <2>1, <2>3
    <3>2. inbox' = Tail(inbox) => Moves(1, {})
        BY <1>0, <1>3, TailMoves
    <3>3. \A m \in Message : inbox' = Append(Tail(inbox), m) => Moves(1, {m})
        BY <1>0, <1>3, PassMoves
    <3> HIDE DEF UserMailed
    <3> QED BY <1>0, <1>6, <2>4, <2>12, <3>1, <3>2, <3>3, LetDemoGoLines
  <2>14. PICK F : /\ Moves(1, F)
                  /\ \A u \in Trains : u # t => NoLoad(F, u) /\ demo'[u] = demo[u]
      BY <2>13
  <2>15. \A u \in Trains : u # t => Same(F, u)
      BY <1>3, <1>4, <2>6, <2>9, <2>14, UnchangedStill DEF Same
  <2>16. Line(t)'
      BY <2>10, <2>13 DEF Line
  <2> HIDE DEF Finished
  <2> QED BY <1>0, <1>3, <2>11, <2>14, <2>15, <2>16, OthersSame
<1> QED BY <1>1, <1>2, <1>10, <1>11 DEF HandleReady

LEMMA ConductorTakesLines ==
    ASSUME Drivers, Types', Stages, Lines, ConductorTakes
    PROVE  Goes
<1> HIDE DEF Starting, IsAutoCmd, RingTrue, Waiting, NextCommand
<1>0. Types
    BY DEF Drivers
<1>1. PICK t \in Trains : t = doing.train
    BY <1>0, HandlerParts DEF ConductorTakes
<1>2. PICK c \in Conductor : c = conductors[t]
    BY <1>0 DEF Types
<1>3. /\ doing.op = "start" /\ doing' = NotBusy
      /\ task' = [task EXCEPT ![t] = NextCommand(c)] /\ UNCHANGED mixed
    BY <1>1, <1>2 DEF ConductorTakes
<1>4. Starting(t) /\ (\A s : Starting(s) => s = t) /\ \A s : ~ Starting(s)'
    BY <1>1, <1>3 DEF Starting, NotBusy
<1>5. \A u \in Trains : u # t => task'[u] = task[u] /\ (Starting(u)' <=> Starting(u))
    BY <1>0, <1>3, <1>4 DEF Types
<1>6. t \in mixed => Goes
  <2>1. \E F : /\ Moves(0, F)
               /\ \A u \in Trains : u # t =>
                     /\ NoLoad(F, u) /\ demo'[u] = demo[u]
                     /\ conductors'[u] = conductors[u]
    <3>1. inbox' = inbox => Moves(0, {})
        BY <1>0, StillMoves
    <3>2. \A m \in Message : inbox' = Append(inbox, m) => Moves(0, {m})
        BY <1>0, AppendMoves
    <3>3. CASE conductors' = [conductors EXCEPT ![t] = Start(c)] /\ UNCHANGED <<inbox, demo>>
      <4>1. Moves(0, {}) /\ \A u \in Trains : NoLoad({}, u)
          BY <3>1, <3>3 DEF NoLoad
      <4>2. \A u \in Trains : u # t => conductors'[u] = conductors[u]
          BY <1>0, <3>3 DEF Types
      <4> QED BY <3>3, <4>1, <4>2
    <3>4. CASE LetDemoGo(t, Start(c), inbox)
        BY <1>0, <3>1, <3>2, <3>4, LetDemoGoOthers
    <3> QED BY <1>1, <1>2, <3>3, <3>4 DEF ConductorTakes
  <2>2. PICK F : /\ Moves(0, F)
                 /\ \A u \in Trains : u # t =>
                       /\ NoLoad(F, u) /\ demo'[u] = demo[u]
                       /\ conductors'[u] = conductors[u]
      BY <2>1
  <2>3. \A u \in Trains : u # t => Same(F, u)
      BY <1>5, <2>2, UnchangedStill DEF Same
  <2> QED BY <1>0, <1>3, <2>2, <2>3, OthersSame
<1> SUFFICES ASSUME t \notin mixed, t \notin mixed' PROVE Goes
    BY <1>3, <1>6
<1>7. OneDemoMail(t) /\ Fits(t) /\ LineTrue(t) /\ TrainTrue(t)
    BY DEF Lines, Line, Stages
<1>8. c.tid /\ c.available > 0 /\ RingTrue(c)
    BY <1>2, <1>4, <1>7 DEF TrainTrue, LineTrue
<1>9. /\ c.available \in Int /\ c.available <= QueueLen
      /\ c.available + (IF UserMailed(t, 0) THEN 1 ELSE 0) <= QueueLen
    BY <1>0, <1>2, <1>7, LoadParts
<1>10. PICK e \in Conductor : e = Start(c)
    BY StartParts
<1>11. /\ e.tid /\ ~ e.rdy /\ e.t2 = c.t2 /\ e.available = c.available - 1
    BY <1>8, <1>10, StartParts
<1>12. /\ RingTrue(e) /\ NextCommand(c) \in Commands
       /\ Waiting(e, e.available) = Tail(Waiting(c, c.available))
    BY <1>8, <1>9, <1>10, <1>11, StartTakesFirst
<1>13. PICK d \in Conductor : d = ForgetDestination(e)
    BY ForgetParts
<1>14. ~ d.rdy /\ d.tid /\ d.t2 = e.t2 /\ d.available = e.available /\ SameRing(e, d)
    BY <1>11, <1>13, ForgetParts, RingUntouched
<1>15. ASSUME NEW f, f \in {d, e}, conductors' = [conductors EXCEPT ![t] = f]
       PROVE  /\ LineTrue(t)' /\ Kept(t)
              /\ conductors'[t] = f /\ f.t2 = c.t2 /\ f.available = c.available - 1
              /\ \A u \in Trains : u # t => conductors'[u] = conductors[u]
  <2>1. /\ ~ f.rdy /\ f.tid /\ f.t2 = c.t2 /\ f.available = e.available /\ RingTrue(f)
        /\ Waiting(f, f.available) = Waiting(e, e.available)
    <3>1. RingTrue(d) /\ \A n : Waiting(d, n) = Waiting(e, n)
        BY <1>12, <1>14, RingKept
    <3> QED BY <1>11, <1>12, <1>14, <1>15, <3>1
  <2>2. /\ conductors'[t] = f /\ task'[t] = NextCommand(c)
        /\ \A u \in Trains : u # t => conductors'[u] = conductors[u]
      BY <1>0, <1>3, <1>15 DEF Types
  <2>3. LineTrue(t)'
      BY <1>12, <2>1, <2>2 DEF LineTrue
  <2>4. ActiveOf(t) = NextCommand(c) /\ ActiveOf(t)' = NextCommand(c)
      BY <1>2, <1>4, <2>1, <2>2 DEF ActiveOf
  <2>5. PendingOf(t) = Tail(Waiting(c, c.available))
      BY <1>2, <1>4 DEF PendingOf
  <2>6. PendingOf(t)' = Waiting(f, f.available)
      BY <1>4, <2>2 DEF PendingOf
  <2>7. Kept(t)
    <3> HIDE DEF PendingOf, ActiveOf
    <3> QED BY <1>12, <2>1, <2>4, <2>5, <2>6 DEF Kept
  <2> QED BY <1>11, <2>1, <2>2, <2>3, <2>7
<1>16. CASE conductors' = [conductors EXCEPT ![t] = e] /\ UNCHANGED <<inbox, demo>>
  <2>1. Moves(0, {})
      BY <1>0, <1>16, StillMoves
  <2>2. /\ LineTrue(t)' /\ Kept(t)
        /\ conductors'[t] = e /\ \A u \in Trains : u # t => conductors'[u] = conductors[u]
    <3>1. e \in {d, e}
        OBVIOUS
    <3> HIDE DEF Kept
    <3> QED BY <1>15, <1>16, <3>1
  <2>3. OneDemoMail(t)'
      BY <1>2, <1>7, <1>11, <1>16, <2>1, <2>2, DemoMailKept DEF OneDemoMail
  <2>4. conductors'[t].available <= conductors[t].available
      BY <1>2, <1>9, <1>11, <2>2
  <2>5. Fits(t)'
      BY <1>0, <1>7, <2>1, <2>4, FitsKept DEF NoLoad
  <2>6. \A u \in Trains : u # t => Same({}, u)
      BY <1>5, <1>16, <2>2, UnchangedStill DEF Same, NoLoad
  <2>7. Line(t)'
      BY <2>2, <2>3, <2>5 DEF Line
  <2> QED BY <1>0, <1>3, <2>1, <2>2, <2>6, <2>7, OthersSame
<1>17. CASE LetDemoGo(t, e, inbox)
  <2>1. conductors' = [conductors EXCEPT ![t] = d]
      BY <1>13, <1>17, LetDemoGoParts
  <2>2. /\ LineTrue(t)' /\ Kept(t)
        /\ \A u \in Trains : u # t => conductors'[u] = conductors[u]
    <3>1. d \in {d, e}
        OBVIOUS
    <3> HIDE DEF Kept
    <3> QED BY <1>15, <2>1, <3>1
  <2>3. e.available + (IF UserMailed(t, 0) THEN 1 ELSE 0) + 1 <= QueueLen
    <3> HIDE DEF UserMailed
    <3> QED BY <1>9, <1>11, DispatcherAssumption
  <2>4. \E F : /\ Moves(0, F)
               /\ \A u \in Trains : u # t => NoLoad(F, u) /\ demo'[u] = demo[u]
               /\ OneDemoMail(t)' /\ Fits(t)'
    <3>1. e.t2 = conductors[t].t2 /\ e.available <= conductors[t].available
        BY <1>2, <1>9, <1>11
    <3>2. inbox' = inbox => Moves(0, {})
        BY <1>0, StillMoves
    <3>3. \A m \in Message : inbox' = Append(inbox, m) => Moves(0, {m})
        BY <1>0, AppendMoves
    <3> HIDE DEF UserMailed
    <3> QED BY <1>0, <1>7, <1>17, <2>3, <3>1, <3>2, <3>3, LetDemoGoLines
  <2>5. PICK F : /\ Moves(0, F)
                 /\ \A u \in Trains : u # t => NoLoad(F, u) /\ demo'[u] = demo[u]
      BY <2>4
  <2>6. \A u \in Trains : u # t => Same(F, u)
      BY <1>5, <2>2, <2>5, UnchangedStill DEF Same
  <2>7. Line(t)'
      BY <2>2, <2>4 DEF Line
  <2> QED BY <1>0, <1>3, <2>2, <2>5, <2>6, <2>7, OthersSame
<1> QED BY <1>1, <1>2, <1>10, <1>16, <1>17 DEF ConductorTakes

LEMMA SunsetLines ==
    ASSUME Drivers, Types', Stages, Lines, SunsetMember
    PROVE  Goes
<1> HIDE DEF IsAutoCmd, RingTrue, Waiting, NextCommand
<1>0. Types
    BY DEF Drivers
<1>1. doing.op = "group" /\ doing.left \in Seq(Trains) /\ doing.left # << >>
    BY <1>0, HandlerParts DEF SunsetMember
<1>2. PICK t \in Trains : t = Head(doing.left)
    BY <1>1, FirstOfMembers
<1>3. PICK c \in Conductor : c = conductors[t]
    BY <1>0 DEF Types
<1>4. /\ UNCHANGED <<inbox, task, demo, mixed>>
      /\ \/ UNCHANGED <<conductors, doing>>
         \/ /\ c.tid => stage[t] = "receive"
            /\ conductors' = [conductors EXCEPT ![t] = ForgetConductor(c)]
            /\ doing' = [doing EXCEPT !.left = Tail(@)]
    BY <1>2, <1>3 DEF SunsetMember
<1>5. doing'.op = "group"
  <2>1. doing \in [op : {"group"}, members : Orders, left : Seq(Trains)]
    <3>1. doing \in Handler /\ doing.op = "group"
        BY <1>0, <1>1 DEF Types
    <3> QED BY <3>1 DEF Handler, NotBusy
  <2>2. [doing EXCEPT !.left = Tail(@)].op = doing.op
      BY <2>1
  <2> QED BY <1>1, <1>4, <2>2
<1>6. \A s : ~ Starting(s) /\ ~ Starting(s)'
    BY <1>1, <1>5 DEF Starting
<1>7. Moves(0, {})
    BY <1>0, <1>4, StillMoves
<1> HIDE DEF Starting
<1>8. CASE UNCHANGED <<conductors, doing>>
  <2>1. \A u \in Trains : Same({}, u)
      BY <1>4, <1>6, <1>8, UnchangedStill DEF Same, NoLoad
  <2> QED BY <1>0, <1>4, <1>7, <2>1, AllSame DEF MixesUp
<1>9. CASE /\ c.tid => stage[t] = "receive"
           /\ conductors' = [conductors EXCEPT ![t] = ForgetConductor(c)]
  <2>1. PICK d \in Conductor : d = ForgetConductor(c)
      BY ForgetParts
  <2>2. /\ ~ d.tid /\ d.rdy = c.rdy /\ d.t2 = c.t2 /\ d.available = c.available
        /\ SameRing(c, d) /\ c.available \in Int
      BY <2>1, ForgetParts, RingUntouched DEF Conductor
  <2>3. /\ conductors'[t] = d /\ task'[t] = task[t]
        /\ \A u \in Trains : u # t => conductors'[u] = conductors[u]
      BY <1>0, <1>4, <1>9, <2>1 DEF Types
  <2>4. \A u \in Trains : u # t => Same({}, u)
      BY <1>4, <1>6, <2>3, UnchangedStill DEF Same, NoLoad
  <2>5. t \in mixed => Goes
      BY <1>0, <1>4, <1>7, <2>4, OthersSame
  <2> SUFFICES ASSUME t \notin mixed, t \notin mixed' PROVE Goes
      BY <1>4, <2>5
  <2>6. OneDemoMail(t) /\ Fits(t) /\ LineTrue(t) /\ TrainTrue(t)
      BY DEF Lines, Line, Stages
  <2>7. c.rdy /\ c.available = 0 /\ RingTrue(c)
      BY <1>3, <1>6, <1>9, <2>6 DEF LineTrue, TrainTrue
  <2>8. /\ RingTrue(d) /\ Waiting(d, d.available) = Waiting(c, c.available)
      BY <2>2, <2>7, RingKept
  <2>9. LineTrue(t)'
      BY <2>2, <2>3, <2>7, <2>8 DEF LineTrue
  <2>10. ActiveOf(t) = NoCommand /\ ActiveOf(t)' = NoCommand
      BY <1>3, <1>6, <2>2, <2>3, <2>7 DEF ActiveOf
  <2>11. PendingOf(t)' = PendingOf(t)
      BY <1>3, <1>6, <2>3, <2>8 DEF PendingOf
  <2>12. Kept(t)
    <3> HIDE DEF PendingOf, ActiveOf
    <3> QED BY <2>10, <2>11 DEF Kept
  <2>13. OneDemoMail(t)'
      BY <1>3, <1>4, <1>7, <2>2, <2>3, <2>6, DemoMailKept DEF OneDemoMail
  <2>14. Fits(t)'
    <3>1. conductors'[t].available <= conductors[t].available
        BY <1>3, <2>2, <2>3
    <3> QED BY <1>0, <1>7, <2>6, <3>1, FitsKept DEF NoLoad
  <2>15. Line(t)'
      BY <2>9, <2>13, <2>14 DEF Line
  <2> HIDE DEF Kept
  <2> QED BY <1>0, <1>4, <1>7, <2>12, <2>4, <2>15, OthersSame
<1> QED BY <1>4, <1>8, <1>9

LEMMA NewRing == RingTrue(NewConductor)
<1>1. NewConductor.i = 0 /\ NewConductor.o = 0 /\ NewConductor.available = 0
    BY DEF NewConductor
<1>2. QueueLen \in Nat \ {0} /\ 0 \in Nat /\ 0 < 2 * QueueLen
    BY DispatcherAssumption
<1>3. 0 % QueueLen = IF 0 < QueueLen THEN 0 ELSE 0 - QueueLen
    BY <1>2, Around, Zenon
<1>4. (NewConductor.o + NewConductor.available) % QueueLen = 0 % QueueLen
  <2>1. NewConductor.o + NewConductor.available = 0
      BY <1>1
  <2> QED BY <2>1
<1>5. 0 % QueueLen = 0
    BY <1>2, <1>3
<1>6. 1 .. NewConductor.available = {}
    BY <1>1
<1> QED BY <1>1, <1>4, <1>5, <1>6 DEF RingTrue

\* A conductor is made for a train whose queue is empty.
LEMMA CreatedLines ==
    ASSUME Types, Types', Lines, NEW ts, CreateConductors(ts), UNCHANGED <<task, demo>>,
           MixesUp, \A t \in Trains \ mixed : t \in ts => ~ conductors[t].tid,
           NEW k \in {0, 1}, Moves(k, {}),
           doing.op # "start", doing'.op # "start",
           \A n \in DOMAIN inbox : n > k /\ inbox[n].op = "t2start" =>
               inbox[n].train \notin ts \ mixed
    PROVE  Goes
<1>1. \A s : ~ Starting(s) /\ ~ Starting(s)'
    BY DEF Starting
<1>2. \A t \in Trains :
          /\ t \in ts => conductors'[t] = NewConductor
          /\ t \notin ts => conductors'[t] = conductors[t]
    BY CreateParts
<1>3. PICK d \in Conductor : d = NewConductor
    BY NewConductorType
<1>4. d.tid /\ d.rdy /\ ~ d.t2 /\ d.available = 0 /\ RingTrue(d)
    BY <1>3, NewConductorType, NewRing
<1> HIDE DEF Starting, IsAutoCmd, RingTrue, Waiting, NextCommand
<1>5. ASSUME NEW t \in Trains, t \notin mixed, t \notin mixed'
      PROVE  Line(t)' /\ Kept(t)
  <2>1. CASE t \in ts
    <3>1. OneDemoMail(t) /\ Fits(t) /\ LineTrue(t)
        BY <1>5 DEF Lines, Line
    <3>2. PICK c \in Conductor : c = conductors[t]
        BY DEF Types
    <3>3. c.rdy /\ c.available = 0
        BY <1>5, <2>1, <3>1, <3>2 DEF LineTrue
    <3>4. conductors'[t] = d
        BY <1>2, <1>3, <2>1
    <3>5. LineTrue(t)'
        BY <1>4, <3>4 DEF LineTrue
    <3>6. ActiveOf(t) = NoCommand /\ ActiveOf(t)' = NoCommand
        BY <1>1, <1>4, <1>5, <3>2, <3>3, <3>4 DEF ActiveOf
    <3>7. PendingOf(t) = << >> /\ PendingOf(t)' = << >>
        BY <1>1, <1>4, <1>5, <3>2, <3>3, <3>4, NothingWaits DEF PendingOf
    <3>8. Kept(t)
      <4> HIDE DEF PendingOf, ActiveOf
      <4> QED BY <3>6, <3>7 DEF Kept
    <3>9. OneDemoMail(t)'
      <4>1. \A n \in DOMAIN inbox : n > k /\ inbox[n].op = "t2start" => inbox[n].train # t
          BY <1>5, <2>1
      <4> QED BY <1>4, <3>1, <3>4, <4>1, DemoMailKept
    <3>10. Fits(t)'
      <4>1. conductors'[t].available <= conductors[t].available
          BY <1>4, <3>2, <3>3, <3>4
      <4> QED BY <3>1, <4>1, FitsKept DEF NoLoad
    <3> HIDE DEF Kept
    <3> QED BY <3>5, <3>8, <3>9, <3>10 DEF Line
  <2>2. CASE t \notin ts
    <3>1. conductors'[t] = conductors[t] /\ task'[t] = task[t] /\ demo'[t] = demo[t]
        BY <1>2, <2>2
    <3>2. Still(t) /\ NoLoad({}, t) /\ conductors'[t].t2 = conductors[t].t2
        BY <1>1, <3>1, UnchangedStill DEF NoLoad
    <3> QED BY <1>5, <3>1, <3>2, StillLine DEF Lines
  <2> QED BY <2>1, <2>2
<1> HIDE DEF Line, Kept
<1>6. \A t \in Trains \ mixed' : Line(t)' /\ Kept(t)
    BY <1>5 DEF MixesUp
<1>7. Lines' /\ \A t \in Trains : Kept(t)
    BY <1>6, MixedKept DEF Lines
<1> QED BY <1>7, PromiseKept DEF Goes

LEMMA GroupEndsLines ==
    ASSUME Drivers, Types', Lines, StartsApart, GroupEnds
    PROVE  Goes
<1>1. PICK g \in DOMAIN groups : g = doing.group
    BY DEF GroupEnds, Drivers, GroupInHand
<1>2. /\ UNCHANGED <<inbox, task, demo, mixed>> /\ doing.op # "start" /\ doing'.op # "start"
      /\ doing.op = "ungroup" /\ CreateConductors(Members(groups[g]))
    BY <1>1 DEF GroupEnds, NotBusy
<1>3. PICK ts : ts = Members(groups[g])
    OBVIOUS
<1>4. \A n \in DOMAIN inbox : inbox[n].op = "t2start" => inbox[n].train \notin ts \ mixed
    BY <1>1, <1>2, <1>3 DEF StartsApart
<1> HIDE DEF Members
<1>5. \A t \in Trains \ mixed : t \in ts => ~ conductors[t].tid
    BY <1>3 DEF Drivers, GroupsApart
<1>6. Types /\ Moves(0, {}) /\ CreateConductors(ts) /\ MixesUp
    BY <1>2, <1>3, StillMoves DEF Drivers, MixesUp
<1> QED BY <1>2, <1>4, <1>5, <1>6, CreatedLines

LEMMA SetTrainsLines ==
    ASSUME Drivers, Types', Lines, HandleSetTrains
    PROVE  Goes
<1>0. Types
    BY DEF Drivers
<1>1. PICK ts : ts = {t \in Head(inbox).arg : ~ conductors[t].tid}
    OBVIOUS
<1>2. /\ inbox # << >> /\ inbox' = Tail(inbox) /\ UNCHANGED <<doing, task, demo>>
      /\ doing.op = "receive" /\ 1 \in DOMAIN inbox /\ inbox[1] \in Message
      /\ inbox[1].op = "set"
      /\ CreateConductors(ts) /\ mixed' = mixed \cup (ts \cap Grouped)
    BY <1>0, <1>1, ReceivesParts DEF HandleSetTrains, NotBusy
<1> HIDE DEF Grouped
<1>3. \A t \in Trains : t \in ts => ~ conductors[t].tid
    BY <1>1
<1>4. MixesUp
  <2>1. mixed' \subseteq Trains
      BY DEF Types
  <2> QED BY <1>2, <2>1, GroupedIdle DEF MixesUp
<1>5. \A n \in DOMAIN inbox : n > 1 => inbox[n].op # "t2start"
  <2>1. /\ inbox[1].from = "ui"
        /\ \A n \in DOMAIN inbox : inbox[n].op = "t2start" => inbox[n].from = "ui"
      BY <1>0, <1>2, MessageParts, RequestsOfUser
  <2>2. \A n \in DOMAIN inbox : n > 1 => n # 1
      BY <1>0 DEF Types
  <2> QED BY <1>2, <2>1, <2>2 DEF Drivers, OneRequest
<1>6. Moves(1, {})
    BY <1>0, <1>2, TailMoves
<1> QED BY <1>0, <1>2, <1>3, <1>4, <1>5, <1>6, CreatedLines

\* No request to start a demo task arrives, and the groups stay.
LEMMA StartsApartKept ==
    ASSUME StartsApart, UNCHANGED <<doing, mixed>>, SameGroups, GroupInHand,
           \A n \in DOMAIN inbox' : inbox'[n].op = "t2start" =>
               \/ \E m \in DOMAIN inbox : inbox'[n] = inbox[m]
               \/ doing.op = "ungroup" =>
                     inbox'[n].train \notin Members(groups[doing.group]) \ mixed
    PROVE  StartsApart'
<1> SUFFICES ASSUME doing'.op = "ungroup", NEW n \in DOMAIN inbox', inbox'[n].op = "t2start"
             PROVE  inbox'[n].train \notin Members(groups'[doing'.group]) \ mixed'
    BY DEF StartsApart
<1>1. PICK g \in DOMAIN groups : g = doing.group /\ g = doing'.group
    BY DEF GroupInHand
<1>2. groups'[g].members = groups[g].members /\ doing.op = "ungroup"
    BY DEF SameGroups
<1>3. inbox'[n].train \notin Members(groups[g]) \ mixed
    BY <1>1, <1>2 DEF StartsApart
<1> QED BY <1>1, <1>2, <1>3 DEF Members

LEMMA StartsApartStep ==
    ASSUME Drivers, Types', StartsApart, [Next]_vars
    PROVE  StartsApart'
<1>0. Types /\ GroupInHand /\ GroupsApart
    BY DEF Drivers
<1>1. CASE UserStep
  <2>1. PICK op, t, arg : /\ Enter(op, t, arg)
                          /\ op = "t2start" => conductors[t].tid /\ t \in Trains
    <3> HIDE DEF Grouped, Enter, MayName, Quiet, Room
    <3>1. CASE \E t \in Driven : EnterT2Start(t)
        BY <3>1, DispatcherAssumption DEF EnterT2Start
    <3>2. CASE \E t \in Driven : EnterT2Stop(t) \/ \E c \in Commands : EnterCommand(t, c)
        BY <3>2 DEF EnterT2Stop, EnterCommand
    <3>3. CASE \E members \in Orders : EnterGroup(members)
        BY <3>3 DEF EnterGroup
    <3>4. CASE \E ts \in SUBSET Trains : EnterSetTrains(ts)
        BY <3>4 DEF EnterSetTrains
    <3>5. CASE \E k \in DOMAIN groups : EnterUngroup(k) \/ EnterGroupCommand(k)
        BY <3>5 DEF EnterUngroup, EnterGroupCommand
    <3> QED BY <1>1, <3>1, <3>2, <3>3, <3>4, <3>5 DEF UserStep
  <2>2. PICK m : m = [from |-> "ui", op |-> op, train |-> t, arg |-> arg]
      OBVIOUS
  <2>3. inbox' = Append(inbox, m) /\ m.op = op /\ m.train = t
        /\ UNCHANGED <<doing, groups, mixed>>
      BY <2>1, <2>2 DEF Enter, Mail
  <2>4. \A n \in DOMAIN inbox' : inbox'[n] = m \/ \E i \in DOMAIN inbox : inbox'[n] = inbox[i]
      BY <1>0, <2>3 DEF Types
  <2>5. m.op = "t2start" /\ doing.op = "ungroup" =>
            m.train \notin Members(groups[doing.group]) \ mixed
    <3>1. PICK g : g = doing.group
        OBVIOUS
    <3> HIDE DEF Members
    <3> QED BY <1>0, <2>1, <2>3, <3>1 DEF GroupInHand, GroupsApart
  <2>6. SameGroups
      BY <2>3 DEF SameGroups
  <2>7. \A n \in DOMAIN inbox' : inbox'[n].op = "t2start" =>
            \/ \E i \in DOMAIN inbox : inbox'[n] = inbox[i]
            \/ doing.op = "ungroup" =>
                  inbox'[n].train \notin Members(groups[doing.group]) \ mixed
    <3> HIDE DEF Members
    <3> QED BY <2>4, <2>5
  <2> QED BY <1>0, <2>3, <2>6, <2>7, StartsApartKept
<1>2. CASE \E t \in Trains : Works(t) \/ ReplacedReports(t)
  <2>1. PICK t \in Trains : Works(t) \/ ReplacedReports(t)
      BY <1>2
  <2>2. UNCHANGED <<doing, groups, mixed>>
      BY <2>1 DEF Works, Routes, Arrives, Reports, Conducts, ReplacedReports
  <2>3. \A n \in DOMAIN inbox' : inbox'[n].op = "t2start" =>
            \E i \in DOMAIN inbox : inbox'[n] = inbox[i]
    <3>1. CASE UNCHANGED inbox
        BY <3>1
    <3>2. CASE Reports(t) \/ ReplacedReports(t)
      <4>1. PICK m : /\ inbox' = Append(inbox, m)
                     /\ \E from : m = [from |-> from, op |-> "ready", train |-> t,
                                     arg |-> NoCommand]
          BY <3>2 DEF Reports, ReplacedReports, Mail
      <4>2. m.op # "t2start"
          BY <4>1
      <4> QED BY <1>0, <4>1, <4>2 DEF Types
    <3> QED BY <2>1, <3>1, <3>2 DEF Works, Routes, Arrives
  <2>4. SameGroups
      BY <2>2 DEF SameGroups
  <2> QED BY <1>0, <2>2, <2>3, <2>4, StartsApartKept
<1>3. CASE (\E k \in 1 .. MaxGroups : GroupNotified(k) \/ GroupDone(k)) \/ ReceivesFromDead
           \/ ReceivesFromForgotten \/ UNCHANGED vars
  <2>1. UNCHANGED <<inbox, doing, mixed>>
      BY <1>3 DEF GroupNotified, GroupDone, GroupWorks, ReceivesFromDead,
                  ReceivesFromForgotten, vars
  <2>2. SameGroups
    <3>1. (\E k, to : groups' = [groups EXCEPT ![k].stage = to]) \/ UNCHANGED groups
        BY <1>3 DEF GroupNotified, GroupDone, GroupWorks, ReceivesFromDead,
                    ReceivesFromForgotten, vars
    <3>2. UNCHANGED groups => SameGroups
        BY DEF SameGroups
    <3> QED BY <1>0, <3>1, <3>2, StageOfGroup
  <2> QED BY <1>0, <2>1, <2>2, StartsApartKept
<1>4. CASE HandleUngroup
  <2>1. /\ Receives("ungroup") /\ inbox' = Tail(inbox) /\ Head(inbox).from = "ui"
      BY <1>0, <1>4, ReceivesParts, MessageParts DEF HandleUngroup
  <2>2. \A n \in DOMAIN inbox' : inbox'[n].from # "ui"
      BY <1>0, <2>1, TookKeeps DEF Drivers
  <2>3. \A n \in DOMAIN inbox' : inbox'[n].op = "t2start" => inbox'[n].from = "ui"
    <3>1. \A n \in DOMAIN inbox' : inbox'[n] \in Message
        BY DEF Types
    <3> QED BY <3>1, MessageParts
  <2> QED BY <2>2, <2>3 DEF StartsApart
<1>5. CASE \/ HandleCommand \/ HandleReady \/ ConductorTakes \/ HandleT2Start \/ HandleT2Stop
           \/ HandleGroup \/ SunsetMember \/ GroupMade \/ GroupEnds
           \/ HandleGroupCommand \/ GroupTakes \/ HandleSetTrains
  <2>1. doing'.op # "ungroup"
    <3>1. NotBusy.op = "receive"
        BY DEF NotBusy
    <3>2. CASE HandleT2Start \/ HandleT2Stop \/ HandleSetTrains
        BY <1>0, <3>1, <3>2, ReceivesParts DEF HandleT2Start, HandleT2Stop, HandleSetTrains
    <3>3. CASE ConductorTakes \/ GroupMade \/ GroupEnds \/ GroupTakes
        BY <3>1, <3>3 DEF ConductorTakes, GroupMade, GroupEnds, GroupTakes
    <3>4. CASE SunsetMember
      <4>1. doing.op = "group" /\ (UNCHANGED doing \/ doing' = [doing EXCEPT !.left = Tail(@)])
          BY <3>4 DEF SunsetMember
      <4> QED BY <1>0, <4>1 DEF Types, Handler, NotBusy
    <3>5. CASE HandleGroup \/ HandleGroupCommand
        BY <1>0, <3>1, <3>5, ReceivesParts DEF HandleGroup, HandleGroupCommand
    <3>6. CASE HandleCommand \/ HandleReady
        BY <1>0, <3>1, <3>6, ReceivesParts DEF HandleCommand, HandleReady
    <3> QED BY <1>5, <3>2, <3>3, <3>4, <3>5, <3>6
  <2> QED BY <2>1 DEF StartsApart
<1> QED BY <1>1, <1>2, <1>3, <1>4, <1>5 DEF Next, DispatcherStep

LEMMA LinesInit == Init => Lines /\ StartsApart /\ Promise!Init
<1> SUFFICES ASSUME Init PROVE Lines /\ StartsApart /\ Promise!Init
    OBVIOUS
<1>0. Types
    BY TypesInit
<1>1. PICK active \in SUBSET Trains :
          conductors = [t \in Trains |-> [NewConductor EXCEPT !.tid = t \in active]]
    BY DEF Init
<1>2. /\ inbox = << >> /\ doing.op = "receive" /\ demo = [t \in Trains |-> "none"]
      /\ mixed = {} /\ \A t : ~ Starting(t)
    BY DEF Init, Starting, NotBusy
<1> HIDE DEF Starting, IsAutoCmd
<1>3. ASSUME NEW t \in Trains
      PROVE  /\ SameRing(NewConductor, conductors[t])
             /\ conductors[t].rdy /\ ~ conductors[t].t2 /\ conductors[t].available = 0
  <2>1. PICK c : c = conductors[t]
      OBVIOUS
  <2>2. c = [NewConductor EXCEPT !.tid = t \in active]
      BY <1>1, <2>1
  <2>3. /\ c.o = NewConductor.o /\ c.i = NewConductor.i /\ c.msgs = NewConductor.msgs
        /\ c.available = NewConductor.available /\ c.rdy = NewConductor.rdy
        /\ c.t2 = NewConductor.t2
      BY <2>2 DEF NewConductor
  <2> QED BY <2>1, <2>3, NewConductorType DEF SameRing
<1>4. ASSUME NEW t \in Trains
      PROVE  /\ Line(t)
             /\ PendingOf(t) = << >> /\ ActiveOf(t) = NoCommand
  <2>1. PICK c : c = conductors[t]
      OBVIOUS
  <2>2. SameRing(NewConductor, c) /\ c.rdy /\ ~ c.t2 /\ c.available = 0
      BY <1>3, <2>1
  <2>3. RingTrue(c)
      BY <2>2, NewRing, RingKept
  <2>4. LineTrue(t)
    <3> HIDE DEF RingTrue
    <3> QED BY <2>1, <2>2, <2>3 DEF LineTrue
  <2>5. OneDemoMail(t)
      BY <1>2, <2>1, <2>2 DEF OneDemoMail, DemoMailed
  <2>6. ~ UserMailed(t, 0) /\ ~ DemoMailed(t) /\ ReportFits(t)
      BY <1>2 DEF UserMailed, DemoMailed, ReportFits
  <2>7. Load(t) <= QueueLen
    <3> HIDE DEF UserMailed, DemoMailed
    <3> QED BY <2>1, <2>2, <2>6, DispatcherAssumption DEF Load
  <2>8. PendingOf(t) = << >>
      BY <1>2, <2>1, <2>2, NothingWaits DEF PendingOf
  <2>9. ActiveOf(t) = NoCommand
      BY <1>2, <2>1, <2>2 DEF ActiveOf
  <2> QED BY <2>4, <2>5, <2>6, <2>7, <2>8, <2>9 DEF Line, Fits
<1>5. Lines
  <2> HIDE DEF Line
  <2> QED BY <1>4 DEF Lines
<1>6. StartsApart
    BY <1>2 DEF StartsApart
<1>7. Pendings = [t \in Trains |-> << >>] /\ Actives = [t \in Trains |-> NoCommand]
  <2> HIDE DEF PendingOf, ActiveOf, Line
  <2> QED BY <1>4 DEF Pendings, Actives
<1> QED BY <1>5, <1>6, <1>7 DEF Promise!Init, Pendings, Actives, PendingOf, ActiveOf

LEMMA LinesStep ==
    ASSUME MaxExcess = 0, Drivers, Stages, Lines, StartsApart, [Next]_vars
    PROVE  Lines' /\ StartsApart' /\ [Promise!Next]_Promise!vars
<1>1. Drivers' /\ Types' /\ Types
  <2>1. Drivers'
      BY DriversStep
  <2> QED BY <2>1 DEF Drivers
<1>2. StartsApart'
    BY <1>1, StartsApartStep
<1>3. Goes
  <2>1. CASE UserStep
      BY <1>1, <2>1, UserLines
  <2>2. CASE \E t \in Trains : Works(t) \/ ReplacedReports(t)
      BY <1>1, <2>2, WorksLines, ReplacedLines
  <2>3. CASE (\E k \in 1 .. MaxGroups : GroupNotified(k) \/ GroupDone(k)) \/ UNCHANGED vars
      BY <1>1, <2>3, QuietLines
  <2>4. CASE DispatcherStep
      BY <1>1, <2>4, QuietLines, HandleT2StartLines, HandleT2StopLines, HandleCommandLines,
         HandleReadyLines, ConductorTakesLines, HandleGroupLines, SunsetLines, GroupEndsLines,
         SetTrainsLines DEF DispatcherStep
  <2> QED BY <2>1, <2>2, <2>3, <2>4 DEF Next
<1> QED BY <1>2, <1>3 DEF Goes

\* The ring of each conductor is the queue that CommandQueues promises, and its commands
\* are carried out one at a time and in order (usr/command_dispatcher.c:106-163), for any
\* trains that are not mixed up, any length of the queues and any groups.  No queue is
\* overrun here: Store overwrites then (usr/command_dispatcher.c:113-116).
THEOREM CommandsCorrect ==
    ASSUME MaxExcess = 0
    PROVE  Spec => CommandsImplemented
<1>1. Init => Drivers /\ Stages /\ Lines /\ StartsApart /\ Promise!Init
    BY DriversInit, StagesInit, LinesInit
<1>2. Drivers /\ Stages /\ Lines /\ StartsApart /\ [Next]_vars
          => (Drivers /\ Stages /\ Lines /\ StartsApart)' /\ [Promise!Next]_Promise!vars
    BY DriversStep, StagesStep, LinesStep
<1> QED BY <1>1, <1>2, PTL DEF Spec, CommandsImplemented, Promise!Spec

===============================================================================

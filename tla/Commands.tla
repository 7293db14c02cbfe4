------------------------------- MODULE Commands -------------------------------
(***************************************************************************)
(* Commands to trains and turnouts (usr/train/commands.c, switcher.c, the  *)
(* resetters, train_model_courier.c) and the two servers that keep what    *)
(* was commanded (track_state_controller.c, train_coordinates_server.c).   *)
(* A task sends a command to the train controller first and then tells the *)
(* track state controller, which tells the coordinates server; other tasks *)
(* run between any two of its calls.  TransmitServer shows that commands   *)
(* reach the train controller in the order of PutBytes, so a command takes *)
(* effect here when it is put.                                             *)
(*                                                                         *)
(* A task is the list of the calls it has still to make.  Time passes when *)
(* all tasks are in Delay: calls take microseconds, a tick is 10 ms.  A    *)
(* turnout's command to release its coil is left out.                      *)
(***************************************************************************)
EXTENDS Integers, SequencesExt

CONSTANTS
    Trains,     \* each with a conductor
    Switchers,  \* switchers that may live at the same time
    Speeds, Turnouts,
    MaxOrders,  \* bound: orders given after the start
    MaxTime     \* bound: the time at which the run ends, in ticks

TickStep == 15
StartTime == 60
DELAY_BETWEEN_SW == 50
BrakeTicks == 33
OwnSpeed == -1

Directions == {"straight", "curved", "unknown"}
Dir(curved) == IF curved THEN "curved" ELSE "straight"
Paired == [n \in 153 .. 156 |-> IF n % 2 = 1 THEN n + 1 ELSE n - 1]

ASSUME CommandsAssumption ==
    /\ 0 \in Speeds /\ Speeds \subseteq 0 .. 14
    /\ Turnouts \subseteq (1 .. 18) \cup (153 .. 156)
    /\ \A n \in Turnouts : n \in DOMAIN Paired => Paired[n] \in Turnouts

Resetters == {"turnout_resetter", "speed_resetter"}

ASSUME TasksAssumption ==
    /\ IsFiniteSet(Trains) /\ Trains \cap Switchers = {}
    /\ Resetters \cap (Trains \cup Switchers) = {}

Tasks == Trains \cup Switchers \cup Resetters

VARIABLES
    now,        \* ticks
    calls,      \* for each task the calls it has still to make
    lastSwitch, \* track.last_switch_time, shared by all switchers
    actual,     \* how the turnouts lie and what the trains do
    record,     \* the track state controller's turnouts and trains
    copy,       \* the coordinates server's turnout states and trains
    forward,    \* what the track state controller has still to tell it
    careful,    \* whether orders that disturb each other are avoided
    ordered     \* how many

vars == <<now, calls, lastSwitch, actual, record, copy, forward, careful, ordered>>

----------------------------------------------------------------------------
(* The functions of commands.c, as lists of calls. *)

Put(cmd) == [call |-> "PutBytes", cmd |-> cmd]
Tell(cmd) == [call |-> "Send", cmd |-> cmd]
Delay(ticks) == [call |-> "Delay", ticks |-> ticks]

Turn(n, dir) == [kind |-> "turnout", num |-> n, dir |-> dir]
Speed(t, v) == [kind |-> "speed", train |-> t, speed |-> v]
Direction(t, d) == [kind |-> "direction", train |-> t, dir |-> d]

\* set_train_speed
SetSpeed(t, v) == <<Put(Speed(t, v)), Tell(Speed(t, v))>>

\* reverse_train: the new direction is the negation of what the record says then.
ReverseTrain(t) ==
    <<Put([kind |-> "reverse", train |-> t]), [call |-> "GetDirection", train |-> t]>>

StopAndReverseHelper_ShortWait(t, previousSpeed, v) ==               \* slip
    SetSpeed(t, 0) \o <<Delay(8)>> \o ReverseTrain(t)
        \o <<Delay(previousSpeed * BrakeTicks)>> \o SetSpeed(t, v)

StopAndReverseHelper(t, previousSpeed, v) ==
    SetSpeed(t, 0) \o <<Delay(previousSpeed * BrakeTicks)>> \o ReverseTrain(t)
        \o <<Delay(8)>> \o SetSpeed(t, v)

\* To its own speed (stop_and_reverse_train) or to another.
StopAndReverse(t, v) == <<[call |-> "GetSpeed", train |-> t, to |-> v]>>

SwitchTurnout_PairFirst(n, curved) ==                                \* slip
    (IF n \in DOMAIN Paired /\ curved
     THEN <<Put(Turn(Paired[n], "straight")), Tell(Turn(Paired[n], "straight"))>>
     ELSE << >>)
    \o <<Put(Turn(n, Dir(curved))), Tell(Turn(n, Dir(curved)))>> \o <<Delay(15)>>

\* switch_turnout: the other half of a crossing goes straight.
SwitchTurnout(n, curved) ==
    <<Put(Turn(n, Dir(curved))), Tell(Turn(n, Dir(curved)))>>
    \o (IF n \in DOMAIN Paired /\ curved
        THEN <<Put(Turn(Paired[n], "straight")), Tell(Turn(Paired[n], "straight"))>>
        ELSE << >>)
    \o <<Delay(15)>>

\* A switcher: it looks at the clock and then at the time of the last switch.
Switcher(n, curved) == <<[call |-> "Time", num |-> n, curved |-> curved]>>

TurnoutResetter ==
    LET reset[n \in 0 .. 156] ==
            IF n = 0 THEN << >>
            ELSE IF n \in Turnouts THEN reset[n - 1] \o SwitchTurnout(n, n \notin {154, 156})
            ELSE reset[n - 1]
    IN  reset[156]

SpeedResetter ==
    LET active_trains == SetToSeq(Trains)
        reset[i \in 0 .. Len(active_trains)] ==
            IF i = 0 THEN << >> ELSE reset[i - 1] \o SetSpeed(active_trains[i], 0)
    IN  reset[Len(active_trains)]

----------------------------------------------------------------------------
(* Who is busy with what. *)

NextCall(k) == Head(calls[k])
Idle(k) == calls[k] = << >>

\* The calls that command or record a turnout, or lead to it.
AtTurnout(c, n) ==
    CASE c.call \in {"Time", "Test"} ->
            c.num = n \/ (n \in DOMAIN Paired /\ c.num = Paired[n])
      [] c.call \in {"PutBytes", "Send"} ->
            c.cmd.kind = "turnout" /\ c.cmd.num = n
      [] OTHER -> FALSE

\* The calls that drive a train.
AtTrain(c, t) ==
    CASE c.call \in {"GetSpeed", "GetDirection"} -> c.train = t
      [] c.call \in {"PutBytes", "Send"} ->
            c.cmd.kind # "turnout" /\ c.cmd.train = t
      [] OTHER -> FALSE

Touches(k, n) == \E i \in DOMAIN calls[k] : AtTurnout(calls[k][i], n)
Drives(k, t) == \E i \in DOMAIN calls[k] : AtTrain(calls[k][i], t)

Halves(n) == {n} \cup (IF n \in DOMAIN Paired THEN {Paired[n]} ELSE {})
NobodyAt(tasks, turnouts) == \A k \in tasks, n \in turnouts : ~ Touches(k, n)

Nothing == [kind |-> "nothing"]

AtRest(t) ==
    LET train == actual.trains[t]
    IN  train.speed = 0 /\ now - train.since >= BrakeTicks * train.was

----------------------------------------------------------------------------
(* The program starts with unknown turnouts and standing trains; the coordinates *)
(* server's turnout states are not initialised.  The two resetters run first.    *)

Init ==
    LET stopped == [t \in Trains |-> [speed |-> 0, dir |-> TRUE]]
    IN  /\ now = StartTime
        /\ calls = [k \in Tasks |->
                       CASE k = "turnout_resetter" -> TurnoutResetter
                         [] k = "speed_resetter" -> SpeedResetter
                         [] OTHER -> << >>]
        /\ lastSwitch = [n \in Turnouts |-> 0]
        /\ \E dirs \in [Turnouts -> {"straight", "curved"}] :
              actual = [turnouts |-> dirs,
                        trains |-> [t \in Trains |->
                            [speed |-> 0, was |-> 0, since |-> 0, dir |-> TRUE]]]
        /\ record = [turnouts |-> [n \in Turnouts |-> "unknown"], trains |-> stopped]
        /\ \E dir \in Directions :
              copy = [turnouts |-> [n \in Turnouts |-> dir], trains |-> stopped]
        /\ forward = Nothing
        /\ careful \in BOOLEAN
        /\ ordered = 0

----------------------------------------------------------------------------
(* Orders.  A user, or a conductor on its way, has a turnout switched by a switcher; *)
(* a conductor at the end of its route or loop does it itself.  A train gets orders  *)
(* from its conductor alone, one after the other (Dispatcher).                       *)

Give(k, list) ==
    /\ Idle(k) /\ \A r \in Resetters : Idle(r)
    /\ ordered < MaxOrders /\ ordered' = ordered + 1
    /\ calls' = [calls EXCEPT ![k] = list]
    /\ UNCHANGED <<now, lastSwitch, actual, record, copy, forward, careful>>

\* switcher_turnout.  Careful: nobody is at the turnout without a switcher, and nobody at
\* all at a crossing.
OrderSwitcher(k, n, curved) ==
    /\ careful => NobodyAt(IF n \in DOMAIN Paired THEN Tasks ELSE Trains, Halves(n))
    /\ Give(k, Switcher(n, curved))

\* Careful: nobody else is at it.
OrderTurnout(t, n, curved) ==
    /\ careful => NobodyAt(Tasks, Halves(n))
    /\ Give(t, SwitchTurnout(n, curved))

OrderSpeed(t, v) == Give(t, SetSpeed(t, v))

\* Careful: the train is not one that was stopped and still rolls.
OrderReverse(t, v) ==
    /\ careful => record.trains[t].speed # 0 \/ AtRest(t)
    /\ Give(t, StopAndReverse(t, v))

----------------------------------------------------------------------------
(* The tasks. *)

\* A task that calls Delay next sleeps from now on.
Asleep(list) ==
    IF list # << >> /\ Head(list).call = "Delay"
    THEN <<[call |-> "Sleeping", until |-> now + Head(list).ticks]>> \o Tail(list)
    ELSE list

GoOn(k, list) == calls' = [calls EXCEPT ![k] = Asleep(list)]
Calls(k, call) == ~ Idle(k) /\ NextCall(k).call = call

\* The train controller carries a command out.
PutBytes(k) ==
    /\ Calls(k, "PutBytes")
    /\ LET cmd == NextCall(k).cmd
       IN  actual' =
             CASE cmd.kind = "turnout" -> [actual EXCEPT !.turnouts[cmd.num] = cmd.dir]
               [] cmd.kind = "reverse" -> [actual EXCEPT !.trains[cmd.train].dir = ~ @]
               [] cmd.kind = "speed" ->
                    LET train == actual.trains[cmd.train]
                    IN  IF train.speed = cmd.speed THEN actual
                        ELSE [actual EXCEPT !.trains[cmd.train] =
                                 [speed |-> cmd.speed, was |-> train.speed,
                                  since |-> now, dir |-> train.dir]]
    /\ GoOn(k, Tail(calls[k]))
    /\ UNCHANGED <<now, lastSwitch, record, copy, forward, careful, ordered>>

\* The track state controller takes a message when it is not telling the coordinates
\* server of the last one.  It answers a speed after telling, the others before.
TellTurnout(k) ==
    /\ Calls(k, "Send") /\ NextCall(k).cmd.kind = "turnout" /\ forward = Nothing
    /\ LET cmd == NextCall(k).cmd
       IN  record' = [record EXCEPT !.turnouts[cmd.num] = cmd.dir]
    /\ forward' = [kind |-> "turnouts", states |-> record'.turnouts]
    /\ GoOn(k, Tail(calls[k]))
    /\ UNCHANGED <<now, lastSwitch, actual, copy, careful, ordered>>

TellDirection(k) ==
    /\ Calls(k, "Send") /\ NextCall(k).cmd.kind = "direction" /\ forward = Nothing
    /\ LET cmd == NextCall(k).cmd
       IN  /\ record' = [record EXCEPT !.trains[cmd.train].dir = cmd.dir]
           /\ forward' = [kind |-> "reversed", train |-> cmd.train]
    /\ GoOn(k, Tail(calls[k]))
    /\ UNCHANGED <<now, lastSwitch, actual, copy, careful, ordered>>

TellSpeed(k) ==
    /\ Calls(k, "Send") /\ NextCall(k).cmd.kind = "speed" /\ forward = Nothing
    /\ LET cmd == NextCall(k).cmd
           changed == cmd.speed # record.trains[cmd.train].speed
       IN  /\ record' = [record EXCEPT !.trains[cmd.train].speed = cmd.speed]
           /\ copy' = IF changed THEN [copy EXCEPT !.trains[cmd.train].speed = cmd.speed]
                      ELSE copy
    /\ GoOn(k, Tail(calls[k]))
    /\ UNCHANGED <<now, lastSwitch, actual, forward, careful, ordered>>

GetDirection(k) ==
    /\ Calls(k, "GetDirection") /\ forward = Nothing
    /\ LET t == NextCall(k).train
       IN  GoOn(k, <<Tell(Direction(t, ~ record.trains[t].dir))>> \o Tail(calls[k]))
    /\ UNCHANGED <<now, lastSwitch, actual, record, copy, forward, careful, ordered>>

GetSpeed(k) ==
    /\ Calls(k, "GetSpeed") /\ forward = Nothing
    /\ LET t == NextCall(k).train
           v == record.trains[t].speed
           to == IF NextCall(k).to = OwnSpeed THEN v ELSE NextCall(k).to
       IN  GoOn(k, StopAndReverseHelper(t, v, to) \o Tail(calls[k]))
    /\ UNCHANGED <<now, lastSwitch, actual, record, copy, forward, careful, ordered>>

ReadClock(k) ==
    /\ Calls(k, "Time")
    /\ LET clock == NextCall(k)
       IN  GoOn(k, <<[call |-> "Test", num |-> clock.num, curved |-> clock.curved, at |-> now]>>)
    /\ UNCHANGED <<now, lastSwitch, actual, record, copy, forward, careful, ordered>>

SwitchUnlessRecent_Always(k) ==                                      \* slip
    /\ Calls(k, "Test")
    /\ LET n == NextCall(k).num
       IN  /\ lastSwitch' = [lastSwitch EXCEPT ![n] = NextCall(k).at]
           /\ GoOn(k, SwitchTurnout(n, NextCall(k).curved))
    /\ UNCHANGED <<now, actual, record, copy, forward, careful, ordered>>

\* An order that comes too soon after another for the same turnout is dropped.
SwitchUnlessRecent(k) ==
    /\ Calls(k, "Test")
    /\ LET n == NextCall(k).num
           due == NextCall(k).at >= lastSwitch[n] + DELAY_BETWEEN_SW
       IN  /\ lastSwitch' = IF due THEN [lastSwitch EXCEPT ![n] = NextCall(k).at]
                            ELSE lastSwitch
           /\ GoOn(k, IF due THEN SwitchTurnout(n, NextCall(k).curved) ELSE << >>)
    /\ UNCHANGED <<now, actual, record, copy, forward, careful, ordered>>

WakeUp(k) ==
    /\ Calls(k, "Sleeping") /\ NextCall(k).until <= now
    /\ GoOn(k, Tail(calls[k]))
    /\ UNCHANGED <<now, lastSwitch, actual, record, copy, forward, careful, ordered>>

----------------------------------------------------------------------------
(* The servers and the time. *)

\* The model courier asks for a train's speed to be told again.
RequestUpdate(t) ==
    /\ forward = Nothing
    /\ forward' = [kind |-> "speed", train |-> t, speed |-> record.trains[t].speed]
    /\ UNCHANGED <<now, calls, lastSwitch, actual, record, copy, careful, ordered>>

CoordinatesServerTakes ==
    /\ forward # Nothing
    /\ copy' = CASE forward.kind = "turnouts" -> [copy EXCEPT !.turnouts = forward.states]
                 [] forward.kind = "reversed" -> [copy EXCEPT !.trains[forward.train].dir = ~ @]
                 [] forward.kind = "speed" ->
                        [copy EXCEPT !.trains[forward.train].speed = forward.speed]
    /\ forward' = Nothing
    /\ UNCHANGED <<now, calls, lastSwitch, actual, record, careful, ordered>>

Tick ==
    /\ now < MaxTime
    /\ forward = Nothing
    /\ \A k \in Tasks : Idle(k) \/ (Calls(k, "Sleeping") /\ NextCall(k).until > now)
    /\ now' = now + TickStep
    /\ UNCHANGED <<calls, lastSwitch, actual, record, copy, forward, careful, ordered>>

Next ==
    \/ \E k \in Switchers, n \in Turnouts, curved \in BOOLEAN : OrderSwitcher(k, n, curved)
    \/ \E t \in Trains, n \in Turnouts, curved \in BOOLEAN : OrderTurnout(t, n, curved)
    \/ \E t \in Trains, v \in Speeds : OrderSpeed(t, v)
    \/ \E t \in Trains, v \in (Speeds \ {0}) \cup {OwnSpeed} : OrderReverse(t, v)
    \/ \E k \in Tasks :
          \/ PutBytes(k) \/ TellTurnout(k) \/ TellDirection(k) \/ TellSpeed(k)
          \/ GetDirection(k) \/ GetSpeed(k) \/ ReadClock(k) \/ SwitchUnlessRecent(k)
          \/ WakeUp(k)
    \/ \E t \in Trains : RequestUpdate(t)
    \/ CoordinatesServerTakes
    \/ Tick

Spec == Init /\ [][Next]_vars

----------------------------------------------------------------------------
(* What is right about them. *)

\* When nobody is at a turnout or a train any more, it is in the state that both servers
\* have of it: the switchers for one turnout keep out of each other's way, and the
\* direction is turned over in the records as often as in reality.
RecordTrue ==
    careful /\ forward = Nothing =>
        /\ \A n \in Turnouts : NobodyAt(Tasks, {n}) =>
              /\ record.turnouts[n] = actual.turnouts[n]
              /\ copy.turnouts[n] = actual.turnouts[n]
        /\ \A t \in Trains : (\A k \in Tasks : ~ Drives(k, t)) =>
              LET is == [speed |-> actual.trains[t].speed, dir |-> actual.trains[t].dir]
              IN  record.trains[t] = is /\ copy.trains[t] = is

\* However orders for the two halves of a crossing meet, they do not stay curved both.
PairsApart ==
    \A n \in Turnouts \cap DOMAIN Paired :
        NobodyAt(Tasks, Halves(n)) =>
            ~ (actual.turnouts[n] = "curved" /\ actual.turnouts[Paired[n]] = "curved")

\* A train is at rest when it is told to change its direction.
ReversedAtRest ==
    [][careful => \A t \in Trains :
          actual'.trains[t].dir # actual.trains[t].dir => AtRest(t)]_vars

===============================================================================

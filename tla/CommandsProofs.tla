---------------------------- MODULE CommandsProofs ----------------------------
(***************************************************************************)
(* Whatever the trains, switchers, turnouts and speeds: no crossing is     *)
(* left with both halves curved, both servers are right about whatever     *)
(* nobody is at, and no train is turned around before it stands.           *)
(*                                                                         *)
(* The three are about what several calls of a task do together, so the    *)
(* invariant speaks of the lists of the calls still to be made:            *)
(*   ListsInv     what such a list looks like: a command is followed by    *)
(*                its record, a half set to curved by the other one set to *)
(*                straight, a reversal comes after a stop and a wait;      *)
(*   StartInv     while a resetter runs, no one else does;                 *)
(*   TestInv      a switcher tests the last switch time with the time it   *)
(*                has just read;                                           *)
(*   CrossingInv  two curved halves: one of them is still to be set;       *)
(*   TrainInv, TurnoutInv, CopyInv                                         *)
(*                a record that is wrong is told next, or is on its way;   *)
(*   AloneInv     a turnout is set by one task at a time;                  *)
(*   BrakeInv     how long a train that is going to be turned around has   *)
(*                still to be waited for.                                  *)
(* The lists come first, then the steps, conjunct by conjunct.             *)
(***************************************************************************)
EXTENDS Commands, SequenceTheorems, FiniteSetTheorems, TLAPS

Numbers == INSTANCE RingTheorems WITH Size <- 1, CountMod <- 1, Unset <- 0

(* The lists of calls. *)

TurnAround(t) == [kind |-> "reverse", train |-> t]
AskDirection(t) == [call |-> "GetDirection", train |-> t]

Turns == [kind : {"turnout"}, num : Turnouts, dir : {"straight", "curved"}]
SpeedCommands == [kind : {"speed"}, train : Trains, speed : Speeds]
DirectionCommands == [kind : {"direction"}, train : Trains, dir : BOOLEAN]
ReverseCommands == [kind : {"reverse"}, train : Trains]

Call ==
    [call : {"PutBytes"}, cmd : Turns] \cup [call : {"PutBytes"}, cmd : SpeedCommands]
    \cup [call : {"PutBytes"}, cmd : ReverseCommands]
    \cup [call : {"Send"}, cmd : Turns] \cup [call : {"Send"}, cmd : SpeedCommands]
    \cup [call : {"Send"}, cmd : DirectionCommands]
    \cup [call : {"Delay"}, ticks : Nat] \cup [call : {"Sleeping"}, until : Nat]
    \cup [call : {"GetSpeed"}, train : Trains, to : Speeds \cup {OwnSpeed}]
    \cup [call : {"GetDirection"}, train : Trains]
    \cup [call : {"Time"}, num : Turnouts, curved : BOOLEAN]
    \cup [call : {"Test"}, num : Turnouts, curved : BOOLEAN, at : Nat]

\* What comes after a command was put: it is told, or the direction is asked for.
After(cmd) == IF cmd.kind = "reverse" THEN AskDirection(cmd.train) ELSE Tell(cmd)

Link(x, y) ==
    /\ x.call = "PutBytes" => y = After(x.cmd)
    /\ y.call \in {"Send", "GetDirection"} => x.call = "PutBytes" /\ y = After(x.cmd)
    /\ y.call \notin {"GetSpeed", "Time", "Test", "Sleeping"}

Linked(s) ==
    /\ \A i \in 1 .. Len(s) - 1 : Link(s[i], s[i + 1])
    /\ s # << >> => s[Len(s)].call # "PutBytes"

\* After a half of a crossing is set to curved the other one is set to straight.
Crossed(s) ==
    \A i \in 1 .. Len(s), n \in DOMAIN Paired :
        s[i] = Put(Turn(n, "curved")) =>
            \E j \in 1 .. Len(s) : j > i /\ s[j] = Put(Turn(Paired[n], "straight"))

\* A train that is reversed was stopped and waited for first.
Braked(s) ==
    \A i \in 1 .. Len(s), t \in Trains :
        s[i] = Put(TurnAround(t)) =>
            /\ i <= 4
            /\ i > 1 => s[i - 1].call \in {"Delay", "Sleeping"}
            /\ i > 2 => s[i - 2] = Tell(Speed(t, 0))

\* Who makes a call.
Belongs(k, c) ==
    /\ c.call \in {"Time", "Test"} => k \in Switchers
    /\ \A t \in Trains : AtTrain(c, t) =>
          \/ k = t
          \/ k = "speed_resetter" /\ c.call \in {"PutBytes", "Send"} /\ c.cmd.kind = "speed"
    /\ \A n \in Turnouts : AtTurnout(c, n) => k # "speed_resetter"

Waits(c) == c.call \in {"Delay", "Sleeping"}

ListOf(k, s) ==
    /\ s \in Seq(Call) /\ Linked(s) /\ Crossed(s) /\ Braked(s)
    /\ \A i \in 1 .. Len(s) : Belongs(k, s[i])
    /\ s # << >> /\ s[1].call \in {"GetSpeed", "Time", "Test"} => Len(s) = 1
    /\ k \in Switchers => \A i \in 1 .. Len(s) : Waits(s[i]) => i = Len(s)

(* The invariant. *)

TrainState == [speed : Speeds, was : Speeds, since : Nat, dir : BOOLEAN]
TrainRecord == [speed : Speeds, dir : BOOLEAN]

TypeInv ==
    /\ now \in Nat
    /\ lastSwitch \in [Turnouts -> Nat]
    /\ actual \in [turnouts : [Turnouts -> {"straight", "curved"}],
                   trains : [Trains -> TrainState]]
    /\ record \in [turnouts : [Turnouts -> Directions], trains : [Trains -> TrainRecord]]
    /\ copy \in [turnouts : [Turnouts -> Directions], trains : [Trains -> TrainRecord]]
    /\ forward \in {Nothing} \cup [kind : {"turnouts"}, states : [Turnouts -> Directions]]
                   \cup [kind : {"reversed"}, train : Trains]
                   \cup [kind : {"speed"}, train : Trains, speed : Speeds]
    /\ careful \in BOOLEAN

ListsInv ==
    /\ DOMAIN calls = Tasks
    /\ \A k \in Tasks : ListOf(k, calls[k])

\* The resetters run alone.
StartInv ==
    (\E r \in Resetters : ~ Idle(r)) => \A k \in Trains \cup Switchers : Idle(k)

\* Both halves of a crossing are curved only while somebody will set one to straight.
CrossingInv ==
    \A n \in Turnouts \cap DOMAIN Paired :
        actual.turnouts[n] = "curved" /\ actual.turnouts[Paired[n]] = "curved" =>
            \E k \in Tasks, m \in Halves(n) :
                \E i \in DOMAIN calls[k] : calls[k][i] = Put(Turn(m, "straight"))

\* A task has got as far as to command or record a turnout.
Sets(c, n) == c.call \in {"PutBytes", "Send"} /\ c.cmd.kind = "turnout" /\ c.cmd.num = n
Holds(k, n) == \E i \in DOMAIN calls[k] : Sets(calls[k][i], n)
Busy(k, n) == \E m \in Halves(n) : Touches(k, m)

Now(k, c) == ~ Idle(k) /\ NextCall(k) = c

\* A turnout has one task that sets it, and further ones only if all are switchers: of
\* these the one that sets it has noted the time.
AloneInv ==
    /\ \A n \in Turnouts, j, k \in Tasks :
          j # k /\ Touches(j, n) /\ Touches(k, n) =>
              /\ n \notin DOMAIN Paired /\ j \in Switchers /\ k \in Switchers
              /\ ~ (Holds(j, n) /\ Holds(k, n))
    /\ \A n \in Turnouts \cap DOMAIN Paired, j, k \in Tasks :
          j # k => ~ (Busy(j, n) /\ Busy(k, n))
    /\ \A n \in Turnouts \ DOMAIN Paired, k \in Switchers : Holds(k, n) => lastSwitch[n] = now

TestInv ==
    \A k \in Tasks : ~ Idle(k) /\ NextCall(k).call = "Test" => NextCall(k).at = now

\* The record of a turnout is right but for what its task makes next, and until the
\* resetter has been there.
TurnRight(n) ==
    /\ \A k \in Tasks, d \in {"straight", "curved"} :
          Now(k, Tell(Turn(n, d))) => d = actual.turnouts[n]
    /\ \/ record.turnouts[n] = actual.turnouts[n]
       \/ \E k \in Tasks, d \in {"straight", "curved"} : Now(k, Tell(Turn(n, d)))
       \/ \E i \in DOMAIN calls["turnout_resetter"] :
             \E d \in {"straight", "curved"} :
                 calls["turnout_resetter"][i] = Put(Turn(n, d))

TurnoutInv == \A n \in Turnouts : TurnRight(n)

CopyInv ==
    /\ \A n \in Turnouts : \/ copy.turnouts[n] = record.turnouts[n]
                           \/ forward.kind = "turnouts"
                           \/ Touches("turnout_resetter", n)
    /\ forward.kind = "turnouts" => forward.states = record.turnouts
    /\ forward.kind = "speed" => forward.speed = record.trains[forward.train].speed
    /\ \A t \in Trains :
          /\ copy.trains[t].speed = record.trains[t].speed
          /\ (copy.trains[t].dir # record.trains[t].dir) <=>
                (forward.kind = "reversed" /\ forward.train = t)

\* The records of a train are right but for the call that its task makes next.
TrainRight(t) ==
    /\ \A k \in Tasks, v \in Speeds : Now(k, Tell(Speed(t, v))) => v = actual.trains[t].speed
    /\ \/ record.trains[t].speed = actual.trains[t].speed
       \/ \E k \in Tasks, v \in Speeds : Now(k, Tell(Speed(t, v)))
    /\ \A d \in BOOLEAN : Now(t, Tell(Direction(t, d))) => d = actual.trains[t].dir
    /\ (record.trains[t].dir # actual.trains[t].dir) <=>
          \/ Now(t, AskDirection(t))
          \/ \E d \in BOOLEAN : Now(t, Tell(Direction(t, d)))

TrainInv == \A t \in Trains : TrainRight(t)

\* When the train will have come to rest.
Rest(t) == actual.trains[t].since + BrakeTicks * actual.trains[t].was

Standing(t) == actual.trains[t].speed = 0
Reverses(t, i) == i <= Len(calls[t]) /\ calls[t][i] = Put(TurnAround(t))

\* How far a train is that will be turned around.
BrakeRight(t) ==
    LET s == calls[t]
    IN  /\ Reverses(t, 1) => AtRest(t)
        /\ Reverses(t, 2) => Standing(t) /\ s[1].call = "Sleeping" /\ s[1].until >= Rest(t)
        /\ Reverses(t, 3) => Standing(t) /\ s[2].call = "Delay" /\ now + s[2].ticks >= Rest(t)
        /\ Reverses(t, 4) => /\ s[3].call = "Delay"
                             /\ s[3].ticks >= BrakeTicks * actual.trains[t].speed
                             /\ Standing(t) => AtRest(t)
        /\ s # << >> /\ s[1].call = "GetSpeed" => record.trains[t].speed # 0 \/ AtRest(t)

BrakeInv == \A t \in Trains : BrakeRight(t)

----------------------------------------------------------------------------
LEMMA CallKinds ==
    ASSUME NEW c \in Call
    PROVE  /\ c.call \in {"PutBytes", "Send", "Delay", "Sleeping", "GetSpeed", "GetDirection",
                          "Time", "Test"}
           /\ c.call = "PutBytes" => c.cmd \in Turns \cup SpeedCommands \cup ReverseCommands
           /\ c.call = "Send" => c.cmd \in Turns \cup SpeedCommands \cup DirectionCommands
           /\ c.call = "Delay" => c.ticks \in Nat
           /\ c.call = "Sleeping" => c.until \in Nat
           /\ c.call = "GetSpeed" => c.train \in Trains /\ c.to \in Speeds \cup {OwnSpeed}
           /\ c.call = "GetDirection" => c = AskDirection(c.train) /\ c.train \in Trains
           /\ c.call \in {"Time", "Test"} => c.num \in Turnouts /\ c.curved \in BOOLEAN
           /\ c.call = "Test" => c.at \in Nat
BY DEF Call, AskDirection

LEMMA Commands3 ==
    ASSUME NEW c \in Turns \cup SpeedCommands \cup ReverseCommands \cup DirectionCommands
    PROVE  /\ c.kind \in {"turnout", "speed", "reverse", "direction"}
           /\ c.kind = "turnout" => /\ c.num \in Turnouts /\ c.dir \in {"straight", "curved"}
                                    /\ c = Turn(c.num, c.dir)
           /\ c.kind = "speed" => /\ c.train \in Trains /\ c.speed \in Speeds
                                  /\ c = Speed(c.train, c.speed)
           /\ c.kind = "reverse" => c.train \in Trains /\ c = TurnAround(c.train)
           /\ c.kind = "direction" => /\ c.train \in Trains /\ c.dir \in BOOLEAN
                                      /\ c = Direction(c.train, c.dir)
BY DEF Turns, SpeedCommands, ReverseCommands, DirectionCommands, Turn, Speed, TurnAround, Direction

LEMMA CallsMade ==
    /\ \A n \in Turnouts, d \in {"straight", "curved"} :
          Put(Turn(n, d)) \in Call /\ Tell(Turn(n, d)) \in Call
    /\ \A t \in Trains, v \in Speeds : Put(Speed(t, v)) \in Call /\ Tell(Speed(t, v)) \in Call
    /\ \A t \in Trains : Put(TurnAround(t)) \in Call /\ AskDirection(t) \in Call
    /\ \A t \in Trains, d \in BOOLEAN : Tell(Direction(t, d)) \in Call
    /\ \A d \in Nat : Delay(d) \in Call /\ [call |-> "Sleeping", until |-> d] \in Call
    /\ \A t \in Trains, v \in Speeds \cup {OwnSpeed} :
          [call |-> "GetSpeed", train |-> t, to |-> v] \in Call
    /\ \A n \in Turnouts, b \in BOOLEAN :
          [call |-> "Time", num |-> n, curved |-> b] \in Call
    /\ \A n \in Turnouts, b \in BOOLEAN, a \in Nat :
          [call |-> "Test", num |-> n, curved |-> b, at |-> a] \in Call
BY DEF Call, Turns, SpeedCommands, ReverseCommands, DirectionCommands, Turn, Speed, TurnAround,
       Direction, Put, Tell, AskDirection, Delay

LEMMA AtTurnoutKinds ==
    ASSUME NEW c \in Call, NEW n \in Turnouts
    PROVE  /\ Sets(c, n) => AtTurnout(c, n)
           /\ AtTurnout(c, n) =>
                 \/ Sets(c, n)
                 \/ c.call \in {"Time", "Test"} /\ n \in {c.num} \cup Halves(c.num)
           /\ c.call \in {"Time", "Test"} => (AtTurnout(c, n) <=> n \in Halves(c.num))
           /\ \A x \in Call : (c.call = "Time" /\ x.call = "Test" /\ x.num = c.num) =>
                 (AtTurnout(x, n) <=> AtTurnout(c, n))
BY DEF AtTurnout, Sets, Halves, Paired

LEMMA HalvesFacts ==
    ASSUME NEW n \in Turnouts
    PROVE  /\ n \in Halves(n) /\ Halves(n) \subseteq Turnouts
           /\ \A m \in Halves(n) : Halves(m) = Halves(n)
           /\ n \notin DOMAIN Paired => Halves(n) = {n}
           /\ n \in DOMAIN Paired => /\ Halves(n) = {n, Paired[n]} /\ Paired[n] \in Turnouts
                                     /\ Halves(n) \subseteq DOMAIN Paired
                                     /\ Paired[Paired[n]] = n /\ Paired[n] # n
<1>1. n \in DOMAIN Paired => n \in {153, 154, 155, 156}
  BY DEF Paired
<1>2. n \in DOMAIN Paired => /\ Paired[n] \in Turnouts /\ Paired[n] \in DOMAIN Paired
                             /\ Paired[Paired[n]] = n /\ Paired[n] # n
  BY <1>1, CommandsAssumption DEF Paired
<1> QED BY <1>2 DEF Halves

LEMMA AtTrainKinds ==
    ASSUME NEW c \in Call, NEW t \in Trains
    PROVE  AtTrain(c, t) <=>
              \/ c.call \in {"GetSpeed", "GetDirection"} /\ c.train = t
              \/ /\ c.call \in {"PutBytes", "Send"}
                 /\ c.cmd.kind \in {"speed", "reverse", "direction"} /\ c.cmd.train = t
<1>1. c.call \in {"PutBytes", "Send"} =>
         c.cmd.kind \in {"turnout", "speed", "reverse", "direction"}
  BY CallKinds, Commands3
<1> QED BY <1>1 DEF AtTrain

----------------------------------------------------------------------------
(* Lists of calls. *)

LEMMA ListTail ==
    ASSUME NEW k, NEW s, ListOf(k, s), s # << >>
    PROVE  ListOf(k, Tail(s))
<1>1. s \in Seq(Call)
  BY DEF ListOf
<1>2. PICK L \in Nat : L = Len(s) /\ L > 0
  BY <1>1
<1>3. PICK r : r = Tail(s)
  OBVIOUS
<1>4. r \in Seq(Call) /\ Len(r) = L - 1 /\ \A i \in 1 .. L - 1 : r[i] = s[i + 1]
  BY <1>1, <1>2, <1>3
<1>5. \A i \in 1 .. L - 1 : i + 1 \in 1 .. L /\ i + 1 > 1
  BY <1>2
<1>6. Linked(r)
  <2>1. \A i \in 1 .. L - 2 : i \in 1 .. L - 1 /\ i + 1 \in 1 .. L - 1
    BY <1>2
  <2>2. \A i \in 1 .. L - 2 : Link(r[i], r[i + 1])
    BY <1>2, <1>4, <1>5, <2>1 DEF ListOf, Linked
  <2>3. r # << >> => r[Len(r)] = s[L]
    BY <1>2, <1>4
  <2> QED BY <1>1, <1>2, <1>4, <2>2, <2>3 DEF ListOf, Linked
<1>7. Crossed(r)
  <2> SUFFICES ASSUME NEW i \in 1 .. L - 1, NEW n \in DOMAIN Paired, r[i] = Put(Turn(n, "curved"))
               PROVE  \E j \in 1 .. L - 1 : j > i /\ r[j] = Put(Turn(Paired[n], "straight"))
    BY <1>4 DEF Crossed
  <2>1. PICK j \in 1 .. L : j > i + 1 /\ s[j] = Put(Turn(Paired[n], "straight"))
    BY <1>2, <1>4, <1>5 DEF ListOf, Crossed
  <2>2. j - 1 \in 1 .. L - 1 /\ j - 1 > i /\ (j - 1) + 1 = j
    BY <1>2, <2>1
  <2> QED BY <1>4, <2>1, <2>2
<1>8. Braked(r)
  <2> SUFFICES ASSUME NEW i \in 1 .. L - 1, NEW t \in Trains, r[i] = Put(TurnAround(t))
               PROVE  /\ i <= 4 /\ (i > 1 => r[i - 1].call \in {"Delay", "Sleeping"})
                      /\ (i > 2 => r[i - 2] = Tell(Speed(t, 0)))
    BY <1>4 DEF Braked
  <2>1. /\ i + 1 <= 4 /\ (i + 1 > 1 => s[(i + 1) - 1].call \in {"Delay", "Sleeping"})
        /\ (i + 1 > 2 => s[(i + 1) - 2] = Tell(Speed(t, 0)))
    BY <1>2, <1>4, <1>5 DEF ListOf, Braked
  <2>2. /\ i > 1 => (i - 1) \in 1 .. L - 1 /\ (i - 1) + 1 = (i + 1) - 1
        /\ i > 2 => (i - 2) \in 1 .. L - 1 /\ (i - 2) + 1 = (i + 1) - 2
    BY <1>2
  <2> QED BY <1>4, <2>1, <2>2
<1>9. \A i \in 1 .. L - 1 : Belongs(k, r[i])
  BY <1>2, <1>4, <1>5 DEF ListOf
<1>10. r = << >> \/ r[1].call \notin {"GetSpeed", "Time", "Test"}
  <2>1. CASE L > 1
    <3>1. 1 \in 1 .. L - 1 /\ Link(s[1], s[1 + 1])
      BY <1>2, <2>1 DEF ListOf, Linked
    <3> QED BY <1>4, <3>1 DEF Link
  <2> QED BY <1>2, <1>4, <2>1
<1>11. k \in Switchers => \A i \in 1 .. L - 1 : Waits(r[i]) => i = L - 1
  <2> SUFFICES ASSUME k \in Switchers, NEW i \in 1 .. L - 1, Waits(r[i]) PROVE i = L - 1
    OBVIOUS
  <2>1. i + 1 = L
    BY <1>2, <1>4, <1>5 DEF ListOf
  <2> QED BY <1>2, <2>1
<1>12. ListOf(k, r)
  BY <1>4, <1>6, <1>7, <1>8, <1>9, <1>10, <1>11 DEF ListOf
<1> QED BY <1>3, <1>12

\* A list whose first call is another one.
LEMMA HeadReplaced ==
    ASSUME NEW S, NEW s \in Seq(S), s # << >>, NEW c \in S
    PROVE  LET r == <<c>> \o Tail(s)
           IN  r \in Seq(S) /\ Len(r) = Len(s) /\ r[1] = c /\ \A i \in 2 .. Len(s) : r[i] = s[i]
<1>1. PICK L \in Nat : L = Len(s) /\ L > 0
  OBVIOUS
<1>2. PICK r : r = <<c>> \o Tail(s)
  OBVIOUS
<1>3. <<c>> \in Seq(S) /\ Len(<<c>>) = 1 /\ <<c>>[1] = c
  OBVIOUS
<1>4. PICK t : t = Tail(s)
  OBVIOUS
<1>5. t \in Seq(S) /\ Len(t) = L - 1 /\ \A i \in 1 .. L - 1 : t[i] = s[i + 1]
  BY <1>1, <1>4
<1>6. /\ r \in Seq(S) /\ Len(r) = 1 + (L - 1) /\ r[1] = c
      /\ \A i \in 1 .. L - 1 : r[1 + i] = t[i]
  BY <1>2, <1>3, <1>4, <1>5
<1>7. ASSUME NEW i \in 2 .. L PROVE r[i] = s[i]
  <2>1. i - 1 \in 1 .. L - 1 /\ 1 + (i - 1) = i /\ (i - 1) + 1 = i
    BY <1>1
  <2>2. r[1 + (i - 1)] = t[i - 1] /\ t[i - 1] = s[(i - 1) + 1]
    BY <1>5, <1>6, <2>1
  <2> QED BY <2>1, <2>2
<1>8. r \in Seq(S) /\ Len(r) = L /\ r[1] = c /\ \A i \in 2 .. L : r[i] = s[i]
  BY <1>1, <1>6, <1>7
<1> QED BY <1>1, <1>2, <1>8, Zenon

\* A task that falls asleep keeps its list but for the first call.
Replaced(s, r) ==
    /\ Len(r) = Len(s) /\ \A i \in 2 .. Len(s) : r[i] = s[i]
    /\ s # << >> => IF s[1].call = "Delay"
                    THEN r[1] = [call |-> "Sleeping", until |-> now + s[1].ticks]
                    ELSE r[1] = s[1]

LEMMA AsleepReplaces ==
    ASSUME NEW s \in Seq(Call), now \in Nat
    PROVE  Asleep(s) \in Seq(Call) /\ Replaced(s, Asleep(s))
<1>1. PICK L \in Nat : L = Len(s)
  OBVIOUS
<1>2. CASE s # << >> /\ Head(s).call = "Delay"
  <2>1. PICK c : c = [call |-> "Sleeping", until |-> now + s[1].ticks]
    OBVIOUS
  <2>2. L > 0 /\ s[1] \in Call /\ Head(s) = s[1]
    BY <1>1, <1>2
  <2>3. c \in Call
    <3>1. s[1].ticks \in Nat
      BY <1>2, <2>2, CallKinds
    <3>2. now + s[1].ticks \in Nat
      BY <3>1
    <3> QED BY <2>1, <3>2, CallsMade
  <2>4. PICK r : r = <<c>> \o Tail(s)
    OBVIOUS
  <2>5. r \in Seq(Call) /\ Len(r) = L /\ r[1] = c /\ \A i \in 2 .. L : r[i] = s[i]
    BY <1>1, <1>2, <2>3, <2>4, HeadReplaced
  <2>6. Asleep(s) = r
    BY <1>2, <2>1, <2>2, <2>4 DEF Asleep
  <2> QED BY <1>1, <1>2, <2>1, <2>2, <2>5, <2>6 DEF Replaced
<1>3. CASE ~ (s # << >> /\ Head(s).call = "Delay")
  <2>1. Asleep(s) = s /\ (s # << >> => Head(s) = s[1])
    BY <1>3 DEF Asleep
  <2> QED BY <1>3, <2>1 DEF Replaced
<1> QED BY <1>2, <1>3

LEMMA ListReplaced ==
    ASSUME NEW k, NEW s, ListOf(k, s), NEW r \in Seq(Call), Replaced(s, r)
    PROVE  ListOf(k, r)
<1>1. s \in Seq(Call) /\ r \in Seq(Call)
  BY DEF ListOf
<1>2. PICK L \in Nat : L = Len(s) /\ L = Len(r)
  BY <1>1 DEF Replaced
<1>0. (s = << >> <=> L = 0) /\ (r = << >> <=> L = 0)
  BY <1>1, <1>2, EmptySeq, Zenon
<1> DEFINE Same(i) == r[i] = s[i]
           Slept(i) == /\ i = 1 /\ s[i].call = "Delay" /\ r[i].call = "Sleeping"
<1>3. \A i \in 1 .. L : Same(i) \/ Slept(i)
  <2>1. s # << >> => (IF s[1].call = "Delay" THEN r[1].call = "Sleeping" ELSE r[1] = s[1])
    BY DEF Replaced
  <2>2. \A i \in 1 .. L : i = 1 \/ i \in 2 .. L
    BY <1>2
  <2>3. \A i \in 2 .. L : r[i] = s[i]
    BY <1>2 DEF Replaced
  <2>4. \A i \in 1 .. L : s # << >>
    BY <1>0, <1>2
  <2> QED BY <2>1, <2>2, <2>3, <2>4
<1>4. \A i \in 1 .. L : /\ Waits(r[i]) <=> Waits(s[i])
                        /\ ~ Waits(r[i]) => r[i] = s[i]
  BY <1>3 DEF Waits
<1>5. Linked(r)
  <2>1. \A i \in 1 .. L - 1 : i \in 1 .. L /\ i + 1 \in 1 .. L /\ i + 1 # 1
    BY <1>2
  <2>2. \A i \in 1 .. L - 1 : r[i + 1] = s[i + 1] /\ Link(s[i], s[i + 1])
    BY <1>1, <1>2, <1>3, <2>1 DEF ListOf, Linked
  <2>3. \A i \in 1 .. L - 1 : Link(r[i], r[i + 1])
    BY <1>3, <2>1, <2>2 DEF Link
  <2>4. r # << >> => L \in 1 .. L /\ s # << >>
    BY <1>0, <1>2
  <2>5. r # << >> => r[L].call # "PutBytes"
    BY <1>2, <1>3, <2>4 DEF ListOf, Linked
  <2> QED BY <1>2, <2>3, <2>5 DEF Linked
<1>6. \A x : (\E cmd : x = Put(cmd)) \/ (\E cmd : x = Tell(cmd)) => ~ Waits(x)
  BY DEF Put, Tell, Waits
<1>7. \A i \in 1 .. L : \A cmd : r[i] = Put(cmd) <=> s[i] = Put(cmd)
  BY <1>4, <1>6
<1>8. \A i \in 1 .. L : \A cmd : r[i] = Tell(cmd) <=> s[i] = Tell(cmd)
  BY <1>4, <1>6
<1>9. Crossed(r)
  BY <1>2, <1>7 DEF ListOf, Crossed
<1>10. Braked(r)
  <2> SUFFICES ASSUME NEW i \in 1 .. L, NEW t \in Trains, r[i] = Put(TurnAround(t))
               PROVE  /\ i <= 4 /\ (i > 1 => r[i - 1].call \in {"Delay", "Sleeping"})
                      /\ (i > 2 => r[i - 2] = Tell(Speed(t, 0)))
    BY <1>2 DEF Braked
  <2>1. /\ i <= 4 /\ (i > 1 => Waits(s[i - 1]))
        /\ (i > 2 => s[i - 2] = Tell(Speed(t, 0)))
    BY <1>2, <1>7 DEF ListOf, Braked, Waits
  <2>2. (i > 1 => i - 1 \in 1 .. L) /\ (i > 2 => i - 2 \in 1 .. L)
    BY <1>2
  <2> QED BY <1>4, <1>8, <2>1, <2>2 DEF Waits
<1>11. \A i \in 1 .. L : Belongs(k, r[i])
  <2>1. \A x : Waits(x) => Belongs(k, x)
    BY DEF Waits, Belongs, AtTrain, AtTurnout
  <2> QED BY <1>2, <1>4, <2>1 DEF ListOf
<1>12. r # << >> /\ r[1].call \in {"GetSpeed", "Time", "Test"} => L = 1
  <2>1. r # << >> => 1 \in 1 .. L /\ s # << >>
    BY <1>0, <1>2
  <2> QED BY <1>2, <1>3, <2>1 DEF ListOf
<1>13. k \in Switchers => \A i \in 1 .. L : Waits(r[i]) => i = L
  BY <1>2, <1>4 DEF ListOf
<1> QED BY <1>2, <1>5, <1>9, <1>10, <1>11, <1>12, <1>13 DEF ListOf

\* Lists of calls put together from short ones.
LEMMA Joined ==
    ASSUME NEW S, NEW s \in Seq(S), NEW t \in Seq(S)
    PROVE  /\ s \o t \in Seq(S) /\ Len(s \o t) = Len(s) + Len(t)
           /\ \A i \in 1 .. Len(s) : (s \o t)[i] = s[i]
           /\ \A i \in 1 .. Len(t) : (s \o t)[Len(s) + i] = t[i]
OBVIOUS

LEMMA JoinedOne ==
    ASSUME NEW S, NEW L \in Nat, NEW s \in Seq(S), Len(s) = L, NEW a \in S
    PROVE  /\ s \o <<a>> \in Seq(S) /\ Len(s \o <<a>>) = L + 1
           /\ \A i \in 1 .. L : (s \o <<a>>)[i] = s[i]
           /\ (s \o <<a>>)[L + 1] = a
<1>1. PICK t : t = <<a>>
  OBVIOUS
<1>2. t \in Seq(S) /\ Len(t) = 1 /\ t[1] = a /\ 1 \in 1 .. 1
  BY <1>1
<1>3. /\ s \o t \in Seq(S) /\ Len(s \o t) = Len(s) + Len(t)
      /\ \A i \in 1 .. Len(s) : (s \o t)[i] = s[i]
      /\ \A i \in 1 .. Len(t) : (s \o t)[Len(s) + i] = t[i]
  BY <1>2, Joined
<1>4. PICK r : r = s \o t
  OBVIOUS
<1>5. /\ r \in Seq(S) /\ Len(r) = L + 1 /\ (\A i \in 1 .. L : r[i] = s[i])
      /\ \A i \in 1 .. 1 : r[L + i] = t[i]
  BY <1>2, <1>3, <1>4
<1>6. r[L + 1] = a
  BY <1>2, <1>5
<1> QED BY <1>1, <1>4, <1>5, <1>6, Zenon

LEMMA JoinedTwo ==
    ASSUME NEW S, NEW L \in Nat, NEW s \in Seq(S), Len(s) = L, NEW a \in S, NEW b \in S
    PROVE  /\ s \o <<a, b>> \in Seq(S) /\ Len(s \o <<a, b>>) = L + 2
           /\ \A i \in 1 .. L : (s \o <<a, b>>)[i] = s[i]
           /\ (s \o <<a, b>>)[L + 1] = a /\ (s \o <<a, b>>)[L + 2] = b
<1>1. PICK t : t = <<a, b>>
  OBVIOUS
<1>0. t \in Seq(S)
  BY <1>1
<1>2. Len(t) = 2 /\ t[1] = a /\ t[2] = b /\ 1 \in 1 .. 2 /\ 2 \in 1 .. 2
  BY <1>1
<1>3. /\ s \o t \in Seq(S) /\ Len(s \o t) = Len(s) + Len(t)
      /\ \A i \in 1 .. Len(s) : (s \o t)[i] = s[i]
      /\ \A i \in 1 .. Len(t) : (s \o t)[Len(s) + i] = t[i]
  BY <1>0
<1>4. PICK r : r = s \o t
  OBVIOUS
<1>5. /\ r \in Seq(S) /\ Len(r) = L + 2 /\ (\A i \in 1 .. L : r[i] = s[i])
      /\ \A i \in 1 .. 2 : r[L + i] = t[i]
  BY <1>0, <1>2, <1>3, <1>4
<1>6. r[L + 1] = a /\ r[L + 2] = b
  BY <1>2, <1>5
<1> QED BY <1>1, <1>4, <1>5, <1>6, Zenon

LEMMA SwitchTurnoutList ==
    ASSUME NEW n \in Turnouts, NEW curved \in BOOLEAN
    PROVE  LET s == SwitchTurnout(n, curved)
           IN  /\ s \in Seq(Call)
               /\ s[1] = Put(Turn(n, Dir(curved))) /\ s[2] = Tell(Turn(n, Dir(curved)))
               /\ IF n \in DOMAIN Paired /\ curved
                  THEN /\ Len(s) = 5
                       /\ s[3] = Put(Turn(Paired[n], "straight"))
                       /\ s[4] = Tell(Turn(Paired[n], "straight"))
                       /\ s[5] = Delay(15)
                  ELSE Len(s) = 3 /\ s[3] = Delay(15)
<1>1. Dir(curved) \in {"straight", "curved"}
  BY DEF Dir
<1>2. PICK a, b, e : /\ a = Put(Turn(n, Dir(curved))) /\ b = Tell(Turn(n, Dir(curved)))
                     /\ e = Delay(15)
  OBVIOUS
<1>3. a \in Call /\ b \in Call /\ e \in Call
  BY <1>1, <1>2, CallsMade
<1>4. <<a, b>> \in Seq(Call) /\ Len(<<a, b>>) = 2 /\ <<a, b>>[1] = a /\ <<a, b>>[2] = b
  BY <1>3
<1>5. PICK s0 : s0 = <<a, b>>
  OBVIOUS
<1>6. CASE n \in DOMAIN Paired /\ curved
  <2>1. PICK c, d : c = Put(Turn(Paired[n], "straight")) /\ d = Tell(Turn(Paired[n], "straight"))
    OBVIOUS
  <2>2. c \in Call /\ d \in Call
    BY <1>6, <2>1, CallsMade, HalvesFacts
  <2>3. PICK s1 : s1 = s0 \o <<c, d>>
    OBVIOUS
  <2>4. /\ s1 \in Seq(Call) /\ Len(s1) = 4 /\ s1[1] = a /\ s1[2] = b
        /\ s1[3] = c /\ s1[4] = d
    <3>1. /\ s1 \in Seq(Call) /\ Len(s1) = 2 + 2 /\ (\A i \in 1 .. 2 : s1[i] = s0[i])
          /\ s1[2 + 1] = c /\ s1[2 + 2] = d
      BY <1>4, <1>5, <2>2, <2>3, JoinedTwo
    <3> QED BY <1>4, <1>5, <3>1
  <2>5. PICK s2 : s2 = s1 \o <<e>>
    OBVIOUS
  <2>6. /\ s2 \in Seq(Call) /\ Len(s2) = 5 /\ s2[1] = a /\ s2[2] = b
        /\ s2[3] = c /\ s2[4] = d /\ s2[5] = e
    <3>1. /\ s2 \in Seq(Call) /\ Len(s2) = 4 + 1 /\ (\A i \in 1 .. 4 : s2[i] = s1[i])
          /\ s2[4 + 1] = e
      BY <1>3, <2>4, <2>5, JoinedOne, SMTT(40)
    <3> QED BY <2>4, <3>1
  <2>7. SwitchTurnout(n, curved) = s2
    BY <1>2, <1>5, <1>6, <2>1, <2>3, <2>5 DEF SwitchTurnout
  <2> QED BY <1>2, <1>6, <2>1, <2>6, <2>7
<1>7. CASE ~ (n \in DOMAIN Paired /\ curved)
  <2>1. s0 \o << >> = s0
    BY <1>4, <1>5, ConcatEmptySeq
  <2>2. PICK s2 : s2 = s0 \o <<e>>
    OBVIOUS
  <2>3. /\ s2 \in Seq(Call) /\ Len(s2) = 3 /\ s2[1] = a /\ s2[2] = b /\ s2[3] = e
    <3>1. /\ s2 \in Seq(Call) /\ Len(s2) = 2 + 1 /\ (\A i \in 1 .. 2 : s2[i] = s0[i])
          /\ s2[2 + 1] = e
      BY <1>3, <1>4, <1>5, <2>2, JoinedOne
    <3> QED BY <1>4, <1>5, <3>1
  <2>4. SwitchTurnout(n, curved) = (s0 \o << >>) \o <<e>>
    BY <1>2, <1>5, <1>7 DEF SwitchTurnout
  <2>5. SwitchTurnout(n, curved) = s2
    BY <2>1, <2>2, <2>4
  <2> QED BY <1>2, <1>7, <2>3, <2>5
<1> QED BY <1>6, <1>7

\* Which calls come from which task.
LEMMA TurnBelongs ==
    ASSUME NEW k, k # "speed_resetter", NEW n, NEW d
    PROVE  /\ Belongs(k, Put(Turn(n, d))) /\ Belongs(k, Tell(Turn(n, d)))
           /\ \A ticks : Belongs(k, Delay(ticks))
BY DEF Belongs, AtTrain, AtTurnout, Put, Tell, Turn, Delay

LEMMA TrainBelongs ==
    ASSUME NEW t \in Trains, NEW v
    PROVE  /\ \A k \in {t, "speed_resetter"} : /\ Belongs(k, Put(Speed(t, v)))
                                               /\ Belongs(k, Tell(Speed(t, v)))
           /\ Belongs(t, Put(TurnAround(t))) /\ Belongs(t, AskDirection(t))
           /\ Belongs(t, Tell(Direction(t, v)))
           /\ Belongs(t, [call |-> "GetSpeed", train |-> t, to |-> v])
           /\ Belongs(t, Delay(v))
<1>1. t # "speed_resetter"
  BY TasksAssumption DEF Resetters
<1>2. \A k \in {t, "speed_resetter"} : /\ Belongs(k, Put(Speed(t, v)))
                                       /\ Belongs(k, Tell(Speed(t, v)))
  BY DEF Belongs, AtTrain, AtTurnout, Put, Tell, Speed
<1>3. /\ Belongs(t, Put(TurnAround(t))) /\ Belongs(t, AskDirection(t))
      /\ Belongs(t, Tell(Direction(t, v)))
  BY <1>1 DEF Belongs, AtTrain, AtTurnout, Put, Tell, TurnAround, AskDirection, Direction
<1>4. Belongs(t, [call |-> "GetSpeed", train |-> t, to |-> v]) /\ Belongs(t, Delay(v))
  BY <1>1 DEF Belongs, AtTrain, AtTurnout, Delay
<1> QED BY <1>2, <1>3, <1>4

\* Different calls are different.
LEMMA Distinct ==
    /\ \A c, e : Put(c).call = "PutBytes" /\ Tell(c).call = "Send" /\ Put(c) # Tell(e)
    /\ \A c, e : (Put(c) = Put(e) => c = e) /\ (Tell(c) = Tell(e) => c = e)
    /\ \A c : Put(c).cmd = c /\ Tell(c).cmd = c
    /\ \A t : AskDirection(t).call = "GetDirection" /\ AskDirection(t).train = t
    /\ \A d : Delay(d).call = "Delay" /\ Delay(d).ticks = d
    /\ \A n, d : Turn(n, d).kind = "turnout" /\ Turn(n, d).num = n /\ Turn(n, d).dir = d
    /\ \A t, v : Speed(t, v).kind = "speed" /\ Speed(t, v).train = t /\ Speed(t, v).speed = v
    /\ \A t, d : /\ Direction(t, d).kind = "direction" /\ Direction(t, d).train = t
                 /\ Direction(t, d).dir = d
    /\ \A t : TurnAround(t).kind = "reverse" /\ TurnAround(t).train = t
BY DEF Put, Tell, AskDirection, Delay, Turn, Speed, Direction, TurnAround

LEMMA Links ==
    /\ \A c : c.kind # "reverse" => Link(Put(c), Tell(c))
    /\ \A t : Link(Put(TurnAround(t)), AskDirection(t))
    /\ \A x, d : x.call # "PutBytes" => Link(x, Delay(d))
    /\ \A x, c : x.call # "PutBytes" => Link(x, Put(c))
<1>1. \A c : c.kind # "reverse" => Link(Put(c), Tell(c))
  BY Distinct DEF Link, After
<1>2. \A t : Link(Put(TurnAround(t)), AskDirection(t))
  BY Distinct DEF Link, After
<1>3. \A x, d : x.call # "PutBytes" => Link(x, Delay(d))
  BY Distinct DEF Link
<1>4. \A x, c : x.call # "PutBytes" => Link(x, Put(c))
  BY Distinct DEF Link
<1> QED BY <1>1, <1>2, <1>3, <1>4

\* A list without a train that turns around.
LEMMA BrakedOther ==
    ASSUME NEW s, \A i \in 1 .. Len(s) : s[i].call = "PutBytes" => s[i].cmd.kind # "reverse"
    PROVE  Braked(s)
<1>1. \A t : Put(TurnAround(t)).call = "PutBytes" /\ Put(TurnAround(t)).cmd.kind = "reverse"
  BY Distinct
<1> QED BY <1>1 DEF Braked

LEMMA SwitchTurnoutIs ==
    ASSUME NEW k, k # "speed_resetter", NEW n \in Turnouts, NEW curved \in BOOLEAN
    PROVE  ListOf(k, SwitchTurnout(n, curved))
<1>1. PICK s : s = SwitchTurnout(n, curved)
  OBVIOUS
<1>2. PICK d \in {"straight", "curved"} : d = Dir(curved)
  BY DEF Dir
<1>3. s \in Seq(Call) /\ s[1] = Put(Turn(n, d)) /\ s[2] = Tell(Turn(n, d))
  BY <1>1, <1>2, SwitchTurnoutList
<1>4. CASE n \in DOMAIN Paired /\ curved
  <2>1. PICK m : m = Paired[n]
    OBVIOUS
  <2>2. /\ Len(s) = 5 /\ s[3] = Put(Turn(m, "straight")) /\ s[4] = Tell(Turn(m, "straight"))
        /\ s[5] = Delay(15)
    BY <1>1, <1>4, <2>1, SwitchTurnoutList
  <2>3. \A i \in 1 .. 5 : i = 1 \/ i = 2 \/ i = 3 \/ i = 4 \/ i = 5
    OBVIOUS
  <2>4. Linked(s)
    <3>1. \A i \in 1 .. 4 : i = 1 \/ i = 2 \/ i = 3 \/ i = 4
      OBVIOUS
    <3>2. /\ Link(s[1], s[2]) /\ Link(s[2], s[3]) /\ Link(s[3], s[4]) /\ Link(s[4], s[5])
          /\ s[5].call # "PutBytes"
      BY <1>3, <2>2, Links, Distinct
    <3>3. \A i \in 1 .. 4 : Link(s[i], s[i + 1])
      BY <3>1, <3>2
    <3> QED BY <2>2, <3>2, <3>3 DEF Linked
  <2>5. Crossed(s)
    <3> SUFFICES ASSUME NEW i \in 1 .. 5, NEW x \in DOMAIN Paired, s[i] = Put(Turn(x, "curved"))
                 PROVE  \E j \in 1 .. 5 : j > i /\ s[j] = Put(Turn(Paired[x], "straight"))
      BY <2>2 DEF Crossed
    <3>1. i = 1 /\ x = n
      BY <1>3, <2>2, <2>3, Distinct
    <3> QED BY <2>1, <2>2, <3>1
  <2>6. \A i \in 1 .. 5 : /\ s[i].call = "PutBytes" => s[i].cmd.kind # "reverse"
                          /\ Belongs(k, s[i])
                          /\ Waits(s[i]) => i = 5
    <3>1. /\ Belongs(k, s[1]) /\ Belongs(k, s[2]) /\ Belongs(k, s[3])
          /\ Belongs(k, s[4]) /\ Belongs(k, s[5])
      BY <1>3, <2>2, TurnBelongs
    <3>2. /\ s[1].call = "PutBytes" /\ s[1].cmd.kind = "turnout" /\ s[2].call = "Send"
          /\ s[3].call = "PutBytes" /\ s[3].cmd.kind = "turnout" /\ s[4].call = "Send"
          /\ s[5].call = "Delay"
      BY <1>3, <2>2, Distinct
    <3> QED BY <2>3, <3>1, <3>2 DEF Waits
  <2>7. s[1].call = "PutBytes"
    BY <1>3, Distinct
  <2> QED BY <1>1, <1>3, <2>2, <2>4, <2>5, <2>6, <2>7, BrakedOther DEF ListOf
<1>5. CASE ~ (n \in DOMAIN Paired /\ curved)
  <2>2. Len(s) = 3 /\ s[3] = Delay(15)
    BY <1>1, <1>5, SwitchTurnoutList
  <2>3. \A i \in 1 .. 3 : i = 1 \/ i = 2 \/ i = 3
    OBVIOUS
  <2>4. Linked(s)
    <3>1. \A i \in 1 .. 2 : i = 1 \/ i = 2
      OBVIOUS
    <3>2. Link(s[1], s[2]) /\ Link(s[2], s[3]) /\ s[3].call # "PutBytes"
      BY <1>3, <2>2, Links, Distinct
    <3>3. \A i \in 1 .. 2 : Link(s[i], s[i + 1])
      BY <3>1, <3>2
    <3> QED BY <2>2, <3>2, <3>3 DEF Linked
  <2>5. Crossed(s)
    <3> SUFFICES ASSUME NEW i \in 1 .. 3, NEW x \in DOMAIN Paired, s[i] = Put(Turn(x, "curved"))
                 PROVE  FALSE
      BY <2>2 DEF Crossed
    <3>1. i = 1 /\ x = n /\ d = "curved"
      BY <1>3, <2>2, <2>3, Distinct
    <3> QED BY <1>2, <1>5, <3>1 DEF Dir
  <2>6. \A i \in 1 .. 3 : /\ s[i].call = "PutBytes" => s[i].cmd.kind # "reverse"
                          /\ Belongs(k, s[i])
                          /\ Waits(s[i]) => i = 3
    <3>1. Belongs(k, s[1]) /\ Belongs(k, s[2]) /\ Belongs(k, s[3])
      BY <1>3, <2>2, TurnBelongs
    <3>2. /\ s[1].call = "PutBytes" /\ s[1].cmd.kind = "turnout" /\ s[2].call = "Send"
          /\ s[3].call = "Delay"
      BY <1>3, <2>2, Distinct
    <3> QED BY <2>3, <3>1, <3>2 DEF Waits
  <2>7. s[1].call = "PutBytes"
    BY <1>3, Distinct
  <2> QED BY <1>1, <1>3, <2>2, <2>4, <2>5, <2>6, <2>7, BrakedOther DEF ListOf
<1> QED BY <1>4, <1>5

LEMMA EmptyIs == ASSUME NEW k PROVE ListOf(k, << >>)
<1>1. << >> \in Seq(Call) /\ Len(<< >>) = 0
  OBVIOUS
<1> QED BY <1>1 DEF ListOf, Linked, Crossed, Braked

\* A list of a single call.
LEMMA SingleIs ==
    ASSUME NEW k, NEW c \in Call, c.call # "PutBytes", Belongs(k, c), NEW s, s = <<c>>
    PROVE  ListOf(k, s)
<1>1. s \in Seq(Call) /\ Len(s) = 1 /\ s[1] = c /\ \A i \in 1 .. 1 : i = 1
  OBVIOUS
<1>2. \A x : Put(x).call = "PutBytes"
  BY Distinct
<1>3. \A i \in 1 .. 1 : \A x : s[i] # Put(x)
  BY <1>1, <1>2
<1>4. Linked(s)
  <2>1. \A i \in 1 .. 1 - 1 : FALSE
    OBVIOUS
  <2> QED BY <1>1, <2>1 DEF Linked
<1>5. Crossed(s) /\ Braked(s)
  BY <1>1, <1>3 DEF Crossed, Braked
<1> QED BY <1>1, <1>4, <1>5 DEF ListOf

LEMMA SwitcherIs ==
    ASSUME NEW k \in Switchers, NEW n \in Turnouts, NEW curved \in BOOLEAN
    PROVE  /\ ListOf(k, Switcher(n, curved))
           /\ \A a \in Nat :
                 ListOf(k, <<[call |-> "Test", num |-> n, curved |-> curved, at |-> a]>>)
<1>1. k # "speed_resetter"
  BY TasksAssumption DEF Resetters
<1>2. PICK c : c = [call |-> "Time", num |-> n, curved |-> curved]
  OBVIOUS
<1>3. c \in Call /\ c.call = "Time"
  BY <1>2, CallsMade
<1>4. Belongs(k, c)
  BY <1>1, <1>3 DEF Belongs, AtTrain
<1>5. ListOf(k, Switcher(n, curved))
  BY <1>2, <1>3, <1>4, SingleIs DEF Switcher
<1>6. ASSUME NEW a \in Nat
      PROVE  ListOf(k, <<[call |-> "Test", num |-> n, curved |-> curved, at |-> a]>>)
  <2>1. PICK e : e = [call |-> "Test", num |-> n, curved |-> curved, at |-> a]
    OBVIOUS
  <2>2. e \in Call /\ e.call = "Test"
    BY <2>1, CallsMade
  <2>3. Belongs(k, e)
    BY <1>1, <2>2 DEF Belongs, AtTrain
  <2> QED BY <2>1, <2>2, <2>3, SingleIs
<1> QED BY <1>5, <1>6

LEMMA StopAndReverseIs ==
    ASSUME NEW t \in Trains, NEW v \in Speeds \cup {OwnSpeed}
    PROVE  ListOf(t, StopAndReverse(t, v))
<1>1. PICK c : c = [call |-> "GetSpeed", train |-> t, to |-> v]
  OBVIOUS
<1>2. c \in Call /\ c.call = "GetSpeed" /\ Belongs(t, c)
  BY <1>1, CallsMade, TrainBelongs
<1> QED BY <1>1, <1>2, SingleIs DEF StopAndReverse

LEMMA SetSpeedList ==
    ASSUME NEW t \in Trains, NEW v \in Speeds
    PROVE  /\ SetSpeed(t, v) = <<Put(Speed(t, v)), Tell(Speed(t, v))>>
           /\ SetSpeed(t, v) \in Seq(Call) /\ Len(SetSpeed(t, v)) = 2
           /\ SetSpeed(t, v)[1] = Put(Speed(t, v)) /\ SetSpeed(t, v)[2] = Tell(Speed(t, v))
<1>1. PICK a, b : a = Put(Speed(t, v)) /\ b = Tell(Speed(t, v))
  OBVIOUS
<1>2. a \in Call /\ b \in Call
  BY <1>1, CallsMade
<1>3. PICK s : s = <<a, b>>
  OBVIOUS
<1>4. s \in Seq(Call) /\ Len(s) = 2 /\ s[1] = a /\ s[2] = b
  BY <1>2, <1>3
<1> QED BY <1>1, <1>3, <1>4 DEF SetSpeed

LEMMA SetSpeedIs ==
    ASSUME NEW t \in Trains, NEW v \in Speeds, NEW k \in {t, "speed_resetter"}
    PROVE  ListOf(k, SetSpeed(t, v))
<1>1. PICK s : s = SetSpeed(t, v)
  OBVIOUS
<1>2. s \in Seq(Call) /\ Len(s) = 2 /\ s[1] = Put(Speed(t, v)) /\ s[2] = Tell(Speed(t, v))
  BY <1>1, SetSpeedList
<1>3. (\A i \in 1 .. 2 : i = 1 \/ i = 2) /\ \A i \in 1 .. 2 - 1 : i = 1
  OBVIOUS
<1>4. /\ s[1].call = "PutBytes" /\ s[1].cmd.kind = "speed" /\ s[2].call = "Send"
  BY <1>2, Distinct
<1>5. Linked(s)
  <2>1. Link(s[1], s[2])
    BY <1>2, Links, Distinct
  <2> QED BY <1>2, <1>3, <1>4, <2>1 DEF Linked
<1>6. Crossed(s)
  <2>1. \A n, d : Put(Turn(n, d)).call = "PutBytes" /\ Put(Turn(n, d)).cmd.kind = "turnout"
    BY Distinct
  <2> QED BY <1>2, <1>3, <1>4, <2>1 DEF Crossed
<1>7. Braked(s)
  BY <1>2, <1>3, <1>4, BrakedOther
<1>8. \A i \in 1 .. 2 : Belongs(k, s[i])
  BY <1>2, <1>3, TrainBelongs
<1>9. ~ Waits(s[1]) /\ ~ Waits(s[2])
  BY <1>4 DEF Waits
<1> QED BY <1>1, <1>2, <1>3, <1>4, <1>5, <1>6, <1>7, <1>8, <1>9 DEF ListOf

LEMMA HelperList ==
    ASSUME NEW t \in Trains, NEW p \in Speeds, NEW v \in Speeds
    PROVE  LET s == StopAndReverseHelper(t, p, v)
           IN  /\ s \in Seq(Call) /\ Len(s) = 8
               /\ s[1] = Put(Speed(t, 0)) /\ s[2] = Tell(Speed(t, 0))
               /\ s[3] = Delay(p * BrakeTicks)
               /\ s[4] = Put(TurnAround(t)) /\ s[5] = AskDirection(t)
               /\ s[6] = Delay(8)
               /\ s[7] = Put(Speed(t, v)) /\ s[8] = Tell(Speed(t, v))
<1>1. 0 \in Speeds /\ p * BrakeTicks \in Nat /\ 8 \in Nat
  BY CommandsAssumption DEF BrakeTicks
<1>2. PICK c, d, e, f : /\ c = Delay(p * BrakeTicks) /\ d = Put(TurnAround(t))
                        /\ e = AskDirection(t) /\ f = Delay(8)
  OBVIOUS
<1>3. c \in Call /\ d \in Call /\ e \in Call /\ f \in Call
  BY <1>1, <1>2, CallsMade
<1>4. PICK g, h : g = Put(Speed(t, v)) /\ h = Tell(Speed(t, v))
  OBVIOUS
<1>5. g \in Call /\ h \in Call /\ SetSpeed(t, v) = <<g, h>>
  BY <1>4, CallsMade, SetSpeedList
<1>6. PICK s0 : s0 = SetSpeed(t, 0)
  OBVIOUS
<1>7. /\ s0 \in Seq(Call) /\ Len(s0) = 2 /\ s0[1] = Put(Speed(t, 0)) /\ s0[2] = Tell(Speed(t, 0))
  BY <1>1, <1>6, SetSpeedList
<1>8. PICK s1 : s1 = s0 \o <<c>>
  OBVIOUS
<1>9. /\ s1 \in Seq(Call) /\ Len(s1) = 2 + 1 /\ (\A i \in 1 .. 2 : s1[i] = s0[i]) /\ s1[2 + 1] = c
  BY <1>3, <1>7, <1>8, JoinedOne, SMTT(40)
<1>10. PICK s2 : s2 = s1 \o <<d, e>>
  OBVIOUS
<1>11. /\ s2 \in Seq(Call) /\ Len(s2) = 3 + 2 /\ (\A i \in 1 .. 3 : s2[i] = s1[i])
       /\ s2[3 + 1] = d /\ s2[3 + 2] = e
  <2>1. s1 \in Seq(Call)
    BY <1>9
  <2>2. PICK x : x = <<d, e>>
    OBVIOUS
  <2>3. x \in Seq(Call)
    BY <1>3, <2>2
  <2>4. Len(x) = 2 /\ x[1] = d /\ x[2] = e /\ 1 \in 1 .. 2 /\ 2 \in 1 .. 2
    BY <2>2
  <2>5. s2 = s1 \o x
    BY <1>10, <2>2
  <2>6. /\ s2 \in Seq(Call) /\ Len(s2) = Len(s1) + Len(x)
        /\ \A i \in 1 .. Len(s1) : s2[i] = s1[i]
        /\ \A i \in 1 .. Len(x) : s2[Len(s1) + i] = x[i]
    BY <2>1, <2>3, <2>5
  <2> QED BY <1>9, <2>4, <2>6
<1>12. PICK s3 : s3 = s2 \o <<f>>
  OBVIOUS
<1>13. /\ s3 \in Seq(Call) /\ Len(s3) = 5 + 1 /\ (\A i \in 1 .. 5 : s3[i] = s2[i]) /\ s3[5 + 1] = f
  <2>1. Len(s2) = 5
    BY <1>11
  <2> QED BY <1>3, <1>11, <1>12, <2>1, JoinedOne, SMTT(40)
<1>14. PICK s4 : s4 = s3 \o <<g, h>>
  OBVIOUS
<1>15. /\ s4 \in Seq(Call) /\ Len(s4) = 6 + 2 /\ (\A i \in 1 .. 6 : s4[i] = s3[i])
       /\ s4[6 + 1] = g /\ s4[6 + 2] = h
  <2>1. s3 \in Seq(Call)
    BY <1>13
  <2>2. PICK x : x = <<g, h>>
    OBVIOUS
  <2>3. x \in Seq(Call)
    BY <1>5, <2>2
  <2>4. Len(x) = 2 /\ x[1] = g /\ x[2] = h /\ 1 \in 1 .. 2 /\ 2 \in 1 .. 2
    BY <2>2
  <2>5. s4 = s3 \o x
    BY <1>14, <2>2
  <2>6. /\ s4 \in Seq(Call) /\ Len(s4) = Len(s3) + Len(x)
        /\ \A i \in 1 .. Len(s3) : s4[i] = s3[i]
        /\ \A i \in 1 .. Len(x) : s4[Len(s3) + i] = x[i]
    BY <2>1, <2>3, <2>5
  <2> QED BY <1>13, <2>4, <2>6
<1>16. /\ Len(s4) = 8 /\ s4[7] = g /\ s4[8] = h /\ s4[6] = f /\ s4[5] = e /\ s4[4] = d
       /\ s4[3] = c /\ s4[2] = s0[2] /\ s4[1] = s0[1]
  BY <1>9, <1>11, <1>13, <1>15
<1>17. ReverseTrain(t) = <<d, e>>
  BY <1>2 DEF ReverseTrain, TurnAround, AskDirection
<1>18. StopAndReverseHelper(t, p, v) = s4
  BY <1>2, <1>5, <1>6, <1>8, <1>10, <1>12, <1>14, <1>17 DEF StopAndReverseHelper
<1> QED BY <1>2, <1>4, <1>7, <1>15, <1>16, <1>18

LEMMA HelperIs ==
    ASSUME NEW t \in Trains, NEW p \in Speeds, NEW v \in Speeds
    PROVE  ListOf(t, StopAndReverseHelper(t, p, v))
<1>1. PICK s : s = StopAndReverseHelper(t, p, v)
  OBVIOUS
<1>2. /\ s \in Seq(Call) /\ Len(s) = 8
      /\ s[1] = Put(Speed(t, 0)) /\ s[2] = Tell(Speed(t, 0)) /\ s[3] = Delay(p * BrakeTicks)
      /\ s[4] = Put(TurnAround(t)) /\ s[5] = AskDirection(t) /\ s[6] = Delay(8)
      /\ s[7] = Put(Speed(t, v)) /\ s[8] = Tell(Speed(t, v))
  BY <1>1, HelperList
<1>3. \A i \in 1 .. 8 : i = 1 \/ i = 2 \/ i = 3 \/ i = 4 \/ i = 5 \/ i = 6 \/ i = 7 \/ i = 8
  OBVIOUS
<1>4. /\ s[1].call = "PutBytes" /\ s[1].cmd.kind = "speed" /\ s[2].call = "Send"
      /\ s[3].call = "Delay" /\ s[4].call = "PutBytes" /\ s[4].cmd.kind = "reverse"
      /\ s[4].cmd.train = t /\ s[5].call = "GetDirection" /\ s[6].call = "Delay"
      /\ s[7].call = "PutBytes" /\ s[7].cmd.kind = "speed" /\ s[8].call = "Send"
  BY <1>2, Distinct
<1>5. Linked(s)
  <2>1. \A i \in 1 .. 8 - 1 : i = 1 \/ i = 2 \/ i = 3 \/ i = 4 \/ i = 5 \/ i = 6 \/ i = 7
    OBVIOUS
  <2>2. Link(s[1], s[2]) /\ Link(s[2], s[3]) /\ Link(s[3], s[4])
    BY <1>2, <1>4, Links, Distinct
  <2>3. Link(s[4], s[5]) /\ Link(s[5], s[6])
    BY <1>2, <1>4, Links
  <2>4. Link(s[6], s[7]) /\ Link(s[7], s[8])
    BY <1>2, <1>4, Links, Distinct
  <2>5. \A i \in 1 .. 8 - 1 : Link(s[i], s[i + 1])
    BY <2>1, <2>2, <2>3, <2>4
  <2> QED BY <1>2, <1>4, <2>5 DEF Linked
<1>6. Crossed(s)
  <2>1. \A n, d : Put(Turn(n, d)).call = "PutBytes" /\ Put(Turn(n, d)).cmd.kind = "turnout"
    BY Distinct
  <2> QED BY <1>2, <1>3, <1>4, <2>1 DEF Crossed
<1>7. Braked(s)
  <2> SUFFICES ASSUME NEW i \in 1 .. 8, NEW u \in Trains, s[i] = Put(TurnAround(u))
               PROVE  i = 4 /\ u = t
    BY <1>2, <1>4 DEF Braked
  <2>1. s[i].call = "PutBytes" /\ s[i].cmd.kind = "reverse" /\ s[i].cmd.train = u
    BY Distinct
  <2> QED BY <1>3, <1>4, <2>1
<1>8. \A i \in 1 .. 8 : Belongs(t, s[i])
  <2>1. /\ Belongs(t, s[1]) /\ Belongs(t, s[2]) /\ Belongs(t, s[3]) /\ Belongs(t, s[4])
    BY <1>2, TrainBelongs
  <2>2. /\ Belongs(t, s[5]) /\ Belongs(t, s[6]) /\ Belongs(t, s[7]) /\ Belongs(t, s[8])
    BY <1>2, TrainBelongs
  <2> QED BY <1>3, <2>1, <2>2
<1>9. t \notin Switchers
  BY TasksAssumption
<1> QED BY <1>1, <1>2, <1>4, <1>5, <1>6, <1>7, <1>8, <1>9 DEF ListOf

\* The answer to GetDirection makes a call of its own, in the place of the question.
LEMMA DirectionIs ==
    ASSUME NEW t \in Trains, NEW s, ListOf(t, s), s # << >>, s[1] = AskDirection(t),
           NEW c \in Call, c.call = "Send", Belongs(t, c)
    PROVE  LET r == <<c>> \o Tail(s)
           IN  /\ ListOf(t, r) /\ Len(r) = Len(s) /\ r[1] = c
               /\ \A i \in 2 .. Len(s) : r[i] = s[i]
<1>0. PICK r : r = <<c>> \o Tail(s)
  OBVIOUS
<1>1. s \in Seq(Call)
  BY DEF ListOf
<1>2. PICK L \in Nat : L = Len(s) /\ L > 0
  BY <1>1
<1>4. c \in Call /\ c.call = "Send" /\ Belongs(t, c)
  OBVIOUS
<1>5. r \in Seq(Call) /\ Len(r) = L /\ r[1] = c /\ \A i \in 2 .. L : r[i] = s[i]
  BY <1>0, <1>1, <1>2, <1>4, HeadReplaced
<1>6. s[1].call = "GetDirection" /\ \A i \in 1 .. L : i = 1 \/ i \in 2 .. L
  BY <1>2, Distinct
<1>7. Linked(r)
  <2>1. ASSUME NEW i \in 1 .. L - 1 PROVE Link(r[i], r[i + 1])
    <3>1. i \in 1 .. L /\ i + 1 \in 2 .. L /\ Link(s[i], s[i + 1])
      BY <1>2 DEF ListOf, Linked
    <3>2. Link(r[i], s[i + 1])
      BY <1>4, <1>5, <1>6, <3>1 DEF Link
    <3> QED BY <1>5, <3>1, <3>2
  <2>2. L \in 1 .. L /\ s[L].call # "PutBytes"
    BY <1>2 DEF ListOf, Linked
  <2>3. r[L].call # "PutBytes"
    BY <1>4, <1>5, <1>6, <2>2
  <2> QED BY <1>5, <2>1, <2>3 DEF Linked
<1>8. \A i \in 1 .. L : \A x : r[i] = Put(x) <=> s[i] = Put(x)
  <2>1. \A x : r[1] # Put(x) /\ s[1] # Put(x)
    BY <1>4, <1>5, <1>6, Distinct
  <2>2. \A i \in 2 .. L : r[i] = s[i]
    BY <1>5
  <2> QED BY <1>6, <2>1, <2>2, Zenon
<1>9. Crossed(r)
  BY <1>2, <1>5, <1>8 DEF ListOf, Crossed
<1>10. Braked(r)
  <2> SUFFICES ASSUME NEW i \in 1 .. L, NEW u \in Trains, r[i] = Put(TurnAround(u))
               PROVE  /\ i <= 4 /\ (i > 1 => r[i - 1].call \in {"Delay", "Sleeping"})
                      /\ (i > 2 => r[i - 2] = Tell(Speed(u, 0)))
    BY <1>5 DEF Braked
  <2>1. /\ i <= 4 /\ (i > 1 => s[i - 1].call \in {"Delay", "Sleeping"})
        /\ (i > 2 => s[i - 2] = Tell(Speed(u, 0)))
    BY <1>2, <1>8 DEF ListOf, Braked
  <2>2. i > 1 => i - 1 \in 2 .. L
    <3>1. i - 1 # 1 \/ i - 1 = 1
      OBVIOUS
    <3>2. i > 1 => i - 1 # 1
      BY <1>6, <2>1
    <3> QED BY <1>2, <3>2
  <2>3. i > 2 => i - 2 \in 2 .. L
    <3>1. i > 2 => i - 2 \in 1 .. L
      OBVIOUS
    <3> QED BY <1>6, <2>1, <3>1, Distinct
  <2> QED BY <1>5, <2>1, <2>2, <2>3
<1>11. \A i \in 1 .. L : Belongs(t, r[i])
  BY <1>2, <1>4, <1>5, <1>6 DEF ListOf
<1>12. t \notin Switchers
  BY TasksAssumption
<1>13. ListOf(t, r)
  BY <1>2, <1>4, <1>5, <1>7, <1>9, <1>10, <1>11, <1>12 DEF ListOf
<1>14. Len(r) = Len(s) /\ r[1] = c /\ \A i \in 2 .. Len(s) : r[i] = s[i]
  BY <1>2, <1>5
<1> QED BY <1>0, <1>13, <1>14

----------------------------------------------------------------------------
(* The lists of the resetters. *)

\* A list that waits for nothing before it starts and turns no train around.
Plain(k, s) ==
    /\ ListOf(k, s)
    /\ s # << >> => s[1].call = "PutBytes"
    /\ \A i \in 1 .. Len(s) : s[i].call = "PutBytes" => s[i].cmd.kind # "reverse"

Occurs(s, c) == \E i \in 1 .. Len(s) : s[i] = c

LEMMA PlainJoined ==
    ASSUME NEW k \in Resetters, NEW s, Plain(k, s), NEW r, Plain(k, r)
    PROVE  /\ Plain(k, s \o r)
           /\ \A c : Occurs(s, c) \/ Occurs(r, c) => Occurs(s \o r, c)
<1>1. s \in Seq(Call) /\ r \in Seq(Call)
  BY DEF Plain, ListOf
<1>2. PICK q : q = s \o r
  OBVIOUS
<1>3. /\ q \in Seq(Call) /\ Len(q) = Len(s) + Len(r)
      /\ \A i \in 1 .. Len(s) : q[i] = s[i]
      /\ \A i \in 1 .. Len(r) : q[Len(s) + i] = r[i]
  BY <1>1, <1>2
<1>4. PICK M \in Nat, N \in Nat : M = Len(s) /\ N = Len(r)
  BY <1>1
<1>5. /\ Len(q) = M + N /\ (\A i \in 1 .. M : q[i] = s[i]) /\ \A i \in 1 .. N : q[M + i] = r[i]
  BY <1>3, <1>4
<1>6. ASSUME NEW i \in 1 .. M + N
      PROVE  i \in 1 .. M \/ (i - M \in 1 .. N /\ M + (i - M) = i)
  BY <1>4
<1>7. \A i \in 1 .. M : i \in 1 .. M + N
  BY <1>4
<1>8. \A i \in 1 .. N : M + i \in 1 .. M + N
  BY <1>4
<1>9. \A c : Occurs(s, c) \/ Occurs(r, c) => Occurs(q, c)
  BY <1>4, <1>5, <1>7, <1>8 DEF Occurs
<1>10. /\ s # << >> <=> M > 0
       /\ r # << >> <=> N > 0
       /\ q # << >> <=> M + N > 0
  <2>1. \A x \in Seq(Call) : x = << >> <=> Len(x) = 0
    BY EmptySeq, Zenon
  <2> QED BY <1>1, <1>3, <1>4, <1>5, <2>1
<1>11. \A i \in 1 .. M + N : \/ i \in 1 .. M /\ q[i] = s[i]
                             \/ i - M \in 1 .. N /\ q[i] = r[i - M]
  <2> SUFFICES ASSUME NEW i \in 1 .. M + N, i \notin 1 .. M
               PROVE  i - M \in 1 .. N /\ q[i] = r[i - M]
    BY <1>5
  <2>1. i - M \in 1 .. N /\ M + (i - M) = i
    BY <1>6
  <2>2. q[M + (i - M)] = r[i - M]
    BY <1>5, <2>1
  <2> QED BY <2>1, <2>2
<1>12. \A i \in 1 .. M + N : /\ Belongs(k, q[i])
                             /\ q[i].call = "PutBytes" => q[i].cmd.kind # "reverse"
  BY <1>4, <1>11 DEF Plain, ListOf
<1>13. q # << >> => q[1].call = "PutBytes"
  <2>1. CASE M > 0
    <3>1. 1 \in 1 .. M
      BY <1>4, <2>1
    <3> QED BY <1>5, <1>10, <2>1, <3>1 DEF Plain
  <2>2. CASE M = 0 /\ N > 0
    <3>1. 1 \in 1 .. N /\ M + 1 = 1
      BY <1>4, <2>2
    <3>2. q[M + 1] = r[1]
      BY <1>5, <3>1
    <3> QED BY <1>10, <2>2, <3>1, <3>2 DEF Plain
  <2> QED BY <1>4, <1>10, <2>1, <2>2
<1>14. Linked(q)
  <2>1. ASSUME NEW i \in 1 .. (M + N) - 1 PROVE Link(q[i], q[i + 1])
    <3>1. CASE i < M
      <4>1. i \in 1 .. M - 1 /\ i \in 1 .. M /\ i + 1 \in 1 .. M
        BY <1>4, <3>1
      <4> QED BY <1>4, <1>5, <4>1 DEF Plain, ListOf, Linked
    <3>2. CASE i = M
      <4>1. M \in 1 .. M /\ 1 \in 1 .. N /\ M > 0 /\ N > 0
        BY <1>4, <3>2
      <4>2. q[i] = s[M] /\ q[i + 1] = r[1]
        BY <1>5, <3>2, <4>1
      <4>3. s[M].call # "PutBytes"
        BY <1>4, <1>10, <4>1 DEF Plain, ListOf, Linked
      <4>4. r[1].call = "PutBytes"
        BY <1>10, <4>1 DEF Plain
      <4> QED BY <4>2, <4>3, <4>4 DEF Link
    <3>3. CASE i > M
      <4>1. /\ i - M \in 1 .. N - 1 /\ i - M \in 1 .. N /\ (i - M) + 1 \in 1 .. N
            /\ M + (i - M) = i /\ M + ((i - M) + 1) = i + 1
        BY <1>4, <3>3
      <4>2. q[M + (i - M)] = r[i - M] /\ q[M + ((i - M) + 1)] = r[(i - M) + 1]
        BY <1>5, <4>1
      <4>3. Link(r[i - M], r[(i - M) + 1])
        BY <1>4, <4>1 DEF Plain, ListOf, Linked
      <4> QED BY <4>1, <4>2, <4>3
    <3> QED BY <1>4, <3>1, <3>2, <3>3
  <2>2. q # << >> => q[Len(q)].call # "PutBytes"
    <3>1. CASE N > 0
      <4>1. N \in 1 .. N /\ q[M + N] = r[N]
        BY <1>4, <1>5, <3>1
      <4> QED BY <1>4, <1>5, <1>10, <3>1, <4>1 DEF Plain, ListOf, Linked
    <3>2. CASE N = 0 /\ M > 0
      <4>1. M \in 1 .. M /\ q[M] = s[M] /\ M + N = M
        BY <1>4, <1>5, <3>2
      <4> QED BY <1>4, <1>5, <1>10, <3>2, <4>1 DEF Plain, ListOf, Linked
    <3> QED BY <1>4, <1>10, <3>1, <3>2
  <2> QED BY <1>5, <2>1, <2>2 DEF Linked
<1>15. Crossed(q)
  <2> SUFFICES ASSUME NEW i \in 1 .. M + N, NEW n \in DOMAIN Paired, q[i] = Put(Turn(n, "curved"))
               PROVE  \E j \in 1 .. M + N : j > i /\ q[j] = Put(Turn(Paired[n], "straight"))
    BY <1>5 DEF Crossed
  <2>1. CASE i \in 1 .. M /\ q[i] = s[i]
    <3>1. PICK j \in 1 .. M : j > i /\ s[j] = Put(Turn(Paired[n], "straight"))
      BY <1>4, <2>1 DEF Plain, ListOf, Crossed
    <3> QED BY <1>5, <1>7, <3>1
  <2>2. CASE i - M \in 1 .. N /\ q[i] = r[i - M]
    <3>1. PICK j \in 1 .. N : j > i - M /\ r[j] = Put(Turn(Paired[n], "straight"))
      BY <1>4, <2>2 DEF Plain, ListOf, Crossed
    <3>2. M + j \in 1 .. M + N /\ M + j > i /\ q[M + j] = r[j]
      BY <1>4, <1>5, <3>1
    <3> QED BY <3>1, <3>2
  <2> QED BY <1>11, <2>1, <2>2
<1>16. Braked(q)
  BY <1>5, <1>12, BrakedOther
<1>17. k \notin Switchers
  BY TasksAssumption
<1>18. Plain(k, q)
  BY <1>3, <1>5, <1>12, <1>13, <1>14, <1>15, <1>16, <1>17 DEF Plain, ListOf
<1> QED BY <1>2, <1>9, <1>18

LEMMA PlainPieces ==
    /\ \A k \in Resetters : Plain(k, << >>)
    /\ \A n \in Turnouts, curved \in BOOLEAN :
          /\ Plain("turnout_resetter", SwitchTurnout(n, curved))
          /\ Occurs(SwitchTurnout(n, curved), Put(Turn(n, Dir(curved))))
    /\ \A t \in Trains, v \in Speeds : Plain("speed_resetter", SetSpeed(t, v))
<1>1. \A k \in Resetters : Plain(k, << >>)
  BY EmptyIs DEF Plain
<1>2. ASSUME NEW n \in Turnouts, NEW curved \in BOOLEAN
      PROVE  /\ Plain("turnout_resetter", SwitchTurnout(n, curved))
             /\ Occurs(SwitchTurnout(n, curved), Put(Turn(n, Dir(curved))))
  <2>1. PICK s : s = SwitchTurnout(n, curved)
    OBVIOUS
  <2>2. ListOf("turnout_resetter", s)
    <3>1. "turnout_resetter" # "speed_resetter"
      OBVIOUS
    <3> QED BY <2>1, <3>1, SwitchTurnoutIs, Zenon
  <2>3. /\ s[1] = Put(Turn(n, Dir(curved))) /\ s[2] = Tell(Turn(n, Dir(curved)))
        /\ IF n \in DOMAIN Paired /\ curved
           THEN /\ Len(s) = 5 /\ s[3] = Put(Turn(Paired[n], "straight"))
                /\ s[4] = Tell(Turn(Paired[n], "straight")) /\ s[5] = Delay(15)
           ELSE Len(s) = 3 /\ s[3] = Delay(15)
    BY <2>1, SwitchTurnoutList
  <2>4. /\ \A i \in 1 .. 5 : i = 1 \/ i = 2 \/ i = 3 \/ i = 4 \/ i = 5
        /\ \A i \in 1 .. 3 : i = 1 \/ i = 2 \/ i = 3
        /\ 1 \in 1 .. 3 /\ 1 \in 1 .. 5
    OBVIOUS
  <2>5. s[1].call = "PutBytes" /\ s[1].cmd.kind = "turnout" /\ s[2].call = "Send"
    BY <2>3, Distinct
  <2>6. CASE n \in DOMAIN Paired /\ curved
    <3>1. s[3].call = "PutBytes" /\ s[3].cmd.kind = "turnout" /\ s[4].call = "Send"
          /\ s[5].call = "Delay"
      BY <2>3, <2>6, Distinct
    <3> QED BY <2>1, <2>2, <2>3, <2>4, <2>5, <2>6, <3>1 DEF Plain, Occurs
  <2>7. CASE ~ (n \in DOMAIN Paired /\ curved)
    <3>1. s[3].call = "Delay"
      BY <2>3, <2>7, Distinct
    <3> QED BY <2>1, <2>2, <2>3, <2>4, <2>5, <2>7, <3>1 DEF Plain, Occurs
  <2> QED BY <2>6, <2>7
<1>3. ASSUME NEW t \in Trains, NEW v \in Speeds
      PROVE  Plain("speed_resetter", SetSpeed(t, v))
  <2>1. PICK s : s = SetSpeed(t, v)
    OBVIOUS
  <2>2. ListOf("speed_resetter", s)
    BY <2>1, SetSpeedIs
  <2>3. Len(s) = 2 /\ s[1] = Put(Speed(t, v)) /\ s[2] = Tell(Speed(t, v))
    BY <2>1, SetSpeedList
  <2>4. s[1].call = "PutBytes" /\ s[1].cmd.kind = "speed" /\ s[2].call = "Send"
    BY <2>3, Distinct
  <2>5. \A i \in 1 .. 2 : i = 1 \/ i = 2
    OBVIOUS
  <2> QED BY <2>1, <2>2, <2>3, <2>4, <2>5 DEF Plain
<1> QED BY <1>1, <1>2, <1>3

\* Every turnout is set, each pair with a half to straight.
LEMMA TurnoutResetterIs ==
    /\ Plain("turnout_resetter", TurnoutResetter)
    /\ \A n \in Turnouts : Occurs(TurnoutResetter, Put(Turn(n, Dir(n \notin {154, 156}))))
<1> DEFINE B == {s \in Seq(Call) : Plain("turnout_resetter", s)}
           piece(n) == SwitchTurnout(n, n \notin {154, 156})
           step == [n \in 1 .. 156 |-> [s \in B |-> IF n \in Turnouts THEN s \o piece(n) ELSE s]]
           h == CHOOSE reset : reset =
                   [n \in 0 .. 156 |->
                       IF n = 0 THEN << >>
                       ELSE IF n \in Turnouts
                            THEN reset[n - 1] \o SwitchTurnout(n, n \notin {154, 156})
                            ELSE reset[n - 1]]
<1>0. "turnout_resetter" \in Resetters
  BY DEF Resetters
<1>1. << >> \in B
  BY <1>0, PlainPieces
<1>2. ASSUME NEW n \in Turnouts
      PROVE  /\ piece(n) \in B
             /\ Occurs(piece(n), Put(Turn(n, Dir(n \notin {154, 156}))))
  <2>1. (n \notin {154, 156}) \in BOOLEAN
    OBVIOUS
  <2>2. Plain("turnout_resetter", piece(n))
    BY <2>1, PlainPieces
  <2> QED BY <2>1, <2>2, PlainPieces DEF Plain, ListOf
<1>3. ASSUME NEW s \in B, NEW r \in B
      PROVE  s \o r \in B /\ \A c : Occurs(s, c) \/ Occurs(r, c) => Occurs(s \o r, c)
  <2>1. /\ Plain("turnout_resetter", s \o r)
        /\ \A c : Occurs(s, c) \/ Occurs(r, c) => Occurs(s \o r, c)
    BY <1>0, PlainJoined
  <2> QED BY <2>1 DEF Plain, ListOf
<1>4. step \in [1 .. 156 -> [B -> B]]
  <2> HIDE DEF B, piece
  <2> QED BY <1>2, <1>3
<1>5. PICK f : Numbers!Follows(f, 156, B, << >>, step)
  <2> HIDE DEF step, B
  <2> QED BY <1>1, <1>4, Numbers!Recursion, Zenon
<1>6. f \in [0 .. 156 -> B] /\ f[0] = << >> /\ \A n \in 1 .. 156 : f[n] = step[n][f[n - 1]]
  BY <1>5 DEF Numbers!Follows
<1>7. \A n \in 1 .. 156 : f[n] = IF n \in Turnouts THEN f[n - 1] \o piece(n) ELSE f[n - 1]
  <2> SUFFICES ASSUME NEW n \in 1 .. 156
               PROVE  f[n] = IF n \in Turnouts THEN f[n - 1] \o piece(n) ELSE f[n - 1]
    OBVIOUS
  <2>1. n - 1 \in 0 .. 156
    OBVIOUS
  <2> HIDE DEF B, piece
  <2>2. f[n - 1] \in B
    BY <1>6, <2>1
  <2> QED BY <1>6, <2>2
<1>8. f = [n \in 0 .. 156 |->
              IF n = 0 THEN << >>
              ELSE IF n \in Turnouts THEN f[n - 1] \o SwitchTurnout(n, n \notin {154, 156})
                   ELSE f[n - 1]]
  <2>1. \A n \in 0 .. 156 : n # 0 => n \in 1 .. 156
    OBVIOUS
  <2> HIDE DEF B
  <2> QED BY <1>6, <1>7, <2>1
<1>9. h = [n \in 0 .. 156 |->
              IF n = 0 THEN << >>
              ELSE IF n \in Turnouts THEN h[n - 1] \o SwitchTurnout(n, n \notin {154, 156})
                   ELSE h[n - 1]]
  BY <1>8
<1>10. TurnoutResetter = h[156]
  BY DEF TurnoutResetter
<1> HIDE DEF h
<1>11. h[0] = << >> /\ \A n \in 0 .. 155 :
          h[n + 1] = IF n + 1 \in Turnouts THEN h[n] \o piece(n + 1) ELSE h[n]
  <2>1. 0 \in 0 .. 156
    OBVIOUS
  <2>2. \A n \in 0 .. 155 : n + 1 \in 0 .. 156 /\ n + 1 # 0 /\ (n + 1) - 1 = n
    OBVIOUS
  <2>3. \A n \in 0 .. 156 :
           h[n] = IF n = 0 THEN << >>
                  ELSE IF n \in Turnouts THEN h[n - 1] \o piece(n) ELSE h[n - 1]
    BY <1>9
  <2> HIDE DEF piece
  <2>4. h[0] = << >>
    BY <2>1, <2>3
  <2>5. ASSUME NEW n \in 0 .. 155
        PROVE  h[n + 1] = IF n + 1 \in Turnouts THEN h[n] \o piece(n + 1) ELSE h[n]
    BY <2>2, <2>3
  <2> QED BY <2>4, <2>5
<1> DEFINE P == {n \in 0 .. 156 : /\ h[n] \in B
                                  /\ \A m \in Turnouts : m <= n =>
                                        Occurs(h[n], Put(Turn(m, Dir(m \notin {154, 156}))))}
<1>12. \A m \in Turnouts : m \in 1 .. 156
  BY CommandsAssumption
<1> HIDE DEF B, piece
<1>13. 0 \in P
  <2>1. 0 \in 0 .. 156 /\ \A m \in Turnouts : ~ (m <= 0)
    BY <1>12
  <2>2. h[0] \in B
    BY <1>1, <1>11
  <2> QED BY <2>1, <2>2
<1>14. ASSUME NEW n \in 0 .. 156 - 1, n \in P PROVE n + 1 \in P
  <2>1. n \in 0 .. 155 /\ n + 1 \in 0 .. 156
    OBVIOUS
  <2>2. /\ h[n] \in B
        /\ \A m \in Turnouts : m <= n => Occurs(h[n], Put(Turn(m, Dir(m \notin {154, 156}))))
    BY <1>14
  <2>3. CASE n + 1 \in Turnouts
    <3>1. h[n + 1] = h[n] \o piece(n + 1)
      BY <1>11, <2>1, <2>3
    <3>2. h[n + 1] \in B
      BY <1>2, <1>3, <2>2, <2>3, <3>1
    <3>3. ASSUME NEW m \in Turnouts, m <= n + 1
          PROVE  Occurs(h[n + 1], Put(Turn(m, Dir(m \notin {154, 156}))))
      <4>1. m <= n \/ m = n + 1
        BY <1>12, <3>3
      <4>2. \/ Occurs(h[n], Put(Turn(m, Dir(m \notin {154, 156}))))
            \/ Occurs(piece(n + 1), Put(Turn(m, Dir(m \notin {154, 156}))))
        BY <1>2, <2>2, <4>1
      <4>3. piece(n + 1) \in B
        BY <1>2, <2>3
      <4> QED BY <1>3, <2>2, <3>1, <4>2, <4>3
    <3> QED BY <2>1, <3>2, <3>3
  <2>4. CASE n + 1 \notin Turnouts
    <3>1. h[n + 1] = h[n]
      BY <1>11, <2>1, <2>4
    <3>2. \A m \in Turnouts : m <= n + 1 => m <= n
      BY <1>12, <2>4
    <3> QED BY <2>1, <2>2, <3>1, <3>2
  <2> QED BY <2>3, <2>4
<1>15. \A n \in 0 .. 156 : n \in P
  <2> HIDE DEF P
  <2>1. 156 \in Nat
    OBVIOUS
  <2> QED BY <1>13, <1>14, <2>1, Numbers!UpTo, Zenon
<1>16. 156 \in P
  BY <1>15
<1>17. \A m \in Turnouts : m <= 156
  BY <1>12
<1>18. \A m \in Turnouts : Occurs(h[156], Put(Turn(m, Dir(m \notin {154, 156}))))
  BY <1>16, <1>17
<1>19. h[156] \in B
  BY <1>16
<1>20. Plain("turnout_resetter", h[156])
  BY <1>19 DEF B
<1> QED BY <1>10, <1>18, <1>20

LEMMA SpeedResetterIs == Plain("speed_resetter", SpeedResetter)
<1> DEFINE B == {s \in Seq(Call) : Plain("speed_resetter", s)}
           active_trains == SetToSeq(Trains)
<1>0. "speed_resetter" \in Resetters /\ 0 \in Speeds
  BY CommandsAssumption DEF Resetters
<1>1. << >> \in B
  BY <1>0, PlainPieces
<1>2. ASSUME NEW t \in Trains PROVE SetSpeed(t, 0) \in B
  <2>1. Plain("speed_resetter", SetSpeed(t, 0))
    BY <1>0, PlainPieces
  <2> QED BY <2>1 DEF Plain, ListOf
<1>3. ASSUME NEW s \in B, NEW r \in B PROVE s \o r \in B
  <2>1. Plain("speed_resetter", s \o r)
    BY <1>0, PlainJoined
  <2> QED BY <2>1 DEF Plain, ListOf
<1>4. PICK C \in Nat : active_trains \in [1 .. C -> Trains]
  <2>1. Cardinality(Trains) \in Nat /\ ExistsBijection(1 .. Cardinality(Trains), Trains)
    BY TasksAssumption, FS_CardinalityType
  <2>2. PICK g \in [1 .. Cardinality(Trains) -> Trains] : IsInjective(g)
    BY <2>1 DEF ExistsBijection, Bijection, Injection
  <2>3. active_trains \in [1 .. Cardinality(Trains) -> Trains]
    BY <2>2 DEF SetToSeq
  <2> QED BY <2>1, <2>3
<1>5. active_trains \in Seq(Trains) /\ Len(active_trains) = C
  BY <1>4
<1> DEFINE step == [i \in 1 .. C |-> [s \in B |-> s \o SetSpeed(active_trains[i], 0)]]
           h == CHOOSE reset : reset =
                   [i \in 0 .. Len(active_trains) |->
                       IF i = 0 THEN << >>
                       ELSE reset[i - 1] \o SetSpeed(active_trains[i], 0)]
<1>6. SpeedResetter = h[Len(active_trains)]
  BY DEF SpeedResetter
<1> HIDE DEF B, active_trains
<1>7. step \in [1 .. C -> [B -> B]]
  BY <1>2, <1>3, <1>4
<1>8. PICK f : Numbers!Follows(f, C, B, << >>, step)
  <2> HIDE DEF step
  <2> QED BY <1>1, <1>7, Numbers!Recursion, Zenon
<1>9. f \in [0 .. C -> B] /\ f[0] = << >> /\ \A i \in 1 .. C : f[i] = step[i][f[i - 1]]
  BY <1>8 DEF Numbers!Follows
<1>10. \A i \in 1 .. C : f[i] = f[i - 1] \o SetSpeed(active_trains[i], 0)
  <2> SUFFICES ASSUME NEW i \in 1 .. C PROVE f[i] = f[i - 1] \o SetSpeed(active_trains[i], 0)
    OBVIOUS
  <2>1. i - 1 \in 0 .. C
    BY <1>4
  <2>2. f[i - 1] \in B
    BY <1>9, <2>1
  <2> QED BY <1>9, <2>2
<1>11. f = [i \in 0 .. Len(active_trains) |->
               IF i = 0 THEN << >> ELSE f[i - 1] \o SetSpeed(active_trains[i], 0)]
  <2>1. \A i \in 0 .. C : i # 0 => i \in 1 .. C
    BY <1>4
  <2> QED BY <1>5, <1>9, <1>10, <2>1
<1>12. h = [i \in 0 .. Len(active_trains) |->
               IF i = 0 THEN << >> ELSE h[i - 1] \o SetSpeed(active_trains[i], 0)]
  BY <1>11
<1> HIDE DEF h
<1>13. h[0] = << >> /\ \A i \in 0 .. C - 1 : h[i + 1] = h[i] \o SetSpeed(active_trains[i + 1], 0)
  <2>1. 0 \in 0 .. C
    BY <1>4
  <2>2. \A i \in 0 .. C - 1 : i + 1 \in 0 .. C /\ i + 1 # 0 /\ (i + 1) - 1 = i
    BY <1>4
  <2> QED BY <1>5, <1>12, <2>1, <2>2
<1> DEFINE P == {i \in 0 .. C : h[i] \in B}
<1>14. 0 \in P
  BY <1>1, <1>4, <1>13
<1>15. ASSUME NEW i \in 0 .. C - 1, i \in P PROVE i + 1 \in P
  <2>1. i + 1 \in 1 .. C /\ i + 1 \in 0 .. C
    BY <1>4
  <2>2. SetSpeed(active_trains[i + 1], 0) \in B
    BY <1>2, <1>4, <2>1
  <2> QED BY <1>3, <1>13, <1>15, <2>1, <2>2
<1>16. \A i \in 0 .. C : i \in P
  <2> HIDE DEF P
  <2> QED BY <1>4, <1>14, <1>15, Numbers!UpTo, Zenon
<1>17. h[C] \in B
  BY <1>4, <1>16
<1> QED BY <1>5, <1>6, <1>17 DEF B

----------------------------------------------------------------------------
(* Steps of the tasks. *)

\* The calls that a task has still to make, without those in which it waits.
ToDo(k) == {c \in Call : ~ Waits(c) /\ Occurs(calls[k], c)}

LEMMA ListFacts ==
    ASSUME ListsInv, NEW k \in Tasks
    PROVE  /\ calls[k] \in Seq(Call) /\ DOMAIN calls[k] = 1 .. Len(calls[k])
           /\ Idle(k) <=> Len(calls[k]) = 0
           /\ ~ Idle(k) => /\ Len(calls[k]) > 0 /\ NextCall(k) = calls[k][1]
                           /\ NextCall(k) \in Call
<1>1. calls[k] \in Seq(Call)
  BY DEF ListsInv, ListOf
<1>2. Idle(k) <=> Len(calls[k]) = 0
  BY <1>1, EmptySeq, Zenon DEF Idle
<1>3. DOMAIN calls[k] = 1 .. Len(calls[k])
  BY <1>1
<1>4. ~ Idle(k) => Len(calls[k]) > 0 /\ NextCall(k) = calls[k][1] /\ NextCall(k) \in Call
  BY <1>1, <1>2 DEF NextCall, Idle
<1> QED BY <1>1, <1>2, <1>3, <1>4

LEMMA NotWaiting ==
    /\ \A c, n : AtTurnout(c, n) \/ Sets(c, n) => ~ Waits(c)
    /\ \A c, t : AtTrain(c, t) => ~ Waits(c)
    /\ \A c : ~ Waits(Put(c)) /\ ~ Waits(Tell(c))
    /\ \A t : ~ Waits(AskDirection(t))
<1>1. \A c, n : AtTurnout(c, n) \/ Sets(c, n) => ~ Waits(c)
  BY DEF AtTurnout, Sets, Waits
<1>2. \A c, t : AtTrain(c, t) => ~ Waits(c)
  BY DEF AtTrain, Waits
<1>3. \A c : ~ Waits(Put(c)) /\ ~ Waits(Tell(c))
  BY DEF Put, Tell, Waits
<1>4. \A t : ~ Waits(AskDirection(t))
  BY DEF AskDirection, Waits
<1> QED BY <1>1, <1>2, <1>3, <1>4

LEMMA ToDoFacts ==
    ASSUME ListsInv, NEW k \in Tasks
    PROVE  /\ \A n : Touches(k, n) <=> \E c \in ToDo(k) : AtTurnout(c, n)
           /\ \A n : Holds(k, n) <=> \E c \in ToDo(k) : Sets(c, n)
           /\ \A t : Drives(k, t) <=> \E c \in ToDo(k) : AtTrain(c, t)
           /\ \A c \in Call : ~ Waits(c) =>
                 ((\E i \in DOMAIN calls[k] : calls[k][i] = c) <=> c \in ToDo(k))
           /\ \A c \in ToDo(k) : Belongs(k, c) /\ c \in Call
           /\ ~ Idle(k) /\ ~ Waits(NextCall(k)) => NextCall(k) \in ToDo(k)
           /\ Idle(k) => ToDo(k) = {}
<1>1. /\ calls[k] \in Seq(Call) /\ DOMAIN calls[k] = 1 .. Len(calls[k])
      /\ \A i \in 1 .. Len(calls[k]) : calls[k][i] \in Call /\ Belongs(k, calls[k][i])
  <2>1. calls[k] \in Seq(Call) /\ DOMAIN calls[k] = 1 .. Len(calls[k])
    BY ListFacts
  <2> QED BY <2>1 DEF ListsInv, ListOf
<1>2. \A n : Touches(k, n) <=> \E c \in ToDo(k) : AtTurnout(c, n)
  BY <1>1, NotWaiting DEF Touches, ToDo, Occurs
<1>3. \A n : Holds(k, n) <=> \E c \in ToDo(k) : Sets(c, n)
  BY <1>1, NotWaiting DEF Holds, ToDo, Occurs
<1>4. \A t : Drives(k, t) <=> \E c \in ToDo(k) : AtTrain(c, t)
  BY <1>1, NotWaiting DEF Drives, ToDo, Occurs
<1>5. \A c \in Call : ~ Waits(c) =>
         ((\E i \in DOMAIN calls[k] : calls[k][i] = c) <=> c \in ToDo(k))
  BY <1>1 DEF ToDo, Occurs
<1>6. \A c \in ToDo(k) : Belongs(k, c) /\ c \in Call
  BY <1>1 DEF ToDo, Occurs
<1>7. ~ Idle(k) /\ ~ Waits(NextCall(k)) => NextCall(k) \in ToDo(k)
  <2>1. ~ Idle(k) => 1 \in 1 .. Len(calls[k]) /\ NextCall(k) = calls[k][1]
    BY <1>1, ListFacts
  <2> QED BY <1>1, <2>1 DEF ToDo, Occurs
<1>8. Idle(k) => ToDo(k) = {}
  <2>1. Idle(k) => Len(calls[k]) = 0
    BY ListFacts
  <2> QED BY <1>1, <2>1 DEF ToDo, Occurs
<1> QED BY <1>2, <1>3, <1>4, <1>5, <1>6, <1>7, <1>8

LEMMA ToDoNext ==
    ASSUME NEW k \in Tasks
    PROVE  ListsInv' =>
              (/\ \A n : Touches(k, n) <=> \E c \in ToDo(k) : AtTurnout(c, n)
               /\ \A n : Holds(k, n) <=> \E c \in ToDo(k) : Sets(c, n)
               /\ \A t : Drives(k, t) <=> \E c \in ToDo(k) : AtTrain(c, t)
               /\ \A c \in Call : ~ Waits(c) =>
                     ((\E i \in DOMAIN calls[k] : calls[k][i] = c) <=> c \in ToDo(k))
               /\ \A c \in ToDo(k) : Belongs(k, c) /\ c \in Call
               /\ Idle(k) => ToDo(k) = {})'
<1>1. ListsInv =>
         (/\ \A n : Touches(k, n) <=> \E c \in ToDo(k) : AtTurnout(c, n)
          /\ \A n : Holds(k, n) <=> \E c \in ToDo(k) : Sets(c, n)
          /\ \A t : Drives(k, t) <=> \E c \in ToDo(k) : AtTrain(c, t)
          /\ \A c \in Call : ~ Waits(c) =>
                ((\E i \in DOMAIN calls[k] : calls[k][i] = c) <=> c \in ToDo(k))
          /\ \A c \in ToDo(k) : Belongs(k, c) /\ c \in Call
          /\ Idle(k) => ToDo(k) = {})
  BY ToDoFacts
<1> QED BY <1>1, PTL

\* Only this task goes on.
Others(k) == \A j \in Tasks \ {k} : calls'[j] = calls[j]

LEMMA OthersStay ==
    ASSUME NEW k, Others(k), NEW j \in Tasks, j # k
    PROVE  /\ calls'[j] = calls[j] /\ ToDo(j)' = ToDo(j)
           /\ Idle(j)' <=> Idle(j)
           /\ NextCall(j)' = NextCall(j)
           /\ \A c : Now(j, c)' <=> Now(j, c)
BY DEF Others, ToDo, Idle, NextCall, Now

\* A task that has a new list.
LEMMA Renewed ==
    ASSUME ListsInv, now \in Nat, NEW k \in Tasks, NEW list, ListOf(k, list), GoOn(k, list)
    PROVE  /\ ListsInv' /\ Others(k)
           /\ calls'[k] \in Seq(Call) /\ Replaced(list, calls'[k])
           /\ (list = << >> \/ list[1].call # "Delay") => calls'[k] = list
<1>1. DOMAIN calls' = Tasks /\ calls'[k] = Asleep(list) /\ Others(k)
  BY DEF ListsInv, GoOn, Others
<1>2. list \in Seq(Call)
  BY DEF ListOf
<1>3. calls'[k] \in Seq(Call) /\ Replaced(list, calls'[k])
  BY <1>1, <1>2, AsleepReplaces
<1>4. ListOf(k, calls'[k])
  BY <1>3, ListReplaced
<1>5. ListsInv'
  BY <1>1, <1>4 DEF ListsInv, Others
<1>6. (list = << >> \/ list[1].call # "Delay") => Asleep(list) = list
  <2>1. list # << >> => Head(list) = list[1]
    BY <1>2
  <2> QED BY <2>1 DEF Asleep
<1> QED BY <1>1, <1>3, <1>5, <1>6

\* A task that gets an order.
LEMMA Ordered ==
    ASSUME ListsInv, NEW k \in Tasks, NEW list, ListOf(k, list), Give(k, list)
    PROVE  ListsInv' /\ Others(k) /\ calls'[k] = list
<1>1. DOMAIN calls' = Tasks /\ calls'[k] = list /\ Others(k)
  BY DEF ListsInv, Give, Others
<1> QED BY <1>1 DEF ListsInv, Others

\* A task that has made its next call and goes on.
Advances(k) ==
    LET L == Len(calls[k])
    IN  /\ L \in Nat \ {0} /\ Len(calls'[k]) = L - 1
        /\ \A i \in 2 .. L - 1 : calls'[k][i] = calls[k][i + 1]
        /\ L > 1 => calls'[k][1] = IF calls[k][2].call = "Delay"
                                   THEN [call |-> "Sleeping", until |-> now + calls[k][2].ticks]
                                   ELSE calls[k][2]

LEMMA Advance ==
    ASSUME ListsInv, now \in Nat, NEW k \in Tasks, ~ Idle(k), GoOn(k, Tail(calls[k]))
    PROVE  ListsInv' /\ Others(k) /\ Advances(k)
<1>1. PICK s : s = calls[k]
  OBVIOUS
<1>2. ListOf(k, s) /\ s # << >> /\ s \in Seq(Call)
  BY <1>1, ListFacts DEF ListsInv, Idle
<1>3. PICK list : list = Tail(s)
  OBVIOUS
<1>4. ListOf(k, list)
  BY <1>2, <1>3, ListTail, Zenon
<1>5. PICK L \in Nat : L = Len(s) /\ L > 0
  BY <1>2
<1>6. list \in Seq(Call) /\ Len(list) = L - 1 /\ \A i \in 1 .. L - 1 : list[i] = s[i + 1]
  BY <1>2, <1>3, <1>5
<1>7. /\ ListsInv' /\ Others(k) /\ calls'[k] \in Seq(Call) /\ Replaced(list, calls'[k])
  BY <1>1, <1>3, <1>4, Renewed
<1>8. Len(calls'[k]) = L - 1 /\ \A i \in 2 .. L - 1 : calls'[k][i] = list[i]
  BY <1>6, <1>7 DEF Replaced
<1>9. \A i \in 2 .. L - 1 : calls'[k][i] = s[i + 1]
  BY <1>6, <1>8
<1>10. L > 1 => list # << >> /\ list[1] = s[2]
  BY <1>5, <1>6
<1>11. L > 1 => calls'[k][1] = IF s[2].call = "Delay"
                              THEN [call |-> "Sleeping", until |-> now + s[2].ticks]
                              ELSE s[2]
  BY <1>7, <1>10 DEF Replaced
<1> QED BY <1>1, <1>5, <1>7, <1>8, <1>9, <1>11 DEF Advances

\* What it has then to do, and what it does next.
LEMMA Advanced ==
    ASSUME ListsInv, NEW k \in Tasks, ~ Idle(k), Advances(k), ListsInv'
    PROVE  /\ ToDo(k)' \subseteq ToDo(k) /\ ToDo(k) \subseteq ToDo(k)' \cup {NextCall(k)}
           /\ \A c : NextCall(k).call = "PutBytes" /\ c = After(NextCall(k).cmd) => Now(k, c)'
           /\ \A c : Now(k, c)' => /\ c.call \notin {"GetSpeed", "Time", "Test"}
                                   /\ NextCall(k).call # "PutBytes" =>
                                         c.call \notin {"Send", "GetDirection"}
<1>1. PICK s, r : s = calls[k] /\ r = calls'[k]
  OBVIOUS
<1>2. PICK L \in Nat \ {0} : L = Len(s)
  BY <1>1 DEF Advances
<1>3. /\ s \in Seq(Call) /\ r \in Seq(Call) /\ Len(r) = L - 1
      /\ \A i \in 2 .. L - 1 : r[i] = s[i + 1]
      /\ L > 1 => r[1] = IF s[2].call = "Delay"
                         THEN [call |-> "Sleeping", until |-> now + s[2].ticks] ELSE s[2]
  BY <1>1, <1>2, ListFacts DEF Advances, ListsInv, ListOf
<1>4. /\ \A i \in 1 .. L - 1 : /\ Waits(r[i]) <=> Waits(s[i + 1])
                               /\ ~ Waits(r[i]) => r[i] = s[i + 1]
  <2> SUFFICES ASSUME NEW i \in 1 .. L - 1
               PROVE  (Waits(r[i]) <=> Waits(s[i + 1])) /\ (~ Waits(r[i]) => r[i] = s[i + 1])
    OBVIOUS
  <2>1. CASE i = 1
    <3>1. L > 1 /\ i + 1 = 2
      BY <1>2, <2>1
    <3> QED BY <1>3, <2>1, <3>1 DEF Waits
  <2>2. CASE i # 1
    <3>1. i \in 2 .. L - 1
      BY <1>2, <2>2
    <3> QED BY <1>3, <3>1
  <2> QED BY <2>1, <2>2
<1>5. NextCall(k) = s[1] /\ s # << >>
  BY <1>1, ListFacts DEF Idle
<1>6. ToDo(k)' \subseteq ToDo(k)
  <2> SUFFICES ASSUME NEW c \in Call, ~ Waits(c), NEW i \in 1 .. L - 1, r[i] = c
               PROVE  \E j \in 1 .. L : s[j] = c
    BY <1>1, <1>2, <1>3 DEF ToDo, Occurs
  <2>1. i + 1 \in 1 .. L /\ s[i + 1] = c
    BY <1>2, <1>4
  <2> QED BY <2>1
<1>7. ToDo(k) \subseteq ToDo(k)' \cup {NextCall(k)}
  <2> SUFFICES ASSUME NEW c \in Call, ~ Waits(c), NEW j \in 1 .. L, s[j] = c, c # s[1]
               PROVE  \E i \in 1 .. L - 1 : r[i] = c
    BY <1>1, <1>2, <1>3, <1>5 DEF ToDo, Occurs
  <2>1. j - 1 \in 1 .. L - 1 /\ (j - 1) + 1 = j
    BY <1>2
  <2>2. Waits(r[j - 1]) <=> Waits(s[(j - 1) + 1])
    BY <1>4, <2>1
  <2>3. ~ Waits(r[j - 1]) => r[j - 1] = s[(j - 1) + 1]
    BY <1>4, <2>1
  <2>4. r[j - 1] = c
    BY <2>1, <2>2, <2>3
  <2> QED BY <2>1, <2>4
<1>8. /\ \A c : Now(k, c)' => L > 1 /\ c = r[1]
      /\ L > 1 => Now(k, r[1])'
  <2>1. r = << >> <=> Len(r) = 0
    BY <1>3, EmptySeq, Zenon
  <2>2. r # << >> => Head(r) = r[1]
    BY <1>3
  <2> QED BY <1>1, <1>2, <1>3, <2>1, <2>2 DEF Now, Idle, NextCall
<1>9. L > 1 => Link(s[1], s[2])
  <2>1. L > 1 => 1 \in 1 .. L - 1 /\ 1 + 1 = 2
    BY <1>2
  <2> QED BY <1>1, <1>2, <2>1 DEF ListsInv, ListOf, Linked
<1>10. s[1].call = "PutBytes" => L > 1
  BY <1>1, <1>2, <1>5 DEF ListsInv, ListOf, Linked
<1>11. s[1].call = "PutBytes" => Now(k, After(s[1].cmd))'
  <2>1. \A cmd : After(cmd).call # "Delay"
    BY Distinct DEF After
  <2>2. s[1].call = "PutBytes" => r[1] = After(s[1].cmd)
    BY <1>3, <1>9, <1>10, <2>1 DEF Link
  <2> QED BY <1>8, <1>10, <2>2
<1>12. L > 1 => /\ r[1].call \notin {"GetSpeed", "Time", "Test"}
                /\ s[1].call # "PutBytes" => r[1].call \notin {"Send", "GetDirection"}
  BY <1>3, <1>9 DEF Link
<1>13. \A c : Now(k, c)' => /\ c.call \notin {"GetSpeed", "Time", "Test"}
                            /\ NextCall(k).call # "PutBytes" =>
                                  c.call \notin {"Send", "GetDirection"}
  BY <1>5, <1>8, <1>12
<1>14. \A c : NextCall(k).call = "PutBytes" /\ c = After(NextCall(k).cmd) => Now(k, c)'
  BY <1>5, <1>11
<1> QED BY <1>6, <1>7, <1>13, <1>14

\* Who drives a train.
LEMMA Driver ==
    ASSUME ListsInv, NEW k \in Tasks, NEW t \in Trains, NEW c \in ToDo(k), AtTrain(c, t)
    PROVE  \/ k = t
           \/ k = "speed_resetter" /\ c.call \in {"PutBytes", "Send"} /\ c.cmd.kind = "speed"
BY ToDoFacts DEF Belongs

LEMMA OneDriver ==
    ASSUME ListsInv, StartInv, NEW t \in Trains, NEW j \in Tasks, NEW k \in Tasks,
           NEW c \in ToDo(j), AtTrain(c, t), NEW e \in ToDo(k), AtTrain(e, t)
    PROVE  j = k
<1>1. j \in {t, "speed_resetter"} /\ k \in {t, "speed_resetter"}
  BY Driver
<1>2. ~ Idle(j) /\ ~ Idle(k)
  BY ToDoFacts
<1>3. "speed_resetter" \in Resetters
  BY DEF Resetters
<1> QED BY <1>1, <1>2, <1>3 DEF StartInv

\* The calls of the lists.
LEMMA TurnoutCalls ==
    ASSUME NEW n \in Turnouts, NEW curved \in BOOLEAN, NEW c, ~ Waits(c),
           Occurs(SwitchTurnout(n, curved), c)
    PROVE  \E m \in Halves(n), d \in {"straight", "curved"} :
              c = Put(Turn(m, d)) \/ c = Tell(Turn(m, d))
<1>1. PICK s : s = SwitchTurnout(n, curved)
  OBVIOUS
<1>2. PICK i \in 1 .. Len(s) : s[i] = c
  BY <1>1 DEF Occurs
<1>3. PICK d \in {"straight", "curved"} : d = Dir(curved)
  BY DEF Dir
<1>4. s[1] = Put(Turn(n, d)) /\ s[2] = Tell(Turn(n, d))
  BY <1>1, <1>3, SwitchTurnoutList
<1>5. n \in Halves(n) /\ (n \in DOMAIN Paired => Paired[n] \in Halves(n))
  BY DEF Halves
<1>6. Waits(Delay(15))
  BY Distinct DEF Waits
<1>7. CASE n \in DOMAIN Paired /\ curved
  <2>1. /\ Len(s) = 5 /\ s[3] = Put(Turn(Paired[n], "straight"))
        /\ s[4] = Tell(Turn(Paired[n], "straight")) /\ s[5] = Delay(15)
    BY <1>1, <1>7, SwitchTurnoutList
  <2>2. i = 1 \/ i = 2 \/ i = 3 \/ i = 4 \/ i = 5
    BY <2>1
  <2> QED BY <1>2, <1>4, <1>5, <1>6, <1>7, <2>1, <2>2
<1>8. CASE ~ (n \in DOMAIN Paired /\ curved)
  <2>1. Len(s) = 3 /\ s[3] = Delay(15)
    BY <1>1, <1>8, SwitchTurnoutList
  <2>2. i = 1 \/ i = 2 \/ i = 3
    BY <2>1
  <2> QED BY <1>2, <1>4, <1>5, <1>6, <2>1, <2>2
<1> QED BY <1>7, <1>8

LEMMA TurnoutsOf ==
    ASSUME NEW n \in Turnouts, NEW m \in Halves(n), NEW d \in {"straight", "curved"},
           NEW c \in {Put(Turn(m, d)), Tell(Turn(m, d))}
    PROVE  /\ \A x : AtTurnout(c, x) <=> x = m
           /\ \A x : Sets(c, x) <=> x = m
           /\ \A t : ~ AtTrain(c, t)
BY DEF Put, Tell, Turn, AtTurnout, Sets, AtTrain

\* The calls that drive a train are at no turnout.
LEMMA NoTurnouts ==
    ASSUME NEW t, NEW v
    PROVE  /\ \A n : ~ AtTurnout(Put(Speed(t, v)), n) /\ ~ AtTurnout(Tell(Speed(t, v)), n)
           /\ \A n : ~ AtTurnout(Put(TurnAround(t)), n) /\ ~ AtTurnout(AskDirection(t), n)
           /\ \A n : ~ AtTurnout(Tell(Direction(t, v)), n)
           /\ \A n : ~ AtTurnout([call |-> "GetSpeed", train |-> t, to |-> v], n)
BY DEF Put, Tell, Speed, TurnAround, AskDirection, Direction, AtTurnout

LEMMA SpeedCalls ==
    ASSUME NEW t \in Trains, NEW v \in Speeds, NEW c, Occurs(SetSpeed(t, v), c)
    PROVE  \A n : ~ AtTurnout(c, n)
<1>1. PICK s : s = SetSpeed(t, v)
  OBVIOUS
<1>2. PICK i \in 1 .. Len(s) : s[i] = c
  BY <1>1 DEF Occurs
<1>3. Len(s) = 2 /\ s[1] = Put(Speed(t, v)) /\ s[2] = Tell(Speed(t, v))
  BY <1>1, SetSpeedList
<1>4. i = 1 \/ i = 2
  BY <1>3
<1> QED BY <1>2, <1>3, <1>4, NoTurnouts

LEMMA HelperCalls ==
    ASSUME NEW t \in Trains, NEW p \in Speeds, NEW v \in Speeds, NEW c, ~ Waits(c),
           Occurs(StopAndReverseHelper(t, p, v), c)
    PROVE  \A n : ~ AtTurnout(c, n)
<1>1. PICK s : s = StopAndReverseHelper(t, p, v)
  OBVIOUS
<1>2. PICK i \in 1 .. Len(s) : s[i] = c
  BY <1>1 DEF Occurs
<1>3. /\ Len(s) = 8
      /\ s[1] = Put(Speed(t, 0)) /\ s[2] = Tell(Speed(t, 0)) /\ s[3] = Delay(p * BrakeTicks)
      /\ s[4] = Put(TurnAround(t)) /\ s[5] = AskDirection(t) /\ s[6] = Delay(8)
      /\ s[7] = Put(Speed(t, v)) /\ s[8] = Tell(Speed(t, v))
  BY <1>1, HelperList
<1>4. i = 1 \/ i = 2 \/ i = 3 \/ i = 4 \/ i = 5 \/ i = 6 \/ i = 7 \/ i = 8
  BY <1>3
<1>5. \A d : Waits(Delay(d))
  BY Distinct DEF Waits
<1>6. /\ \A n : ~ AtTurnout(s[1], n) /\ ~ AtTurnout(s[2], n) /\ ~ AtTurnout(s[4], n)
      /\ \A n : ~ AtTurnout(s[5], n) /\ ~ AtTurnout(s[7], n) /\ ~ AtTurnout(s[8], n)
  BY <1>3, NoTurnouts
<1> QED BY <1>2, <1>3, <1>4, <1>5, <1>6

\* A task has a new list, at the turnouts T, and is not in the middle of a command.
Fresh(k, T) ==
    /\ \A c \in ToDo(k) : c.call \in {"GetSpeed", "Time", "Test"}
    /\ \A c : Now(k, c) => c.call \in {"GetSpeed", "Time", "Test"}
    /\ \A c : Now(k, c)' => /\ c.call \notin {"Send", "GetDirection"}
                            /\ c.call = "Test" => c.at = now
    /\ \A c \in ToDo(k)', n \in Turnouts : AtTurnout(c, n) => n \in T

\* The list of a task that is idle, or is not in the middle of a command.
LEMMA Unstarted ==
    ASSUME ListsInv, NEW k \in Tasks,
           ~ Idle(k) => NextCall(k).call \in {"GetSpeed", "Time", "Test"}
    PROVE  /\ \A c \in ToDo(k) : c = NextCall(k) /\ ~ Idle(k)
           /\ \A c \in ToDo(k) : c.call \in {"GetSpeed", "Time", "Test"}
           /\ \A c : Now(k, c) => c.call \in {"GetSpeed", "Time", "Test"}
           /\ ~ Idle(k) => Tail(calls[k]) = << >>
<1>1. \A c : Now(k, c) => c.call \in {"GetSpeed", "Time", "Test"}
  BY DEF Now
<1>2. CASE Idle(k)
  BY <1>1, <1>2, ToDoFacts
<1>3. CASE ~ Idle(k)
  <2>1. PICK s : s = calls[k]
    OBVIOUS
  <2>2. s \in Seq(Call) /\ s # << >> /\ NextCall(k) = s[1]
    BY <1>3, <2>1, ListFacts DEF Idle
  <2>3. Len(s) = 1
    BY <1>3, <2>1, <2>2 DEF ListsInv, ListOf
  <2>4. \A c \in ToDo(k) : c = s[1]
    BY <2>1, <2>3 DEF ToDo, Occurs
  <2>5. Tail(s) = << >>
    <3>1. PICK r : r = Tail(s)
      OBVIOUS
    <3>2. r \in Seq(Call) /\ Len(r) = 0
      BY <2>2, <2>3, <3>1
    <3> QED BY <3>1, <3>2, EmptySeq, Zenon
  <2> QED BY <1>1, <1>3, <2>1, <2>2, <2>4, <2>5
<1> QED BY <1>2, <1>3

\* The list that a task has got.
LEMMA NewList ==
    ASSUME NEW k, NEW s \in Seq(Call), calls'[k] = s
    PROVE  /\ \A c : c \in ToDo(k)' <=> c \in Call /\ ~ Waits(c) /\ Occurs(s, c)
           /\ \A c : Now(k, c)' => s # << >> /\ c = s[1]
           /\ s = << >> => ToDo(k)' = {}
<1>1. \A c : c \in ToDo(k)' <=> c \in Call /\ ~ Waits(c) /\ Occurs(s, c)
  BY DEF ToDo, Occurs
<1>2. \A c : Now(k, c)' => s # << >> /\ c = s[1]
  <2>1. s # << >> => Head(s) = s[1]
    OBVIOUS
  <2> QED BY <2>1 DEF Now, Idle, NextCall
<1>3. s = << >> => \A c : ~ Occurs(s, c)
  BY DEF Occurs
<1> QED BY <1>1, <1>2, <1>3

----------------------------------------------------------------------------
(* What each action does to the lists. *)

LEMMA TailSteps ==
    ASSUME TypeInv, ListsInv, NEW k \in Tasks,
           PutBytes(k) \/ TellTurnout(k) \/ TellDirection(k) \/ TellSpeed(k) \/ WakeUp(k)
    PROVE  /\ ListsInv' /\ Others(k) /\ Advances(k) /\ ~ Idle(k)
<1>1. ~ Idle(k) /\ GoOn(k, Tail(calls[k]))
  BY DEF PutBytes, TellTurnout, TellDirection, TellSpeed, WakeUp, Calls
<1>2. now \in Nat
  BY DEF TypeInv
<1> QED BY <1>1, <1>2, Advance

LEMMA OrderSwitcherStep ==
    ASSUME ListsInv, NEW k \in Switchers, NEW n \in Turnouts, NEW curved \in BOOLEAN,
           OrderSwitcher(k, n, curved)
    PROVE  /\ ListsInv' /\ Others(k) /\ Fresh(k, Halves(n)) /\ Idle(k)
           /\ \A m : ~ Holds(k, m)'
<1>1. k \in Tasks /\ Give(k, Switcher(n, curved)) /\ ListOf(k, Switcher(n, curved))
  BY SwitcherIs DEF OrderSwitcher, Tasks
<1>2. ListsInv' /\ Others(k) /\ calls'[k] = Switcher(n, curved) /\ Idle(k)
  BY <1>1, Ordered DEF Give
<1>3. PICK c : c = [call |-> "Time", num |-> n, curved |-> curved]
  OBVIOUS
<1>4. c \in Call /\ c.call = "Time" /\ c.num = n
  BY <1>3, CallsMade
<1>5. PICK s : s = Switcher(n, curved)
  OBVIOUS
<1>6. s \in Seq(Call) /\ Len(s) = 1 /\ s[1] = c
  BY <1>3, <1>4, <1>5 DEF Switcher
<1>7. calls'[k] = s
  BY <1>2, <1>5
<1>8. \A e \in ToDo(k)' : e = c
  <2>1. \A e : Occurs(s, e) => e = c
    BY <1>6 DEF Occurs
  <2> QED BY <1>6, <1>7, <2>1, NewList
<1>9. \A e : Now(k, e)' => e = c
  BY <1>6, <1>7, NewList
<1>10. \A m \in Turnouts : AtTurnout(c, m) => m \in Halves(n)
  BY <1>4, AtTurnoutKinds
<1>11. Fresh(k, Halves(n))
  BY <1>1, <1>2, <1>4, <1>8, <1>9, <1>10, Unstarted DEF Fresh
<1>12. \A m : ~ Holds(k, m)'
  <2>1. \A m : Holds(k, m)' <=> \E e \in ToDo(k)' : Sets(e, m)
    BY <1>1, <1>2, ToDoNext
  <2> QED BY <1>4, <1>8, <2>1 DEF Sets
<1> QED BY <1>2, <1>11, <1>12

LEMMA OrderTurnoutStep ==
    ASSUME ListsInv, NEW t \in Trains, NEW n \in Turnouts, NEW curved \in BOOLEAN,
           OrderTurnout(t, n, curved)
    PROVE  /\ ListsInv' /\ Others(t) /\ Fresh(t, Halves(n)) /\ Idle(t)
           /\ calls'[t] = SwitchTurnout(n, curved)
<1>1. t \in Tasks /\ t # "speed_resetter"
  BY TasksAssumption DEF Tasks, Resetters
<1>2. Give(t, SwitchTurnout(n, curved)) /\ ListOf(t, SwitchTurnout(n, curved))
  BY <1>1, SwitchTurnoutIs DEF OrderTurnout
<1>3. ListsInv' /\ Others(t) /\ calls'[t] = SwitchTurnout(n, curved) /\ Idle(t)
  BY <1>1, <1>2, Ordered DEF Give
<1>4. Fresh(t, Halves(n))
  <2>1. PICK s : s = SwitchTurnout(n, curved)
    OBVIOUS
  <2>2. s \in Seq(Call) /\ s[1] = Put(Turn(n, Dir(curved)))
    BY <2>1, SwitchTurnoutList
  <2>3. s[1].call = "PutBytes" /\ calls'[t] = s
    BY <1>3, <2>1, <2>2, Distinct
  <2>4. \A c : Now(t, c)' => c.call = "PutBytes"
    BY <2>2, <2>3, NewList
  <2>5. \A c \in ToDo(t)', m \in Turnouts : AtTurnout(c, m) => m \in Halves(n)
    <3> SUFFICES ASSUME NEW c \in ToDo(t)', NEW m \in Turnouts, AtTurnout(c, m)
                 PROVE  m \in Halves(n)
      OBVIOUS
    <3>1. ~ Waits(c) /\ Occurs(s, c)
      BY <2>2, <2>3, NewList
    <3>2. PICK x \in Halves(n), d \in {"straight", "curved"} :
             c = Put(Turn(x, d)) \/ c = Tell(Turn(x, d))
      BY <2>1, <3>1, TurnoutCalls
    <3> QED BY <3>2, TurnoutsOf
  <2> QED BY <1>1, <1>3, <2>4, <2>5, Unstarted DEF Fresh
<1> QED BY <1>3, <1>4

LEMMA OrderSpeedStep ==
    ASSUME ListsInv, NEW t \in Trains, NEW v \in Speeds, OrderSpeed(t, v)
    PROVE  /\ ListsInv' /\ Others(t) /\ Fresh(t, {}) /\ Idle(t) /\ calls'[t] = SetSpeed(t, v)
<1>1. t \in Tasks
  BY DEF Tasks
<1>2. Give(t, SetSpeed(t, v)) /\ ListOf(t, SetSpeed(t, v))
  BY <1>1, SetSpeedIs DEF OrderSpeed
<1>3. ListsInv' /\ Others(t) /\ calls'[t] = SetSpeed(t, v) /\ Idle(t)
  BY <1>1, <1>2, Ordered DEF Give
<1>4. Fresh(t, {})
  <2>1. PICK s : s = SetSpeed(t, v)
    OBVIOUS
  <2>2. s \in Seq(Call) /\ s[1] = Put(Speed(t, v))
    BY <2>1, SetSpeedList
  <2>3. s[1].call = "PutBytes" /\ calls'[t] = s
    BY <1>3, <2>1, <2>2, Distinct
  <2>4. \A c : Now(t, c)' => c.call = "PutBytes"
    BY <2>2, <2>3, NewList
  <2>5. \A c \in ToDo(t)', m \in Turnouts : ~ AtTurnout(c, m)
    BY <2>1, <2>2, <2>3, NewList, SpeedCalls
  <2> QED BY <1>1, <1>3, <2>4, <2>5, Unstarted DEF Fresh
<1> QED BY <1>3, <1>4

LEMMA OrderReverseStep ==
    ASSUME ListsInv, NEW t \in Trains, NEW v \in Speeds \cup {OwnSpeed}, OrderReverse(t, v)
    PROVE  /\ ListsInv' /\ Others(t) /\ Fresh(t, {}) /\ Idle(t)
           /\ calls'[t] = StopAndReverse(t, v)
<1>1. t \in Tasks
  BY DEF Tasks
<1>2. Give(t, StopAndReverse(t, v)) /\ ListOf(t, StopAndReverse(t, v))
  BY <1>1, StopAndReverseIs DEF OrderReverse
<1>3. ListsInv' /\ Others(t) /\ calls'[t] = StopAndReverse(t, v) /\ Idle(t)
  BY <1>1, <1>2, Ordered DEF Give
<1>4. Fresh(t, {})
  <2>1. PICK s : s = StopAndReverse(t, v)
    OBVIOUS
  <2>2. PICK c : c = [call |-> "GetSpeed", train |-> t, to |-> v]
    OBVIOUS
  <2>3. c \in Call /\ c.call = "GetSpeed" /\ \A n : ~ AtTurnout(c, n)
    BY <2>2, CallsMade, NoTurnouts
  <2>4. s \in Seq(Call) /\ Len(s) = 1 /\ s[1] = c
    BY <2>1, <2>2, <2>3 DEF StopAndReverse
  <2>5. calls'[t] = s
    BY <1>3, <2>1
  <2>6. \A e : Now(t, e)' => e.call = "GetSpeed"
    BY <2>3, <2>4, <2>5, NewList
  <2>7. \A e \in ToDo(t)', m \in Turnouts : ~ AtTurnout(e, m)
    <3>1. \A e : Occurs(s, e) => e = c
      BY <2>4 DEF Occurs
    <3> QED BY <2>3, <2>4, <2>5, <3>1, NewList
  <2> QED BY <1>1, <1>3, <2>6, <2>7, Unstarted DEF Fresh
<1> QED BY <1>3, <1>4

LEMMA GetSpeedStep ==
    ASSUME TypeInv, ListsInv, NEW k \in Tasks, GetSpeed(k)
    PROVE  /\ ListsInv' /\ Others(k) /\ Fresh(k, {}) /\ ~ Idle(k) /\ k \in Trains
           /\ NextCall(k).call = "GetSpeed"
           /\ \E to \in Speeds : calls'[k] = StopAndReverseHelper(k, record.trains[k].speed, to)
<1>1. ~ Idle(k) /\ NextCall(k).call = "GetSpeed" /\ NextCall(k) \in Call
  BY ListFacts DEF GetSpeed, Calls
<1>2. PICK t \in Trains : t = NextCall(k).train
  BY <1>1, CallKinds
<1>3. NextCall(k).to \in Speeds \cup {OwnSpeed}
  BY <1>1, CallKinds
<1>4. NextCall(k) \in ToDo(k)
  BY <1>1, ToDoFacts DEF Waits
<1>5. AtTrain(NextCall(k), t)
  BY <1>1, <1>2 DEF AtTrain
<1>6. k = t
  BY <1>1, <1>4, <1>5, Driver
<1>7. record.trains[k].speed \in Speeds
  BY <1>6 DEF TypeInv, TrainRecord
<1>8. PICK to : to = IF NextCall(k).to = OwnSpeed THEN record.trains[k].speed ELSE NextCall(k).to
  OBVIOUS
<1>9. to \in Speeds
  BY <1>3, <1>7, <1>8
<1>10. PICK s : s = StopAndReverseHelper(k, record.trains[k].speed, to)
  OBVIOUS
<1>11. s \in Seq(Call) /\ Len(s) = 8 /\ s[1] = Put(Speed(k, 0))
  BY <1>6, <1>7, <1>9, <1>10, HelperList
<1>12. ListOf(k, s)
  BY <1>6, <1>7, <1>9, <1>10, HelperIs
<1>13. GoOn(k, s)
  <2>1. Tail(calls[k]) = << >>
    BY <1>1, Unstarted
  <2>2. s \o << >> = s
    BY <1>11, ConcatEmptySeq
  <2>3. GoOn(k, s \o Tail(calls[k]))
    BY <1>2, <1>6, <1>8, <1>10 DEF GetSpeed
  <2> QED BY <2>1, <2>2, <2>3
<1>14. s[1].call = "PutBytes"
  BY <1>11, Distinct
<1>15. ListsInv' /\ Others(k) /\ calls'[k] = s
  BY <1>12, <1>13, <1>14, Renewed DEF TypeInv
<1>16. \A c : Now(k, c)' => c.call = "PutBytes"
  BY <1>11, <1>14, <1>15, NewList
<1>17. \A c \in ToDo(k)', m \in Turnouts : ~ AtTurnout(c, m)
  BY <1>6, <1>7, <1>9, <1>10, <1>11, <1>15, NewList, HelperCalls
<1>18. Fresh(k, {})
  BY <1>1, <1>16, <1>17, Unstarted DEF Fresh
<1> QED BY <1>1, <1>6, <1>9, <1>10, <1>15, <1>18

LEMMA ReadClockStep ==
    ASSUME TypeInv, ListsInv, NEW k \in Tasks, ReadClock(k)
    PROVE  /\ ListsInv' /\ Others(k) /\ ~ Idle(k) /\ k \in Switchers
           /\ NextCall(k).call = "Time" /\ NextCall(k).num \in Turnouts
           /\ Fresh(k, Halves(NextCall(k).num))
           /\ \A m : ~ Holds(k, m)'
<1>1. ~ Idle(k) /\ NextCall(k).call = "Time" /\ NextCall(k) \in Call
  BY ListFacts DEF ReadClock, Calls
<1>2. PICK n \in Turnouts, curved \in BOOLEAN : n = NextCall(k).num /\ curved = NextCall(k).curved
  BY <1>1, CallKinds
<1>3. NextCall(k) \in ToDo(k)
  BY <1>1, ToDoFacts DEF Waits
<1>4. k \in Switchers
  BY <1>1, <1>3, ToDoFacts DEF Belongs
<1>5. PICK c : c = [call |-> "Test", num |-> n, curved |-> curved, at |-> now]
  OBVIOUS
<1>6. now \in Nat /\ c \in Call /\ c.call = "Test" /\ c.num = n /\ c.at = now
  BY <1>5, CallsMade DEF TypeInv
<1>7. PICK s : s = <<c>>
  OBVIOUS
<1>8. s \in Seq(Call) /\ Len(s) = 1 /\ s[1] = c
  BY <1>6, <1>7
<1>9. ListOf(k, s)
  BY <1>4, <1>5, <1>6, <1>7, SwitcherIs
<1>10. GoOn(k, s)
  BY <1>2, <1>5, <1>7 DEF ReadClock
<1>11. ListsInv' /\ Others(k) /\ calls'[k] = s
  BY <1>6, <1>8, <1>9, <1>10, Renewed
<1>12. \A e \in ToDo(k)' : e = c
  <2>1. \A e : Occurs(s, e) => e = c
    BY <1>8 DEF Occurs
  <2> QED BY <1>8, <1>11, <2>1, NewList
<1>13. \A e : Now(k, e)' => e = c
  BY <1>8, <1>11, NewList
<1>14. \A m \in Turnouts : AtTurnout(c, m) => m \in Halves(n)
  BY <1>6, AtTurnoutKinds
<1>15. Fresh(k, Halves(n))
  BY <1>1, <1>6, <1>12, <1>13, <1>14, Unstarted DEF Fresh
<1>16. \A m : ~ Holds(k, m)'
  <2>1. \A m : Holds(k, m)' <=> \E e \in ToDo(k)' : Sets(e, m)
    BY <1>11, ToDoNext
  <2> QED BY <1>6, <1>12, <2>1 DEF Sets
<1> QED BY <1>1, <1>2, <1>4, <1>11, <1>15, <1>16

Due(k) == NextCall(k).at >= lastSwitch[NextCall(k).num] + DELAY_BETWEEN_SW

LEMMA TestStep ==
    ASSUME TypeInv, ListsInv, NEW k \in Tasks, SwitchUnlessRecent(k)
    PROVE  /\ ListsInv' /\ Others(k) /\ ~ Idle(k) /\ k \in Switchers
           /\ NextCall(k).call = "Test" /\ NextCall(k).num \in Turnouts
           /\ NextCall(k).at \in Nat
           /\ Fresh(k, Halves(NextCall(k).num))
           /\ ~ Due(k) => ToDo(k)' = {}
<1>1. ~ Idle(k) /\ NextCall(k).call = "Test" /\ NextCall(k) \in Call
  BY ListFacts DEF SwitchUnlessRecent, Calls
<1>2. PICK n \in Turnouts, curved \in BOOLEAN : n = NextCall(k).num /\ curved = NextCall(k).curved
  BY <1>1, CallKinds
<1>3. NextCall(k) \in ToDo(k)
  BY <1>1, ToDoFacts DEF Waits
<1>4. k \in Switchers /\ k # "speed_resetter"
  BY <1>1, <1>3, ToDoFacts, TasksAssumption DEF Belongs, Resetters
<1>5. PICK s : s = IF Due(k) THEN SwitchTurnout(n, curved) ELSE << >>
  OBVIOUS
<1>6. ListOf(k, s) /\ s \in Seq(Call)
  <2>1. ListOf(k, SwitchTurnout(n, curved)) /\ ListOf(k, << >>)
    BY <1>4, SwitchTurnoutIs, EmptyIs
  <2> QED BY <1>5, <2>1 DEF ListOf
<1>7. GoOn(k, s)
  BY <1>2, <1>5 DEF SwitchUnlessRecent, Due
<1>8. s # << >> => s[1].call = "PutBytes"
  <2>1. SwitchTurnout(n, curved)[1].call = "PutBytes"
    BY SwitchTurnoutList, Distinct
  <2> QED BY <1>5, <2>1
<1>9. ListsInv' /\ Others(k) /\ calls'[k] = s
  <2>1. now \in Nat /\ (s = << >> \/ s[1].call # "Delay")
    BY <1>8 DEF TypeInv
  <2> QED BY <1>6, <1>7, <2>1, Renewed
<1>10. \A c : Now(k, c)' => c.call = "PutBytes"
  BY <1>6, <1>8, <1>9, NewList
<1>11. \A c \in ToDo(k)', m \in Turnouts : AtTurnout(c, m) => m \in Halves(n)
  <2> SUFFICES ASSUME NEW c \in ToDo(k)', NEW m \in Turnouts, AtTurnout(c, m)
               PROVE  m \in Halves(n)
    OBVIOUS
  <2>1. ~ Waits(c) /\ Occurs(s, c)
    BY <1>6, <1>9, NewList
  <2>2. Due(k)
    BY <1>5, <2>1 DEF Occurs
  <2>3. PICK x \in Halves(n), d \in {"straight", "curved"} :
           c = Put(Turn(x, d)) \/ c = Tell(Turn(x, d))
    BY <1>5, <2>1, <2>2, TurnoutCalls
  <2> QED BY <2>3, TurnoutsOf
<1>12. Fresh(k, Halves(n))
  BY <1>1, <1>10, <1>11, Unstarted DEF Fresh
<1>13. ~ Due(k) => ToDo(k)' = {}
  BY <1>5, <1>6, <1>9, NewList
<1>14. NextCall(k).at \in Nat
  BY <1>1, CallKinds
<1> QED BY <1>1, <1>2, <1>4, <1>9, <1>12, <1>13, <1>14

LEMMA GetDirectionStep ==
    ASSUME TypeInv, ListsInv, NEW k \in Tasks, GetDirection(k)
    PROVE  /\ ListsInv' /\ Others(k) /\ ~ Idle(k) /\ k \in Trains
           /\ NextCall(k) = AskDirection(k) /\ record.trains[k].dir \in BOOLEAN
           /\ \A c : Now(k, c)' <=> c = Tell(Direction(k, ~ record.trains[k].dir))
           /\ ToDo(k)' \subseteq ToDo(k) \cup {Tell(Direction(k, ~ record.trains[k].dir))}
           /\ ToDo(k) \subseteq ToDo(k)' \cup {NextCall(k)}
           /\ Len(calls'[k]) = Len(calls[k])
           /\ \A i \in 2 .. Len(calls[k]) : calls'[k][i] = calls[k][i]
<1>1. ~ Idle(k) /\ NextCall(k).call = "GetDirection" /\ NextCall(k) \in Call
  BY ListFacts DEF GetDirection, Calls
<1>2. PICK t \in Trains : t = NextCall(k).train /\ NextCall(k) = AskDirection(t)
  BY <1>1, CallKinds
<1>3. NextCall(k) \in ToDo(k)
  BY <1>1, ToDoFacts DEF Waits
<1>4. AtTrain(NextCall(k), t)
  BY <1>1, <1>2 DEF AtTrain
<1>5. k = t
  BY <1>1, <1>3, <1>4, Driver
<1>6. record.trains[t].dir \in BOOLEAN
  BY DEF TypeInv, TrainRecord
<1>7. PICK d \in BOOLEAN : d = ~ record.trains[t].dir
  BY <1>6
<1>8. PICK s : s = calls[k]
  OBVIOUS
<1>9. s \in Seq(Call) /\ s # << >> /\ s[1] = AskDirection(t) /\ ListOf(t, s)
  BY <1>1, <1>2, <1>5, <1>8, ListFacts DEF ListsInv, Idle
<1>21. PICK told : told = Tell(Direction(t, d))
  OBVIOUS
<1>22. told \in Call
  BY <1>7, <1>21, CallsMade
<1>23. told.call = "Send"
  BY <1>21, Distinct
<1>24. Belongs(t, told)
  BY <1>21, TrainBelongs
<1>10. PICK r : r = <<told>> \o Tail(s)
  OBVIOUS
<1>25. /\ ListOf(t, r) /\ Len(r) = Len(s) /\ r[1] = told
       /\ \A i \in 2 .. Len(s) : r[i] = s[i]
  BY <1>2, <1>9, <1>10, <1>22, <1>23, <1>24, DirectionIs
<1>11. /\ ListOf(t, r) /\ Len(r) = Len(s) /\ r[1] = Tell(Direction(t, d))
       /\ \A i \in 2 .. Len(s) : r[i] = s[i]
  BY <1>21, <1>25
<1>12. GoOn(k, r)
  BY <1>2, <1>5, <1>7, <1>8, <1>10, <1>21 DEF GetDirection
<1>13. r[1].call = "Send" /\ r \in Seq(Call)
  BY <1>11, Distinct DEF ListOf
<1>14. ListsInv' /\ Others(k) /\ calls'[k] = r
  <2>1. now \in Nat /\ r[1].call # "Delay"
    BY <1>13 DEF TypeInv
  <2> QED BY <1>5, <1>11, <1>12, <2>1, Renewed
<1>15. PICK L \in Nat : L = Len(s) /\ L > 0
  BY <1>9
<1>16. /\ r # << >> /\ \A i \in 1 .. L : i = 1 \/ i \in 2 .. L
       /\ 1 \in 1 .. L
  BY <1>11, <1>13, <1>15
<1>17. \A c : Now(k, c)' <=> c = Tell(Direction(t, d))
  <2>1. Head(r) = r[1]
    BY <1>13, <1>16
  <2> QED BY <1>11, <1>14, <1>16, <2>1 DEF Now, Idle, NextCall
<1>18. ToDo(k)' \subseteq ToDo(k) \cup {Tell(Direction(t, d))}
  <2> SUFFICES ASSUME NEW c \in Call, ~ Waits(c), NEW i \in 1 .. L, r[i] = c, c # r[1]
               PROVE  s[i] = c
    BY <1>8, <1>11, <1>14, <1>15 DEF ToDo, Occurs
  <2>1. i \in 2 .. L
    BY <1>16
  <2> QED BY <1>11, <1>15, <2>1
<1>19. ToDo(k) \subseteq ToDo(k)' \cup {NextCall(k)}
  <2> SUFFICES ASSUME NEW c \in Call, ~ Waits(c), NEW i \in 1 .. L, s[i] = c, c # s[1]
               PROVE  r[i] = c
    BY <1>2, <1>8, <1>9, <1>11, <1>14, <1>15 DEF ToDo, Occurs
  <2>1. i \in 2 .. L
    BY <1>16
  <2> QED BY <1>11, <1>15, <2>1
<1>20. \A i \in 2 .. Len(calls[k]) : calls'[k][i] = calls[k][i]
  BY <1>8, <1>11, <1>14
<1> QED BY <1>1, <1>2, <1>5, <1>6, <1>7, <1>8, <1>11, <1>14, <1>17, <1>18, <1>19, <1>20

LEMMA StartNext ==
    ASSUME StartInv, NEW k \in Tasks, Others(k),
           ~ Idle(k) \/ (k \notin Resetters /\ \A r \in Resetters : Idle(r))
    PROVE  StartInv'
<1>1. \A j \in Tasks : j # k => (Idle(j)' <=> Idle(j))
  BY OthersStay
<1>2. Resetters \subseteq Tasks /\ Trains \cup Switchers \subseteq Tasks
  BY DEF Tasks
<1>3. CASE k \in Resetters
  <2>1. \A j \in Trains \cup Switchers : Idle(j) /\ j # k
    BY <1>3, TasksAssumption DEF StartInv
  <2> QED BY <1>1, <1>2, <2>1 DEF StartInv
<1>4. CASE k \notin Resetters
  <2>1. \A r \in Resetters : Idle(r) /\ r # k
    BY <1>4 DEF StartInv, Tasks
  <2> QED BY <1>1, <1>2, <2>1 DEF StartInv
<1> QED BY <1>3, <1>4

----------------------------------------------------------------------------
(* What each action does to the state. *)

LEMMA PutKinds ==
    ASSUME ListsInv, NEW k \in Tasks, PutBytes(k)
    PROVE  /\ NextCall(k) \in ToDo(k) /\ NextCall(k).call = "PutBytes"
           /\ \/ \E n \in Turnouts, d \in {"straight", "curved"} : NextCall(k) = Put(Turn(n, d))
              \/ \E t \in Trains, v \in Speeds : NextCall(k) = Put(Speed(t, v))
              \/ \E t \in Trains : NextCall(k) = Put(TurnAround(t)) /\ k = t
<1>1. ~ Idle(k) /\ NextCall(k).call = "PutBytes" /\ NextCall(k) \in Call
  BY ListFacts DEF PutBytes, Calls
<1>2. NextCall(k) \in ToDo(k)
  BY <1>1, ToDoFacts DEF Waits
<1>3. PICK cmd : cmd = NextCall(k).cmd
  OBVIOUS
<1>4. NextCall(k) = Put(cmd) /\ cmd \in Turns \cup SpeedCommands \cup ReverseCommands
  BY <1>1, <1>3 DEF Call, Put
<1>5. CASE cmd.kind = "turnout"
  BY <1>1, <1>2, <1>4, <1>5, Commands3
<1>6. CASE cmd.kind = "speed"
  BY <1>1, <1>2, <1>4, <1>6, Commands3
<1>7. CASE cmd.kind = "reverse"
  <2>1. PICK t \in Trains : cmd = TurnAround(t)
    BY <1>4, <1>7, Commands3
  <2>2. AtTrain(NextCall(k), t)
    BY <1>4, <2>1 DEF AtTrain, Put, TurnAround
  <2>3. k = t
    BY <1>2, <1>4, <1>7, <2>2, Driver, Distinct
  <2> QED BY <1>1, <1>2, <1>4, <2>1, <2>3
<1>8. cmd.kind \in {"turnout", "speed", "reverse"}
  BY <1>4 DEF Turns, SpeedCommands, ReverseCommands
<1> QED BY <1>5, <1>6, <1>7, <1>8

LEMMA PutTurn ==
    ASSUME TypeInv, NEW k, PutBytes(k), NEW n \in Turnouts, NEW d \in {"straight", "curved"},
           NextCall(k) = Put(Turn(n, d))
    PROVE  /\ TypeInv'
           /\ actual'.turnouts = [actual.turnouts EXCEPT ![n] = d]
           /\ actual'.trains = actual.trains
<1>1. NextCall(k).cmd.kind = "turnout" /\ NextCall(k).cmd.num = n /\ NextCall(k).cmd.dir = d
  BY Distinct
<1>2. actual' = [actual EXCEPT !.turnouts[n] = d]
  BY <1>1 DEF PutBytes
<1>3. /\ actual'.turnouts = [actual.turnouts EXCEPT ![n] = d] /\ actual'.trains = actual.trains
      /\ actual' \in [turnouts : [Turnouts -> {"straight", "curved"}],
                      trains : [Trains -> TrainState]]
  BY <1>2 DEF TypeInv
<1> QED BY <1>3 DEF TypeInv, PutBytes

LEMMA PutSpeed ==
    ASSUME TypeInv, NEW k, PutBytes(k), NEW t \in Trains, NEW v \in Speeds,
           NextCall(k) = Put(Speed(t, v))
    PROVE  /\ TypeInv'
           /\ actual'.turnouts = actual.turnouts
           /\ \A u \in Trains : u # t => actual'.trains[u] = actual.trains[u]
           /\ actual'.trains[t].speed = v /\ actual'.trains[t].dir = actual.trains[t].dir
           /\ IF actual.trains[t].speed = v
              THEN actual'.trains[t] = actual.trains[t]
              ELSE /\ actual'.trains[t].was = actual.trains[t].speed
                   /\ actual'.trains[t].since = now
<1>1. /\ NextCall(k).cmd.kind = "speed" /\ NextCall(k).cmd.train = t
      /\ NextCall(k).cmd.speed = v
  BY Distinct
<1>2. actual' = IF actual.trains[t].speed = v THEN actual
                ELSE [actual EXCEPT !.trains[t] =
                         [speed |-> v, was |-> actual.trains[t].speed,
                          since |-> now, dir |-> actual.trains[t].dir]]
  BY <1>1 DEF PutBytes
<1>3. /\ actual.trains[t] \in TrainState /\ now \in Nat
      /\ actual.trains[t].speed \in Speeds /\ actual.trains[t].dir \in BOOLEAN
  BY DEF TypeInv, TrainState
<1>4. PICK new : new = [speed |-> v, was |-> actual.trains[t].speed,
                        since |-> now, dir |-> actual.trains[t].dir]
  OBVIOUS
<1>5. /\ new \in TrainState /\ new.speed = v /\ new.was = actual.trains[t].speed
      /\ new.since = now /\ new.dir = actual.trains[t].dir
  BY <1>3, <1>4 DEF TrainState
<1>6. CASE actual.trains[t].speed = v
  <2>1. actual' = actual
    BY <1>2, <1>6
  <2>2. TypeInv'
    BY <2>1 DEF TypeInv, PutBytes
  <2> QED BY <1>6, <2>1, <2>2
<1>7. CASE actual.trains[t].speed # v
  <2>1. actual' = [actual EXCEPT !.trains[t] = new]
    BY <1>2, <1>4, <1>7
  <2>2. /\ actual'.turnouts = actual.turnouts
        /\ actual'.trains = [actual.trains EXCEPT ![t] = new]
        /\ actual' \in [turnouts : [Turnouts -> {"straight", "curved"}],
                        trains : [Trains -> TrainState]]
    BY <1>5, <2>1 DEF TypeInv
  <2>3. actual'.trains[t] = new /\ \A u \in Trains : u # t => actual'.trains[u] = actual.trains[u]
    BY <2>2 DEF TypeInv
  <2>4. TypeInv'
    BY <2>2 DEF TypeInv, PutBytes
  <2> QED BY <1>5, <1>7, <2>2, <2>3, <2>4
<1> QED BY <1>6, <1>7

LEMMA PutReverse ==
    ASSUME TypeInv, NEW k, PutBytes(k), NEW t \in Trains, NextCall(k) = Put(TurnAround(t))
    PROVE  /\ TypeInv'
           /\ actual'.turnouts = actual.turnouts
           /\ \A u \in Trains : u # t => actual'.trains[u] = actual.trains[u]
           /\ actual'.trains[t].speed = actual.trains[t].speed
           /\ actual'.trains[t].was = actual.trains[t].was
           /\ actual'.trains[t].since = actual.trains[t].since
           /\ actual'.trains[t].dir = ~ actual.trains[t].dir
<1>1. NextCall(k).cmd.kind = "reverse" /\ NextCall(k).cmd.train = t
  BY Distinct
<1>2. actual' = [actual EXCEPT !.trains[t].dir = ~ actual.trains[t].dir]
  BY <1>1 DEF PutBytes
<1>3. PICK new : new = [actual.trains[t] EXCEPT !.dir = ~ actual.trains[t].dir]
  OBVIOUS
<1>4. actual.trains[t] \in TrainState
  BY DEF TypeInv
<1>5. /\ new \in TrainState /\ new.speed = actual.trains[t].speed
      /\ new.was = actual.trains[t].was /\ new.since = actual.trains[t].since
      /\ new.dir = ~ actual.trains[t].dir
  BY <1>3, <1>4 DEF TrainState
<1>6. actual' = [actual EXCEPT !.trains = [actual.trains EXCEPT ![t] = new]]
  BY <1>2, <1>3
<1>7. /\ actual'.turnouts = actual.turnouts
      /\ actual'.trains = [actual.trains EXCEPT ![t] = new]
      /\ actual' \in [turnouts : [Turnouts -> {"straight", "curved"}],
                      trains : [Trains -> TrainState]]
  BY <1>5, <1>6 DEF TypeInv
<1>8. actual'.trains[t] = new /\ \A u \in Trains : u # t => actual'.trains[u] = actual.trains[u]
  BY <1>7 DEF TypeInv
<1>9. TypeInv'
  BY <1>7 DEF TypeInv, PutBytes
<1> QED BY <1>5, <1>7, <1>8, <1>9

LEMMA TellKinds ==
    ASSUME ListsInv, NEW k \in Tasks
    PROVE  /\ TellTurnout(k) =>
                 \E n \in Turnouts, d \in {"straight", "curved"} : NextCall(k) = Tell(Turn(n, d))
           /\ TellDirection(k) =>
                 k \in Trains /\ \E d \in BOOLEAN : NextCall(k) = Tell(Direction(k, d))
           /\ TellSpeed(k) => \E t \in Trains, v \in Speeds : NextCall(k) = Tell(Speed(t, v))
           /\ TellTurnout(k) \/ TellDirection(k) \/ TellSpeed(k) =>
                 NextCall(k) \in ToDo(k) /\ NextCall(k).call = "Send"
<1> SUFFICES ASSUME Calls(k, "Send")
             PROVE  /\ NextCall(k) \in ToDo(k) /\ NextCall(k).call = "Send"
                    /\ NextCall(k).cmd.kind = "turnout" =>
                          \E n \in Turnouts, d \in {"straight", "curved"} :
                             NextCall(k) = Tell(Turn(n, d))
                    /\ NextCall(k).cmd.kind = "direction" =>
                          k \in Trains /\ \E d \in BOOLEAN : NextCall(k) = Tell(Direction(k, d))
                    /\ NextCall(k).cmd.kind = "speed" =>
                          \E t \in Trains, v \in Speeds : NextCall(k) = Tell(Speed(t, v))
  BY DEF TellTurnout, TellDirection, TellSpeed
<1>1. ~ Idle(k) /\ NextCall(k).call = "Send" /\ NextCall(k) \in Call
  BY ListFacts DEF Calls
<1>2. NextCall(k) \in ToDo(k)
  BY <1>1, ToDoFacts DEF Waits
<1>3. PICK cmd : cmd = NextCall(k).cmd
  OBVIOUS
<1>4. NextCall(k) = Tell(cmd) /\ cmd \in Turns \cup SpeedCommands \cup DirectionCommands
  BY <1>1, <1>3 DEF Call, Tell
<1>5. cmd.kind = "direction" =>
         k \in Trains /\ \E d \in BOOLEAN : NextCall(k) = Tell(Direction(k, d))
  <2> SUFFICES ASSUME cmd.kind = "direction"
               PROVE  k \in Trains /\ \E d \in BOOLEAN : NextCall(k) = Tell(Direction(k, d))
    OBVIOUS
  <2>1. PICK t \in Trains, d \in BOOLEAN : cmd = Direction(t, d)
    BY <1>4, Commands3
  <2>2. AtTrain(NextCall(k), t)
    BY <1>4, <2>1 DEF AtTrain, Tell, Direction
  <2>3. k = t
    BY <1>2, <1>3, <2>1, <2>2, Driver
  <2> QED BY <1>4, <2>1, <2>3
<1> QED BY <1>1, <1>2, <1>3, <1>4, <1>5, Commands3

LEMMA TellTurnoutState ==
    ASSUME TypeInv, NEW k, TellTurnout(k), NEW n \in Turnouts, NEW d \in {"straight", "curved"},
           NextCall(k) = Tell(Turn(n, d))
    PROVE  /\ TypeInv'
           /\ record'.turnouts[n] = d
           /\ \A m \in Turnouts : m # n => record'.turnouts[m] = record.turnouts[m]
           /\ record'.trains = record.trains
           /\ forward'.kind = "turnouts" /\ forward'.states = record'.turnouts
<1>1. NextCall(k).cmd.num = n /\ NextCall(k).cmd.dir = d
  BY Distinct
<1>2. record' = [record EXCEPT !.turnouts[n] = d]
  BY <1>1 DEF TellTurnout
<1>3. /\ record'.turnouts = [record.turnouts EXCEPT ![n] = d] /\ record'.trains = record.trains
      /\ record' \in [turnouts : [Turnouts -> Directions], trains : [Trains -> TrainRecord]]
      /\ record'.turnouts \in [Turnouts -> Directions]
  BY <1>2 DEF TypeInv, Directions
<1>4. forward' = [kind |-> "turnouts", states |-> record'.turnouts]
  BY DEF TellTurnout
<1>5. forward'.kind = "turnouts" /\ forward'.states = record'.turnouts
  BY <1>4
<1>6. forward' \in [kind : {"turnouts"}, states : [Turnouts -> Directions]]
  BY <1>3, <1>4
<1>7. TypeInv'
  BY <1>3, <1>6 DEF TypeInv, TellTurnout
<1>8. /\ record'.turnouts[n] = d
      /\ \A m \in Turnouts : m # n => record'.turnouts[m] = record.turnouts[m]
  <2>1. record.turnouts \in [Turnouts -> Directions]
    BY DEF TypeInv
  <2> QED BY <1>3, <2>1
<1> QED BY <1>3, <1>5, <1>7, <1>8

LEMMA TellDirectionState ==
    ASSUME TypeInv, NEW k, TellDirection(k), NEW t \in Trains, NEW d \in BOOLEAN,
           NextCall(k) = Tell(Direction(t, d))
    PROVE  /\ TypeInv'
           /\ record'.turnouts = record.turnouts
           /\ \A u \in Trains : u # t => record'.trains[u] = record.trains[u]
           /\ record'.trains[t].speed = record.trains[t].speed
           /\ record'.trains[t].dir = d
           /\ forward'.kind = "reversed" /\ forward'.train = t
<1>1. NextCall(k).cmd.train = t /\ NextCall(k).cmd.dir = d
  BY Distinct
<1>2. record' = [record EXCEPT !.trains[t].dir = d]
  BY <1>1 DEF TellDirection
<1>3. PICK new : new = [record.trains[t] EXCEPT !.dir = d]
  OBVIOUS
<1>4. record.trains[t] \in TrainRecord
  BY DEF TypeInv
<1>5. new \in TrainRecord /\ new.speed = record.trains[t].speed /\ new.dir = d
  BY <1>3, <1>4 DEF TrainRecord
<1>6. record' = [record EXCEPT !.trains = [record.trains EXCEPT ![t] = new]]
  BY <1>2, <1>3
<1>7. /\ record'.turnouts = record.turnouts
      /\ record'.trains = [record.trains EXCEPT ![t] = new]
      /\ record' \in [turnouts : [Turnouts -> Directions], trains : [Trains -> TrainRecord]]
  BY <1>5, <1>6 DEF TypeInv
<1>8. record'.trains[t] = new /\ \A u \in Trains : u # t => record'.trains[u] = record.trains[u]
  BY <1>7 DEF TypeInv
<1>9. forward' = [kind |-> "reversed", train |-> t]
  BY <1>1 DEF TellDirection
<1>10. forward' \in [kind : {"reversed"}, train : Trains]
  BY <1>9
<1>11. TypeInv'
  BY <1>7, <1>10 DEF TypeInv, TellDirection
<1> QED BY <1>5, <1>7, <1>8, <1>9, <1>11

LEMMA TellSpeedState ==
    ASSUME TypeInv, NEW k, TellSpeed(k), NEW t \in Trains, NEW v \in Speeds,
           NextCall(k) = Tell(Speed(t, v))
    PROVE  /\ TypeInv'
           /\ record'.turnouts = record.turnouts
           /\ \A u \in Trains : u # t => record'.trains[u] = record.trains[u]
           /\ record'.trains[t].dir = record.trains[t].dir
           /\ record'.trains[t].speed = v
           /\ copy'.turnouts = copy.turnouts
           /\ \A u \in Trains : u # t => copy'.trains[u] = copy.trains[u]
           /\ copy'.trains[t].dir = copy.trains[t].dir
           /\ IF v # record.trains[t].speed THEN copy'.trains[t].speed = v
              ELSE copy'.trains[t].speed = copy.trains[t].speed
<1>1. NextCall(k).cmd.train = t /\ NextCall(k).cmd.speed = v
  BY Distinct
<1>2. record' = [record EXCEPT !.trains[t].speed = v]
  BY <1>1 DEF TellSpeed
<1>3. PICK new : new = [record.trains[t] EXCEPT !.speed = v]
  OBVIOUS
<1>4. record.trains[t] \in TrainRecord /\ copy.trains[t] \in TrainRecord
  BY DEF TypeInv
<1>5. new \in TrainRecord /\ new.dir = record.trains[t].dir /\ new.speed = v
  BY <1>3, <1>4 DEF TrainRecord
<1>6. record' = [record EXCEPT !.trains = [record.trains EXCEPT ![t] = new]]
  BY <1>2, <1>3
<1>7. /\ record'.turnouts = record.turnouts
      /\ record'.trains = [record.trains EXCEPT ![t] = new]
      /\ record' \in [turnouts : [Turnouts -> Directions], trains : [Trains -> TrainRecord]]
  BY <1>5, <1>6 DEF TypeInv
<1>8. record'.trains[t] = new /\ \A u \in Trains : u # t => record'.trains[u] = record.trains[u]
  BY <1>7 DEF TypeInv
<1>9. copy' = IF v # record.trains[t].speed THEN [copy EXCEPT !.trains[t].speed = v] ELSE copy
  BY <1>1 DEF TellSpeed
<1>10. PICK told : told = [copy.trains[t] EXCEPT !.speed = v]
  OBVIOUS
<1>11. told \in TrainRecord /\ told.dir = copy.trains[t].dir /\ told.speed = v
  BY <1>4, <1>10 DEF TrainRecord
<1>12. CASE v # record.trains[t].speed
  <2>1. copy' = [copy EXCEPT !.trains = [copy.trains EXCEPT ![t] = told]]
    BY <1>9, <1>10, <1>12
  <2>2. /\ copy'.turnouts = copy.turnouts
        /\ copy'.trains = [copy.trains EXCEPT ![t] = told]
        /\ copy' \in [turnouts : [Turnouts -> Directions], trains : [Trains -> TrainRecord]]
    BY <1>11, <2>1 DEF TypeInv
  <2>3. copy'.trains[t] = told /\ \A u \in Trains : u # t => copy'.trains[u] = copy.trains[u]
    BY <2>2 DEF TypeInv
  <2>4. TypeInv'
    BY <1>7, <2>2 DEF TypeInv, TellSpeed
  <2> QED BY <1>5, <1>7, <1>8, <1>11, <1>12, <2>2, <2>3, <2>4
<1>13. CASE ~ (v # record.trains[t].speed)
  <2>1. copy' = copy
    BY <1>9, <1>13
  <2>2. TypeInv'
    BY <1>7, <2>1 DEF TypeInv, TellSpeed
  <2> QED BY <1>5, <1>7, <1>8, <1>13, <2>1, <2>2
<1> QED BY <1>12, <1>13

\* What the coordinates server is told.
LEMMA ForwardKinds ==
    ASSUME TypeInv
    PROVE  /\ forward = Nothing <=> forward.kind = "nothing"
           /\ forward.kind \in {"nothing", "turnouts", "reversed", "speed"}
           /\ forward.kind = "turnouts" => forward.states \in [Turnouts -> Directions]
           /\ forward.kind = "reversed" => forward.train \in Trains
           /\ forward.kind = "speed" => forward.train \in Trains /\ forward.speed \in Speeds
BY DEF TypeInv, Nothing

LEMMA CoordinatesState ==
    ASSUME TypeInv, CoordinatesServerTakes
    PROVE  /\ TypeInv' /\ forward'.kind = "nothing" /\ forward.kind # "nothing"
           /\ forward.kind = "turnouts" =>
                 copy'.turnouts = forward.states /\ copy'.trains = copy.trains
           /\ forward.kind # "turnouts" =>
                 /\ copy'.turnouts = copy.turnouts
                 /\ \A u \in Trains : u # forward.train => copy'.trains[u] = copy.trains[u]
           /\ forward.kind = "reversed" =>
                 /\ copy'.trains[forward.train].speed = copy.trains[forward.train].speed
                 /\ copy'.trains[forward.train].dir = ~ copy.trains[forward.train].dir
           /\ forward.kind = "speed" =>
                 /\ copy'.trains[forward.train].speed = forward.speed
                 /\ copy'.trains[forward.train].dir = copy.trains[forward.train].dir
<1>1. forward.kind # "nothing" /\ forward' = Nothing
  BY ForwardKinds DEF CoordinatesServerTakes
<1>2. forward'.kind = "nothing"
  BY <1>1 DEF Nothing
<1>3. copy' \in [turnouts : [Turnouts -> Directions], trains : [Trains -> TrainRecord]] => TypeInv'
  BY <1>1 DEF TypeInv, CoordinatesServerTakes
<1>4. CASE forward.kind = "turnouts"
  <2>1. copy' = [copy EXCEPT !.turnouts = forward.states]
    BY <1>4 DEF CoordinatesServerTakes
  <2>2. /\ copy'.turnouts = forward.states /\ copy'.trains = copy.trains
        /\ copy' \in [turnouts : [Turnouts -> Directions], trains : [Trains -> TrainRecord]]
    BY <1>4, <2>1, ForwardKinds DEF TypeInv
  <2> QED BY <1>1, <1>2, <1>3, <1>4, <2>2
<1>5. CASE forward.kind \in {"reversed", "speed"}
  <2>1. PICK t \in Trains : t = forward.train
    BY <1>5, ForwardKinds
  <2>2. copy.trains[t] \in TrainRecord
    BY DEF TypeInv
  <2>3. PICK new : new = IF forward.kind = "reversed"
                         THEN [copy.trains[t] EXCEPT !.dir = ~ copy.trains[t].dir]
                         ELSE [copy.trains[t] EXCEPT !.speed = forward.speed]
    OBVIOUS
  <2>4. /\ new \in TrainRecord
        /\ forward.kind = "reversed" =>
              new.speed = copy.trains[t].speed /\ new.dir = ~ copy.trains[t].dir
        /\ forward.kind = "speed" =>
              new.speed = forward.speed /\ new.dir = copy.trains[t].dir
    BY <1>5, <2>2, <2>3, ForwardKinds DEF TrainRecord
  <2>5. copy' = [copy EXCEPT !.trains = [copy.trains EXCEPT ![t] = new]]
    BY <1>5, <2>1, <2>3 DEF CoordinatesServerTakes
  <2>6. /\ copy'.turnouts = copy.turnouts
        /\ copy'.trains = [copy.trains EXCEPT ![t] = new]
        /\ copy' \in [turnouts : [Turnouts -> Directions], trains : [Trains -> TrainRecord]]
    BY <2>4, <2>5 DEF TypeInv
  <2>7. copy'.trains[t] = new /\ \A u \in Trains : u # t => copy'.trains[u] = copy.trains[u]
    BY <2>6 DEF TypeInv
  <2> QED BY <1>1, <1>2, <1>3, <1>5, <2>1, <2>4, <2>6, <2>7
<1> QED BY <1>1, <1>4, <1>5, ForwardKinds

LEMMA RequestState ==
    ASSUME TypeInv, NEW t \in Trains, RequestUpdate(t)
    PROVE  /\ TypeInv' /\ forward.kind = "nothing"
           /\ forward'.kind = "speed" /\ forward'.train = t
           /\ forward'.speed = record.trains[t].speed
<1>1. forward' = [kind |-> "speed", train |-> t, speed |-> record.trains[t].speed]
  BY DEF RequestUpdate
<1>2. record.trains[t].speed \in Speeds
  BY DEF TypeInv, TrainRecord
<1>3. forward' \in [kind : {"speed"}, train : Trains, speed : Speeds]
  BY <1>1, <1>2
<1>4. TypeInv'
  BY <1>3 DEF TypeInv, RequestUpdate
<1> QED BY <1>1, <1>4, ForwardKinds DEF RequestUpdate

----------------------------------------------------------------------------
(* Crossings. *)

\* Somebody will set a half of this crossing to straight.
Straightens(n) == \E k \in Tasks, m \in Halves(n) : Put(Turn(m, "straight")) \in ToDo(k)

BothCurved(n) == actual.turnouts[n] = "curved" /\ actual.turnouts[Paired[n]] = "curved"

LEMMA CrossingIs ==
    ASSUME ListsInv
    PROVE  CrossingInv <=> \A n \in Turnouts \cap DOMAIN Paired : BothCurved(n) => Straightens(n)
<1> SUFFICES ASSUME NEW n \in Turnouts
             PROVE  (\E k \in Tasks, m \in Halves(n) :
                        \E i \in DOMAIN calls[k] : calls[k][i] = Put(Turn(m, "straight")))
                    <=> Straightens(n)
  BY DEF CrossingInv, BothCurved
<1>1. \A m \in Halves(n) : Put(Turn(m, "straight")) \in Call /\ ~ Waits(Put(Turn(m, "straight")))
  BY HalvesFacts, CallsMade, NotWaiting
<1>2. ASSUME NEW k \in Tasks, NEW m \in Halves(n)
      PROVE  (\E i \in DOMAIN calls[k] : calls[k][i] = Put(Turn(m, "straight")))
             <=> Put(Turn(m, "straight")) \in ToDo(k)
  BY <1>1, ToDoFacts
<1> QED BY <1>2 DEF Straightens

LEMMA CrossingNow ==
    ListsInv' =>
        (CrossingInv' <=> (\A n \in Turnouts \cap DOMAIN Paired : BothCurved(n) => Straightens(n))')
<1>1. ListsInv =>
          (CrossingInv <=> \A n \in Turnouts \cap DOMAIN Paired : BothCurved(n) => Straightens(n))
  BY CrossingIs
<1> QED BY <1>1, PTL

\* No call that commands a turnout is left out.
KeepsTurns == \A j \in Tasks : \A n, d : Put(Turn(n, d)) \in ToDo(j) => Put(Turn(n, d)) \in ToDo(j)'

LEMMA TurnsKept ==
    ASSUME NEW k \in Tasks, Others(k),
           \/ \E T : Fresh(k, T)
           \/ /\ ToDo(k) \subseteq ToDo(k)' \cup {NextCall(k)}
              /\ \A n, d : NextCall(k) # Put(Turn(n, d))
    PROVE  KeepsTurns
<1> SUFFICES ASSUME NEW j \in Tasks, NEW n, NEW d, Put(Turn(n, d)) \in ToDo(j)
             PROVE  Put(Turn(n, d)) \in ToDo(j)'
  BY DEF KeepsTurns
<1>1. CASE j # k
  BY <1>1, OthersStay
<1>2. CASE j = k
  <2>1. \A T : ~ Fresh(k, T)
    <3>1. Put(Turn(n, d)).call = "PutBytes"
      BY Distinct
    <3> QED BY <1>2, <3>1 DEF Fresh
  <2> QED BY <1>2, <2>1
<1> QED BY <1>1, <1>2

LEMMA TurnsSame == ASSUME calls' = calls PROVE KeepsTurns /\ (ListsInv <=> ListsInv')
BY DEF KeepsTurns, ToDo, ListsInv

LEMMA CrossingKept ==
    ASSUME ListsInv, CrossingInv, ListsInv', KeepsTurns, actual'.turnouts = actual.turnouts
    PROVE  CrossingInv'
<1>1. \A n : BothCurved(n)' <=> BothCurved(n)
  BY DEF BothCurved
<1>2. \A n : Straightens(n) => Straightens(n)'
  BY DEF KeepsTurns, Straightens
<1>3. \A n \in Turnouts \cap DOMAIN Paired : BothCurved(n)' => Straightens(n)'
  BY <1>1, <1>2, CrossingIs
<1> QED BY <1>3, CrossingNow

LEMMA CrossingTurn ==
    ASSUME TypeInv, ListsInv, CrossingInv, NEW k \in Tasks, PutBytes(k),
           NEW n \in Turnouts, NEW d \in {"straight", "curved"}, NextCall(k) = Put(Turn(n, d))
    PROVE  CrossingInv'
<1>1. ListsInv' /\ Others(k) /\ Advances(k) /\ ~ Idle(k)
  BY TailSteps
<1>2. ToDo(k) \subseteq ToDo(k)' \cup {NextCall(k)}
  BY <1>1, Advanced
<1>3. actual'.turnouts = [actual.turnouts EXCEPT ![n] = d]
  BY PutTurn, ZenonT(60)
<1>4. SUFFICES ASSUME NEW x \in Turnouts \cap DOMAIN Paired, BothCurved(x)'
               PROVE  Straightens(x)'
  BY <1>1, CrossingNow
<1>5. x \in Halves(x) /\ Paired[x] \in Halves(x) /\ Paired[x] \in Turnouts
  BY HalvesFacts
<1>6. \A m, e : Put(Turn(m, e)) = Put(Turn(n, d)) => m = n /\ e = d
  BY Distinct
<1>7. CASE n \notin Halves(x)
  <2>1. BothCurved(x)
    <3>1. actual'.turnouts[x] = actual.turnouts[x]
      BY <1>3, <1>5, <1>7 DEF TypeInv
    <3>2. actual'.turnouts[Paired[x]] = actual.turnouts[Paired[x]]
      BY <1>3, <1>5, <1>7 DEF TypeInv
    <3> QED BY <1>4, <3>1, <3>2 DEF BothCurved
  <2>2. PICK j \in Tasks, m \in Halves(x) : Put(Turn(m, "straight")) \in ToDo(j)
    BY <2>1, CrossingIs DEF Straightens
  <2>3. Put(Turn(m, "straight")) # NextCall(k)
    BY <1>6, <1>7
  <2>4. Put(Turn(m, "straight")) \in ToDo(j)'
    BY <1>1, <1>2, <2>2, <2>3, OthersStay
  <2> QED BY <2>2, <2>4 DEF Straightens
<1>8. CASE n \in Halves(x)
  <2>1. d = "curved"
    <3>1. n = x \/ n = Paired[x]
      BY <1>8, HalvesFacts
    <3> QED BY <1>3, <1>4, <3>1 DEF TypeInv, BothCurved
  <2>2. n \in DOMAIN Paired /\ Paired[n] \in Halves(x)
    <3>1. n \in DOMAIN Paired /\ Halves(n) = Halves(x)
      BY <1>8, HalvesFacts
    <3> QED BY <3>1, HalvesFacts
  <2>3. calls[k][1] = Put(Turn(n, "curved")) /\ 1 \in 1 .. Len(calls[k])
    BY <1>1, <2>1, ListFacts
  <2>4. PICK j \in 1 .. Len(calls[k]) : calls[k][j] = Put(Turn(Paired[n], "straight"))
    BY <2>2, <2>3 DEF ListsInv, ListOf, Crossed
  <2>5. Put(Turn(Paired[n], "straight")) \in Call /\ ~ Waits(Put(Turn(Paired[n], "straight")))
    BY <2>2, HalvesFacts, CallsMade, NotWaiting
  <2>6. Put(Turn(Paired[n], "straight")) \in ToDo(k)
    BY <2>4, <2>5, ListFacts DEF ToDo, Occurs
  <2>7. Put(Turn(Paired[n], "straight")) # NextCall(k)
    BY <1>6, <2>1
  <2> QED BY <1>2, <2>2, <2>6, <2>7 DEF Straightens
<1> QED BY <1>7, <1>8

----------------------------------------------------------------------------
(* Alone at a turnout. *)

LEMMA SetsTouches ==
    ASSUME ListsInv, NEW k \in Tasks, NEW n \in Turnouts
    PROVE  Holds(k, n) => Touches(k, n)
BY ToDoFacts, AtTurnoutKinds

LEMMA SetsTouchesNext ==
    ASSUME NEW k \in Tasks, NEW n \in Turnouts
    PROVE  ListsInv' => (Holds(k, n) => Touches(k, n))'
<1>1. ListsInv => (Holds(k, n) => Touches(k, n))
  BY SetsTouches
<1> QED BY <1>1, PTL

\* A task that leaves turnouts and comes to none.
LEMMA TouchesLess ==
    ASSUME ListsInv, ListsInv', NEW k \in Tasks, Others(k), NEW S,
           ToDo(k)' \subseteq ToDo(k) \cup S,
           \A c \in S, n \in Turnouts : ~ AtTurnout(c, n)
    PROVE  \A j \in Tasks, n \in Turnouts : /\ Touches(j, n)' => Touches(j, n)
                                            /\ Holds(j, n)' => Holds(j, n)
<1> SUFFICES ASSUME NEW j \in Tasks, NEW n \in Turnouts
             PROVE  (Touches(j, n)' => Touches(j, n)) /\ (Holds(j, n)' => Holds(j, n))
  OBVIOUS
<1>1. ToDo(j)' \subseteq ToDo(j) \cup S
  BY OthersStay
<1>2. /\ Touches(j, n)' <=> \E c \in ToDo(j)' : AtTurnout(c, n)
      /\ Holds(j, n)' <=> \E c \in ToDo(j)' : Sets(c, n)
      /\ \A c \in ToDo(j)' : c \in Call
  BY ToDoNext
<1>3. /\ Touches(j, n) <=> \E c \in ToDo(j) : AtTurnout(c, n)
      /\ Holds(j, n) <=> \E c \in ToDo(j) : Sets(c, n)
  BY ToDoFacts
<1>4. \A c \in Call : Sets(c, n) => AtTurnout(c, n)
  BY AtTurnoutKinds
<1> QED BY <1>1, <1>2, <1>3, <1>4

LEMMA AloneKept ==
    ASSUME AloneInv, lastSwitch' = lastSwitch, now' = now,
           \A j \in Tasks, n \in Turnouts : /\ Touches(j, n)' => Touches(j, n)
                                            /\ Holds(j, n)' => Holds(j, n)
    PROVE  AloneInv'
<1>1. \A j \in Tasks, n \in Turnouts : Busy(j, n)' => Busy(j, n)
  BY HalvesFacts DEF Busy
<1>2. \A n \in Turnouts, j, k \in Tasks :
         j # k /\ Touches(j, n)' /\ Touches(k, n)' =>
            /\ n \notin DOMAIN Paired /\ j \in Switchers /\ k \in Switchers
            /\ ~ (Holds(j, n)' /\ Holds(k, n)')
  BY DEF AloneInv
<1>3. \A n \in Turnouts \cap DOMAIN Paired, j, k \in Tasks :
         j # k => ~ (Busy(j, n)' /\ Busy(k, n)')
  BY <1>1 DEF AloneInv
<1>4. \A n \in Turnouts \ DOMAIN Paired, k \in Switchers : Holds(k, n)' => lastSwitch'[n] = now'
  BY DEF AloneInv, Tasks
<1> QED BY <1>2, <1>3, <1>4 DEF AloneInv

\* A task that comes to a turnout.
LEMMA AloneFresh ==
    ASSUME ListsInv, ListsInv', AloneInv, NEW k \in Tasks, Others(k), now' = now,
           NEW x \in Turnouts, Fresh(k, Halves(x)),
           \A j \in Tasks, m \in Halves(x) : j # k /\ Touches(j, m) =>
               /\ x \notin DOMAIN Paired /\ j \in Switchers /\ k \in Switchers
               /\ ~ (Holds(j, m) /\ Holds(k, m)'),
           \A n \in Turnouts : lastSwitch'[n] \in {lastSwitch[n], now},
           \A n \in Turnouts \ DOMAIN Paired :
               k \in Switchers /\ Holds(k, n)' => lastSwitch'[n] = now
    PROVE  AloneInv'
<1>1. \A n \in Turnouts : Touches(k, n)' => n \in Halves(x)
  BY ToDoNext DEF Fresh
<1>2. \A j \in Tasks : \A n : j # k => /\ Touches(j, n)' <=> Touches(j, n)
                                       /\ Holds(j, n)' <=> Holds(j, n)
  BY OthersStay DEF Touches, Holds
<1>3. ASSUME NEW n \in Turnouts, NEW i \in Tasks, NEW j \in Tasks, i # j,
             Touches(i, n)', Touches(j, n)'
      PROVE  /\ n \notin DOMAIN Paired /\ i \in Switchers /\ j \in Switchers
             /\ ~ (Holds(i, n)' /\ Holds(j, n)')
  <2>1. CASE i # k /\ j # k
    BY <1>2, <1>3, <2>1 DEF AloneInv
  <2>2. \A y \in Halves(x) : x \notin DOMAIN Paired => y \notin DOMAIN Paired
    BY HalvesFacts
  <2>3. CASE i = k
    <3>1. n \in Halves(x) /\ Touches(j, n) /\ j # k
      BY <1>1, <1>2, <1>3, <2>3
    <3> QED BY <1>2, <2>2, <2>3, <3>1
  <2>4. CASE j = k
    <3>1. n \in Halves(x) /\ Touches(i, n) /\ i # k
      BY <1>1, <1>2, <1>3, <2>4
    <3> QED BY <1>2, <2>2, <2>4, <3>1
  <2> QED BY <2>1, <2>3, <2>4
<1>4. ASSUME NEW n \in Turnouts \cap DOMAIN Paired, NEW i \in Tasks, NEW j \in Tasks, i # j,
             Busy(i, n)', Busy(j, n)'
      PROVE  FALSE
  <2>1. \A l \in Tasks : l # k => (Busy(l, n)' <=> Busy(l, n))
    BY <1>2 DEF Busy
  <2>2. ASSUME NEW l \in Tasks, l # k, Busy(l, n), Busy(k, n)' PROVE FALSE
    <3>1. PICK m \in Halves(n) : Touches(k, m)'
      BY <2>2 DEF Busy
    <3>2. m \in Turnouts /\ m \in Halves(x) /\ Halves(m) = Halves(n)
      BY <1>1, <3>1, HalvesFacts
    <3>3. Halves(n) = Halves(x)
      BY <3>2, HalvesFacts
    <3>4. PICK y \in Halves(x) : Touches(l, y)
      BY <2>2, <3>3 DEF Busy
    <3>5. x \notin DOMAIN Paired
      BY <2>2, <3>4
    <3>6. n \in Halves(x) /\ Halves(x) = {x}
      BY <3>3, <3>5, HalvesFacts
    <3> QED BY <3>5, <3>6
  <2> QED BY <1>4, <2>1, <2>2 DEF AloneInv
<1>5. ASSUME NEW n \in Turnouts \ DOMAIN Paired, NEW j \in Switchers, Holds(j, n)'
      PROVE  lastSwitch'[n] = now'
  <2>1. CASE j = k
    BY <1>5, <2>1
  <2>2. CASE j # k
    <3>1. Holds(j, n)
      BY <1>2, <1>5, <2>2 DEF Tasks
    <3>2. lastSwitch[n] = now
      BY <3>1 DEF AloneInv
    <3> QED BY <3>2
  <2> QED BY <2>1, <2>2
<1> QED BY <1>3, <1>4, <1>5 DEF AloneInv

\* A task that comes to no turnout.
LEMMA AloneAway ==
    ASSUME ListsInv, ListsInv', AloneInv, NEW k \in Tasks, Others(k), now' = now,
           Fresh(k, {}), lastSwitch' = lastSwitch
    PROVE  AloneInv'
<1>1. \A n \in Turnouts : ~ Touches(k, n)' /\ ~ Holds(k, n)'
  <2>1. \A n \in Turnouts : ~ Touches(k, n)'
    BY ToDoNext DEF Fresh
  <2> QED BY <2>1, SetsTouchesNext
<1>2. \A j \in Tasks : \A n : j # k => /\ Touches(j, n)' <=> Touches(j, n)
                                       /\ Holds(j, n)' <=> Holds(j, n)
  BY OthersStay DEF Touches, Holds
<1>3. \A j \in Tasks, n \in Turnouts : /\ Touches(j, n)' => Touches(j, n)
                                       /\ Holds(j, n)' => Holds(j, n)
  BY <1>1, <1>2
<1> QED BY <1>3, AloneKept

\* A switcher that sleeps has done its work.
LEMMA Sleeper ==
    ASSUME ListsInv, NEW k \in Switchers, Idle(k) \/ Calls(k, "Sleeping")
    PROVE  \A n \in Turnouts : ~ Holds(k, n)
<1>1. k \in Tasks
  BY DEF Tasks
<1>2. ToDo(k) = {}
  <2>1. CASE Idle(k)
    BY <1>1, <2>1, ToDoFacts
  <2>2. CASE ~ Idle(k)
    <3>1. Len(calls[k]) > 0 /\ Waits(calls[k][1]) /\ Len(calls[k]) \in Nat
      BY <1>1, <2>2, ListFacts DEF Calls, Waits
    <3>4. \A i \in 1 .. Len(calls[k]) : Waits(calls[k][i]) => i = Len(calls[k])
      BY <1>1 DEF ListsInv, ListOf
    <3>2. 1 = Len(calls[k])
      <4>1. 1 \in 1 .. Len(calls[k])
        BY <3>1
      <4> QED BY <3>1, <3>4, <4>1
    <3>3. \A c : Occurs(calls[k], c) => Waits(c)
      BY <3>1, <3>2 DEF Occurs
    <3> QED BY <3>3 DEF ToDo
  <2> QED BY <2>1, <2>2
<1> QED BY <1>1, <1>2, ToDoFacts

\* The turnout of a switcher that has not yet switched.
LEMMA Asks ==
    ASSUME ListsInv, NEW k \in Tasks, ~ Idle(k), NextCall(k).call \in {"Time", "Test"}
    PROVE  \A m \in Halves(NextCall(k).num) : Touches(k, m)
<1>1. NextCall(k) \in Call /\ NextCall(k) \in ToDo(k)
  BY ListFacts, ToDoFacts DEF Waits
<1>2. NextCall(k).num \in Turnouts
  BY <1>1, CallKinds
<1>3. \A m \in Halves(NextCall(k).num) : AtTurnout(NextCall(k), m)
  BY <1>1, <1>2, AtTurnoutKinds, HalvesFacts
<1> QED BY <1>1, <1>3, ToDoFacts

\* Two switchers at a turnout.
LEMMA Meets ==
    ASSUME ListsInv, AloneInv, NEW k \in Tasks, ~ Idle(k), NextCall(k).call \in {"Time", "Test"},
           NEW j \in Tasks, NEW m \in Halves(NextCall(k).num), j # k, Touches(j, m)
    PROVE  NextCall(k).num \notin DOMAIN Paired /\ j \in Switchers /\ k \in Switchers
           /\ m = NextCall(k).num /\ m \in Turnouts
<1>1. NextCall(k).num \in Turnouts
  BY ListFacts, CallKinds
<1>2. m \in Turnouts /\ Halves(m) = Halves(NextCall(k).num)
  BY <1>1, HalvesFacts
<1>3. m \notin DOMAIN Paired /\ j \in Switchers /\ k \in Switchers
  BY <1>2, Asks DEF AloneInv
<1>4. NextCall(k).num \in Halves(m) /\ Halves(m) = {m}
  BY <1>1, <1>2, <1>3, HalvesFacts
<1> QED BY <1>2, <1>3, <1>4

LEMMA AloneOrders ==
    ASSUME ListsInv, AloneInv, careful, NEW k \in Tasks, NEW n \in Turnouts, NEW curved \in BOOLEAN,
           \/ k \in Switchers /\ OrderSwitcher(k, n, curved)
           \/ k \in Trains /\ OrderTurnout(k, n, curved)
    PROVE  AloneInv'
<1>1. lastSwitch' = lastSwitch /\ now' = now /\ \A r \in Resetters : Idle(r)
  BY DEF OrderSwitcher, OrderTurnout, Give
<1>2. \A r \in Resetters : \A m : ~ Touches(r, m)
  <2>1. \A r \in Resetters : r \in Tasks
    BY DEF Tasks
  <2> QED BY <1>1, <2>1, ToDoFacts
<1>3. CASE k \in Switchers /\ OrderSwitcher(k, n, curved)
  <2>1. ListsInv' /\ Others(k) /\ Fresh(k, Halves(n)) /\ \A m : ~ Holds(k, m)'
    BY <1>3, OrderSwitcherStep
  <2>2. NobodyAt(IF n \in DOMAIN Paired THEN Tasks ELSE Trains, Halves(n))
    BY <1>3 DEF OrderSwitcher
  <2>3. ASSUME NEW j \in Tasks, NEW m \in Halves(n), j # k, Touches(j, m)
        PROVE  n \notin DOMAIN Paired /\ j \in Switchers
    <3>1. n \notin DOMAIN Paired
      BY <2>2, <2>3 DEF NobodyAt
    <3>2. j \notin Trains
      BY <2>2, <2>3, <3>1 DEF NobodyAt
    <3> QED BY <1>2, <2>3, <3>1, <3>2 DEF Tasks
  <2> QED BY <1>1, <1>3, <2>1, <2>3, AloneFresh
<1>4. CASE k \in Trains /\ OrderTurnout(k, n, curved)
  <2>1. ListsInv' /\ Others(k) /\ Fresh(k, Halves(n))
    BY <1>4, OrderTurnoutStep
  <2>2. \A j \in Tasks, m \in Halves(n) : ~ Touches(j, m)
    BY <1>4 DEF OrderTurnout, NobodyAt
  <2>3. k \notin Switchers
    BY <1>4, TasksAssumption
  <2> QED BY <1>1, <2>1, <2>2, <2>3, AloneFresh
<1> QED BY <1>3, <1>4

LEMMA AloneClock ==
    ASSUME TypeInv, ListsInv, AloneInv, NEW k \in Tasks, ReadClock(k)
    PROVE  AloneInv'
<1>1. /\ ListsInv' /\ Others(k) /\ ~ Idle(k) /\ k \in Switchers
      /\ NextCall(k).call = "Time" /\ NextCall(k).num \in Turnouts
      /\ Fresh(k, Halves(NextCall(k).num))
      /\ \A m : ~ Holds(k, m)'
  BY ReadClockStep
<1>2. lastSwitch' = lastSwitch /\ now' = now
  BY DEF ReadClock
<1>3. PICK x \in Turnouts : x = NextCall(k).num
  BY <1>1
<1>4. \A j \in Tasks, m \in Halves(x) : j # k /\ Touches(j, m) =>
         x \notin DOMAIN Paired /\ j \in Switchers
  BY <1>1, <1>3, Meets
<1> QED BY <1>1, <1>2, <1>3, <1>4, AloneFresh

LEMMA AloneTest ==
    ASSUME TypeInv, ListsInv, AloneInv, TestInv, NEW k \in Tasks, SwitchUnlessRecent(k)
    PROVE  AloneInv'
<1>1. /\ ListsInv' /\ Others(k) /\ ~ Idle(k) /\ k \in Switchers
      /\ NextCall(k).call = "Test" /\ NextCall(k).num \in Turnouts
      /\ Fresh(k, Halves(NextCall(k).num))
      /\ ~ Due(k) => ToDo(k)' = {}
  BY TestStep
<1>2. PICK x \in Turnouts : x = NextCall(k).num
  BY <1>1
<1>3. NextCall(k).at = now /\ now \in Nat /\ now' = now
  BY <1>1 DEF TestInv, TypeInv, SwitchUnlessRecent
<1>4. lastSwitch' = IF Due(k) THEN [lastSwitch EXCEPT ![x] = now] ELSE lastSwitch
  BY <1>2, <1>3 DEF SwitchUnlessRecent, Due
<1>5. \A n \in Turnouts : lastSwitch'[n] \in {lastSwitch[n], now}
  BY <1>4 DEF TypeInv
<1>6. ASSUME NEW n \in Turnouts, Holds(k, n)' PROVE n \in Halves(x) /\ Due(k)
  <2>1. Touches(k, n)'
    BY <1>1, <1>6, SetsTouchesNext
  <2>2. \E c \in ToDo(k)' : AtTurnout(c, n)
    BY <1>1, <2>1, ToDoNext
  <2> QED BY <1>1, <1>2, <2>2 DEF Fresh
<1>7. ASSUME NEW n \in Turnouts \ DOMAIN Paired, Holds(k, n)' PROVE lastSwitch'[n] = now
  <2>1. n \in Halves(x) /\ Due(k)
    BY <1>6, <1>7
  <2>2. n = x
    <3>1. Halves(n) = Halves(x) /\ Halves(n) = {n} /\ x \in Halves(x)
      BY <2>1, HalvesFacts
    <3> QED BY <3>1
  <2> QED BY <1>4, <2>1, <2>2 DEF TypeInv
<1>8. ASSUME NEW j \in Tasks, NEW m \in Halves(x), j # k, Touches(j, m)
      PROVE  x \notin DOMAIN Paired /\ j \in Switchers /\ ~ (Holds(j, m) /\ Holds(k, m)')
  <2>1. x \notin DOMAIN Paired /\ j \in Switchers /\ m = x /\ m \in Turnouts
    BY <1>1, <1>2, <1>8, Meets
  <2>2. ASSUME Holds(j, m), Holds(k, m)' PROVE FALSE
    <3>1. Due(k)
      BY <1>6, <2>1, <2>2
    <3>2. lastSwitch[x] = now
      BY <2>1, <2>2 DEF AloneInv
    <3> QED BY <1>2, <1>3, <3>1, <3>2 DEF Due, DELAY_BETWEEN_SW
  <2> QED BY <2>1, <2>2
<1> QED BY <1>1, <1>2, <1>3, <1>5, <1>7, <1>8, AloneFresh

----------------------------------------------------------------------------
(* The steps, put together. *)

\* Those in which a task gets a new list.
Starts(k) ==
    \/ k \in Switchers /\ \E n \in Turnouts, curved \in BOOLEAN : OrderSwitcher(k, n, curved)
    \/ k \in Trains /\ \E n \in Turnouts, curved \in BOOLEAN : OrderTurnout(k, n, curved)
    \/ k \in Trains /\ \E v \in Speeds : OrderSpeed(k, v)
    \/ k \in Trains /\ \E v \in Speeds \cup {OwnSpeed} : OrderReverse(k, v)
    \/ GetSpeed(k) \/ ReadClock(k) \/ SwitchUnlessRecent(k)

Calm == UNCHANGED <<now, actual, record, copy, forward, careful>>

LEMMA NextIs ==
    ASSUME [Next]_vars
    PROVE  \/ \E k \in Tasks : \/ Starts(k) \/ PutBytes(k) \/ TellTurnout(k) \/ TellDirection(k)
                               \/ TellSpeed(k) \/ WakeUp(k) \/ GetDirection(k)
           \/ \E t \in Trains : RequestUpdate(t)
           \/ CoordinatesServerTakes \/ Tick \/ UNCHANGED vars
<1>1. CASE \E k \in Switchers, n \in Turnouts, curved \in BOOLEAN : OrderSwitcher(k, n, curved)
  BY <1>1 DEF Starts, Tasks
<1>2. CASE \E t \in Trains, n \in Turnouts, curved \in BOOLEAN : OrderTurnout(t, n, curved)
  BY <1>2 DEF Starts, Tasks
<1>3. CASE \E t \in Trains, v \in Speeds : OrderSpeed(t, v)
  BY <1>3 DEF Starts, Tasks
<1>4. CASE \E t \in Trains, v \in (Speeds \ {0}) \cup {OwnSpeed} : OrderReverse(t, v)
  BY <1>4 DEF Starts, Tasks
<1>5. CASE \E k \in Tasks :
              \/ PutBytes(k) \/ TellTurnout(k) \/ TellDirection(k) \/ TellSpeed(k)
              \/ GetDirection(k) \/ GetSpeed(k) \/ ReadClock(k) \/ SwitchUnlessRecent(k)
              \/ WakeUp(k)
  BY <1>5 DEF Starts
<1> QED BY <1>1, <1>2, <1>3, <1>4, <1>5 DEF Next

LEMMA TypeCalm ==
    ASSUME TypeInv, Calm, lastSwitch' \in [Turnouts -> Nat]
    PROVE  TypeInv'
BY DEF TypeInv, Calm

LEMMA StartsIs ==
    ASSUME TypeInv, ListsInv, NEW k \in Tasks, Starts(k)
    PROVE  /\ ListsInv' /\ Others(k) /\ Calm /\ TypeInv' /\ \E T : Fresh(k, T)
           /\ ~ Idle(k) \/ (k \notin Resetters /\ \A r \in Resetters : Idle(r))
<1>1. ASSUME NEW list, Give(k, list)
      PROVE  Calm /\ TypeInv' /\ \A r \in Resetters : Idle(r)
  <2>1. Calm /\ lastSwitch' = lastSwitch /\ \A r \in Resetters : Idle(r)
    BY <1>1 DEF Give, Calm
  <2> QED BY <2>1, TypeCalm DEF TypeInv
<1>2. k \in Trains \cup Switchers => k \notin Resetters
  BY TasksAssumption
<1>3. CASE k \in Switchers /\ \E n \in Turnouts, curved \in BOOLEAN : OrderSwitcher(k, n, curved)
  <2>1. PICK n \in Turnouts, curved \in BOOLEAN : OrderSwitcher(k, n, curved)
    BY <1>3
  <2>2. \E list : Give(k, list)
    BY <2>1 DEF OrderSwitcher
  <2>3. ListsInv' /\ Others(k) /\ Fresh(k, Halves(n))
    BY <1>3, <2>1, OrderSwitcherStep
  <2> QED BY <1>1, <1>2, <1>3, <2>2, <2>3
<1>4. CASE k \in Trains /\ \E n \in Turnouts, curved \in BOOLEAN : OrderTurnout(k, n, curved)
  <2>1. PICK n \in Turnouts, curved \in BOOLEAN : OrderTurnout(k, n, curved)
    BY <1>4
  <2>2. \E list : Give(k, list)
    BY <2>1 DEF OrderTurnout
  <2>3. ListsInv' /\ Others(k) /\ Fresh(k, Halves(n))
    BY <1>4, <2>1, OrderTurnoutStep
  <2> QED BY <1>1, <1>2, <1>4, <2>2, <2>3
<1>5. CASE k \in Trains /\ \E v \in Speeds : OrderSpeed(k, v)
  <2>1. PICK v \in Speeds : OrderSpeed(k, v)
    BY <1>5
  <2>2. \E list : Give(k, list)
    BY <2>1 DEF OrderSpeed
  <2>3. ListsInv' /\ Others(k) /\ Fresh(k, {})
    BY <1>5, <2>1, OrderSpeedStep
  <2> QED BY <1>1, <1>2, <1>5, <2>2, <2>3
<1>6. CASE k \in Trains /\ \E v \in Speeds \cup {OwnSpeed} : OrderReverse(k, v)
  <2>1. PICK v \in Speeds \cup {OwnSpeed} : OrderReverse(k, v)
    BY <1>6
  <2>2. \E list : Give(k, list)
    BY <2>1 DEF OrderReverse
  <2>3. ListsInv' /\ Others(k) /\ Fresh(k, {})
    BY <1>6, <2>1, OrderReverseStep
  <2> QED BY <1>1, <1>2, <1>6, <2>2, <2>3
<1>7. CASE GetSpeed(k)
  <2>1. ListsInv' /\ Others(k) /\ Fresh(k, {}) /\ ~ Idle(k)
    BY <1>7, GetSpeedStep
  <2>2. Calm /\ lastSwitch' = lastSwitch
    BY <1>7 DEF GetSpeed, Calm
  <2>3. TypeInv'
    BY <2>2, TypeCalm DEF TypeInv
  <2> QED BY <2>1, <2>2, <2>3
<1>8. CASE ReadClock(k)
  <2>1. ListsInv' /\ Others(k) /\ Fresh(k, Halves(NextCall(k).num)) /\ ~ Idle(k)
    BY <1>8, ReadClockStep
  <2>2. Calm /\ lastSwitch' = lastSwitch
    BY <1>8 DEF ReadClock, Calm
  <2>3. TypeInv'
    BY <2>2, TypeCalm DEF TypeInv
  <2> QED BY <2>1, <2>2, <2>3
<1>9. CASE SwitchUnlessRecent(k)
  <2>1. /\ ListsInv' /\ Others(k) /\ Fresh(k, Halves(NextCall(k).num)) /\ ~ Idle(k)
        /\ NextCall(k).num \in Turnouts /\ NextCall(k).at \in Nat
    BY <1>9, TestStep
  <2>2. /\ Calm
        /\ lastSwitch' \in {lastSwitch, [lastSwitch EXCEPT ![NextCall(k).num] = NextCall(k).at]}
    BY <1>9 DEF SwitchUnlessRecent, Calm
  <2>3. lastSwitch' \in [Turnouts -> Nat]
    BY <2>1, <2>2 DEF TypeInv
  <2>4. TypeInv'
    BY <2>2, <2>3, TypeCalm
  <2> QED BY <2>1, <2>2, <2>4
<1> QED BY <1>3, <1>4, <1>5, <1>6, <1>7, <1>8, <1>9 DEF Starts

LEMMA AloneStarts ==
    ASSUME TypeInv, ListsInv, AloneInv, TestInv, careful, NEW k \in Tasks, Starts(k)
    PROVE  AloneInv'
<1>1. CASE \/ k \in Switchers /\ \E n \in Turnouts, curved \in BOOLEAN : OrderSwitcher(k, n, curved)
           \/ k \in Trains /\ \E n \in Turnouts, curved \in BOOLEAN : OrderTurnout(k, n, curved)
  BY <1>1, AloneOrders
<1>2. CASE k \in Trains /\ \E v \in Speeds : OrderSpeed(k, v)
  <2>1. PICK v \in Speeds : OrderSpeed(k, v)
    BY <1>2
  <2>2. ListsInv' /\ Others(k) /\ Fresh(k, {})
    BY <1>2, <2>1, OrderSpeedStep
  <2>3. lastSwitch' = lastSwitch /\ now' = now
    BY <2>1 DEF OrderSpeed, Give
  <2> QED BY <2>2, <2>3, AloneAway
<1>3. CASE k \in Trains /\ \E v \in Speeds \cup {OwnSpeed} : OrderReverse(k, v)
  <2>1. PICK v \in Speeds \cup {OwnSpeed} : OrderReverse(k, v)
    BY <1>3
  <2>2. ListsInv' /\ Others(k) /\ Fresh(k, {})
    BY <1>3, <2>1, OrderReverseStep
  <2>3. lastSwitch' = lastSwitch /\ now' = now
    BY <2>1 DEF OrderReverse, Give
  <2> QED BY <2>2, <2>3, AloneAway
<1>4. CASE GetSpeed(k)
  <2>1. ListsInv' /\ Others(k) /\ Fresh(k, {})
    BY <1>4, GetSpeedStep
  <2>2. lastSwitch' = lastSwitch /\ now' = now
    BY <1>4 DEF GetSpeed
  <2> QED BY <2>1, <2>2, AloneAway
<1>5. CASE ReadClock(k)
  BY <1>5, AloneClock
<1>6. CASE SwitchUnlessRecent(k)
  BY <1>6, AloneTest
<1> QED BY <1>1, <1>2, <1>3, <1>4, <1>5, <1>6 DEF Starts

LEMMA PutType == ASSUME TypeInv, ListsInv, NEW k \in Tasks, PutBytes(k) PROVE TypeInv'
<1>1. CASE \E n \in Turnouts, d \in {"straight", "curved"} : NextCall(k) = Put(Turn(n, d))
  BY <1>1, PutTurn
<1>2. CASE \E t \in Trains, v \in Speeds : NextCall(k) = Put(Speed(t, v))
  BY <1>2, PutSpeed
<1>3. CASE \E t \in Trains : NextCall(k) = Put(TurnAround(t))
  BY <1>3, PutReverse
<1> QED BY <1>1, <1>2, <1>3, PutKinds

LEMMA TellType ==
    ASSUME TypeInv, ListsInv, NEW k \in Tasks, TellTurnout(k) \/ TellDirection(k) \/ TellSpeed(k)
    PROVE  TypeInv'
<1>1. CASE TellTurnout(k)
  BY <1>1, TellKinds, TellTurnoutState
<1>2. CASE TellDirection(k)
  BY <1>2, TellKinds, TellDirectionState
<1>3. CASE TellSpeed(k)
  BY <1>3, TellKinds, TellSpeedState
<1> QED BY <1>1, <1>2, <1>3

LEMMA TypeNext == ASSUME TypeInv, ListsInv, [Next]_vars PROVE TypeInv' /\ careful' = careful
<1>1. ASSUME NEW k \in Tasks, Starts(k) PROVE TypeInv' /\ careful' = careful
  BY <1>1, StartsIs DEF Calm
<1>2. ASSUME NEW k \in Tasks, PutBytes(k) PROVE TypeInv' /\ careful' = careful
  BY <1>2, PutType DEF PutBytes
<1>3. ASSUME NEW k \in Tasks, TellTurnout(k) \/ TellDirection(k) \/ TellSpeed(k)
      PROVE  TypeInv' /\ careful' = careful
  BY <1>3, TellType DEF TellTurnout, TellDirection, TellSpeed
<1>4. ASSUME NEW k \in Tasks, WakeUp(k) \/ GetDirection(k) PROVE TypeInv' /\ careful' = careful
  <2>1. Calm /\ lastSwitch' = lastSwitch
    BY <1>4 DEF WakeUp, GetDirection, Calm
  <2> QED BY <2>1, TypeCalm DEF TypeInv, Calm
<1>5. ASSUME NEW t \in Trains, RequestUpdate(t) PROVE TypeInv' /\ careful' = careful
  BY <1>5, RequestState DEF RequestUpdate
<1>6. CASE CoordinatesServerTakes
  BY <1>6, CoordinatesState DEF CoordinatesServerTakes
<1>7. CASE Tick
  BY <1>7 DEF Tick, TypeInv, TickStep
<1>8. CASE UNCHANGED vars
  BY <1>8 DEF vars, TypeInv
<1> QED BY <1>1, <1>2, <1>3, <1>4, <1>5, <1>6, <1>7, <1>8, NextIs

\* The steps in which no task goes on.
LEMMA Elsewhere ==
    ASSUME ListsInv,
           (\E t \in Trains : RequestUpdate(t)) \/ CoordinatesServerTakes \/ Tick \/ UNCHANGED vars
    PROVE  /\ calls' = calls /\ ListsInv' /\ (StartInv => StartInv') /\ KeepsTurns
           /\ actual' = actual /\ lastSwitch' = lastSwitch
<1>1. calls' = calls /\ actual' = actual /\ lastSwitch' = lastSwitch
  BY DEF RequestUpdate, CoordinatesServerTakes, Tick, vars
<1> QED BY <1>1, TurnsSame DEF StartInv, Idle

LEMMA ListsNext ==
    ASSUME TypeInv, ListsInv, StartInv, [Next]_vars PROVE ListsInv' /\ StartInv'
<1>1. ASSUME NEW k \in Tasks, Starts(k) PROVE ListsInv' /\ StartInv'
  BY <1>1, StartsIs, StartNext
<1>2. ASSUME NEW k \in Tasks,
             PutBytes(k) \/ TellTurnout(k) \/ TellDirection(k) \/ TellSpeed(k) \/ WakeUp(k)
      PROVE  ListsInv' /\ StartInv'
  BY <1>2, TailSteps, StartNext
<1>3. ASSUME NEW k \in Tasks, GetDirection(k) PROVE ListsInv' /\ StartInv'
  BY <1>3, GetDirectionStep, StartNext
<1> QED BY <1>1, <1>2, <1>3, Elsewhere, NextIs

LEMMA CrossingNext ==
    ASSUME TypeInv, ListsInv, StartInv, CrossingInv, [Next]_vars PROVE CrossingInv'
<1>1. ListsInv'
  BY ListsNext
<1>2. ASSUME NEW k \in Tasks, Starts(k) PROVE CrossingInv'
  <2>1. KeepsTurns
    BY <1>2, StartsIs, TurnsKept
  <2> QED BY <1>1, <1>2, <2>1, StartsIs, CrossingKept DEF Calm
<1>3. ASSUME NEW k \in Tasks,
             PutBytes(k) \/ TellTurnout(k) \/ TellDirection(k) \/ TellSpeed(k) \/ WakeUp(k),
             \A n, d : NextCall(k) # Put(Turn(n, d)), actual'.turnouts = actual.turnouts
      PROVE  CrossingInv'
  <2>1. Others(k) /\ Advances(k) /\ ~ Idle(k)
    BY <1>3, TailSteps
  <2>2. ToDo(k) \subseteq ToDo(k)' \cup {NextCall(k)}
    BY <1>1, <2>1, Advanced
  <2>3. KeepsTurns
    BY <1>3, <2>1, <2>2, TurnsKept
  <2> QED BY <1>1, <1>3, <2>3, CrossingKept
<1>4. ASSUME NEW k \in Tasks, PutBytes(k) PROVE CrossingInv'
  <2>1. \A t, v, n, d : /\ Put(Speed(t, v)) # Put(Turn(n, d))
                        /\ Put(TurnAround(t)) # Put(Turn(n, d))
    BY DEF Put, Speed, Turn, TurnAround
  <2>2. CASE \E n \in Turnouts, d \in {"straight", "curved"} : NextCall(k) = Put(Turn(n, d))
    BY <1>4, <2>2, CrossingTurn
  <2>3. CASE \E t \in Trains, v \in Speeds : NextCall(k) = Put(Speed(t, v))
    BY <1>3, <1>4, <2>1, <2>3, PutSpeed
  <2>4. CASE \E t \in Trains : NextCall(k) = Put(TurnAround(t))
    BY <1>3, <1>4, <2>1, <2>4, PutReverse
  <2> QED BY <1>4, <2>2, <2>3, <2>4, PutKinds
<1>5. ASSUME NEW k \in Tasks, TellTurnout(k) \/ TellDirection(k) \/ TellSpeed(k) \/ WakeUp(k)
      PROVE  CrossingInv'
  <2>1. NextCall(k).call # "PutBytes" /\ actual' = actual
    BY <1>5 DEF TellTurnout, TellDirection, TellSpeed, WakeUp, Calls
  <2>2. \A n, d : NextCall(k) # Put(Turn(n, d))
    BY <2>1, Distinct
  <2> QED BY <1>3, <1>5, <2>1, <2>2
<1>6. ASSUME NEW k \in Tasks, GetDirection(k) PROVE CrossingInv'
  <2>1. /\ Others(k) /\ ToDo(k) \subseteq ToDo(k)' \cup {NextCall(k)}
        /\ NextCall(k) = AskDirection(k)
    BY <1>6, GetDirectionStep
  <2>2. \A n, d : NextCall(k) # Put(Turn(n, d))
    BY <2>1, Distinct
  <2>3. KeepsTurns
    BY <2>1, <2>2, TurnsKept
  <2>4. actual' = actual
    BY <1>6 DEF GetDirection
  <2> QED BY <1>1, <2>3, <2>4, CrossingKept
<1>7. ASSUME \/ (\E t \in Trains : RequestUpdate(t)) \/ CoordinatesServerTakes \/ Tick
             \/ UNCHANGED vars
      PROVE  CrossingInv'
  BY <1>1, <1>7, Elsewhere, CrossingKept
<1> QED BY <1>2, <1>4, <1>5, <1>6, <1>7, NextIs

LEMMA TestIs ==
    /\ TestInv <=> \A k \in Tasks : \A c : Now(k, c) /\ c.call = "Test" => c.at = now
    /\ TestInv' <=> \A k \in Tasks : \A c : Now(k, c)' /\ c.call = "Test" => c.at = now'
BY DEF TestInv, Now

LEMMA TestNext == ASSUME TypeInv, ListsInv, TestInv, ListsInv', [Next]_vars PROVE TestInv'
<1>1. ASSUME NEW k \in Tasks, Others(k), now' = now,
             \A c : Now(k, c)' /\ c.call = "Test" => c.at = now
      PROVE  TestInv'
  <2>1. \A j \in Tasks : \A c : j # k /\ Now(j, c)' /\ c.call = "Test" => c.at = now
    BY <1>1, OthersStay, TestIs
  <2> QED BY <1>1, <2>1, TestIs
<1>2. ASSUME NEW k \in Tasks, Starts(k) PROVE TestInv'
  BY <1>1, <1>2, StartsIs DEF Calm, Fresh
<1>3. ASSUME NEW k \in Tasks,
             PutBytes(k) \/ TellTurnout(k) \/ TellDirection(k) \/ TellSpeed(k) \/ WakeUp(k)
      PROVE  TestInv'
  <2>1. Others(k) /\ Advances(k) /\ ~ Idle(k)
    BY <1>3, TailSteps
  <2>2. \A c : Now(k, c)' => c.call # "Test"
    BY <2>1, Advanced
  <2>3. now' = now
    BY <1>3 DEF PutBytes, TellTurnout, TellDirection, TellSpeed, WakeUp
  <2> QED BY <1>1, <2>1, <2>2, <2>3
<1>4. ASSUME NEW k \in Tasks, GetDirection(k) PROVE TestInv'
  <2>1. Others(k) /\ \A c : Now(k, c)' => c = Tell(Direction(k, ~ record.trains[k].dir))
    BY <1>4, GetDirectionStep
  <2>2. \A c : Now(k, c)' => c.call # "Test"
    BY <2>1, Distinct
  <2>3. now' = now
    BY <1>4 DEF GetDirection
  <2> QED BY <1>1, <2>1, <2>2, <2>3
<1>5. CASE Tick
  <2>1. \A k \in Tasks : \A c : Now(k, c)' <=> Now(k, c)
    BY <1>5 DEF Tick, Now, Idle, NextCall
  <2>2. \A k \in Tasks : \A c : Now(k, c) => c.call = "Sleeping"
    BY <1>5 DEF Tick, Now, Calls
  <2> QED BY <2>1, <2>2, TestIs
<1>6. ASSUME (\E t \in Trains : RequestUpdate(t)) \/ CoordinatesServerTakes \/ UNCHANGED vars
      PROVE  TestInv'
  <2>1. now' = now /\ calls' = calls
    BY <1>6 DEF RequestUpdate, CoordinatesServerTakes, vars
  <2> QED BY <2>1 DEF TestInv, Idle, NextCall
<1> QED BY <1>2, <1>3, <1>4, <1>5, <1>6, NextIs

LEMMA AloneNext ==
    ASSUME TypeInv, ListsInv, TestInv, AloneInv, careful, ListsInv', [Next]_vars
    PROVE  AloneInv'
<1>1. ASSUME NEW k \in Tasks,
             PutBytes(k) \/ TellTurnout(k) \/ TellDirection(k) \/ TellSpeed(k) \/ WakeUp(k)
      PROVE  AloneInv'
  <2>1. Others(k) /\ Advances(k) /\ ~ Idle(k)
    BY <1>1, TailSteps
  <2>2. PICK S : S = {} /\ ToDo(k)' \subseteq ToDo(k) \cup S
    BY <2>1, Advanced
  <2>3. \A j \in Tasks, n \in Turnouts : /\ Touches(j, n)' => Touches(j, n)
                                         /\ Holds(j, n)' => Holds(j, n)
    BY <2>1, <2>2, TouchesLess
  <2>4. now' = now /\ lastSwitch' = lastSwitch
    BY <1>1 DEF PutBytes, TellTurnout, TellDirection, TellSpeed, WakeUp
  <2> QED BY <2>3, <2>4, AloneKept
<1>2. ASSUME NEW k \in Tasks, GetDirection(k) PROVE AloneInv'
  <2>1. PICK S : /\ Others(k) /\ ToDo(k)' \subseteq ToDo(k) \cup S
                 /\ S = {Tell(Direction(k, ~ record.trains[k].dir))}
    BY <1>2, GetDirectionStep
  <2>2. \A c \in S, n \in Turnouts : ~ AtTurnout(c, n)
    BY <2>1, NoTurnouts
  <2>3. \A j \in Tasks, n \in Turnouts : /\ Touches(j, n)' => Touches(j, n)
                                         /\ Holds(j, n)' => Holds(j, n)
    BY <2>1, <2>2, TouchesLess
  <2>4. now' = now /\ lastSwitch' = lastSwitch
    BY <1>2 DEF GetDirection
  <2> QED BY <2>3, <2>4, AloneKept
<1>3. ASSUME calls' = calls
      PROVE  \A j \in Tasks : \A n : /\ Touches(j, n)' <=> Touches(j, n)
                                     /\ Holds(j, n)' <=> Holds(j, n)
  BY <1>3 DEF Touches, Holds
<1>4. CASE Tick
  <2>1. \A k \in Switchers, n \in Turnouts : ~ Holds(k, n)
    <3>1. \A k \in Tasks : Idle(k) \/ Calls(k, "Sleeping")
      BY <1>4 DEF Tick
    <3> QED BY <3>1, Sleeper DEF Tasks
  <2>2. calls' = calls /\ lastSwitch' = lastSwitch
    BY <1>4 DEF Tick
  <2>3. \A j \in Tasks, n \in Turnouts : Busy(j, n)' <=> Busy(j, n)
    BY <1>3, <2>2 DEF Busy
  <2>4. \A k \in Switchers : k \in Tasks
    BY DEF Tasks
  <2>5. /\ \A n \in Turnouts, j, k \in Tasks :
              j # k /\ Touches(j, n)' /\ Touches(k, n)' =>
                  /\ n \notin DOMAIN Paired /\ j \in Switchers /\ k \in Switchers
                  /\ ~ (Holds(j, n)' /\ Holds(k, n)')
    BY <1>3, <2>2 DEF AloneInv
  <2>6. \A n \in Turnouts \cap DOMAIN Paired, j, k \in Tasks :
              j # k => ~ (Busy(j, n)' /\ Busy(k, n)')
    BY <2>3 DEF AloneInv
  <2>7. \A n \in Turnouts \ DOMAIN Paired, k \in Switchers : ~ Holds(k, n)'
    BY <1>3, <2>1, <2>2, <2>4
  <2> QED BY <2>5, <2>6, <2>7 DEF AloneInv
<1>5. ASSUME (\E t \in Trains : RequestUpdate(t)) \/ CoordinatesServerTakes \/ UNCHANGED vars
      PROVE  AloneInv'
  <2>1. now' = now /\ calls' = calls /\ lastSwitch' = lastSwitch
    BY <1>5 DEF RequestUpdate, CoordinatesServerTakes, vars
  <2> QED BY <1>3, <2>1, AloneKept
<1> QED BY <1>1, <1>2, <1>4, <1>5, AloneStarts, NextIs

----------------------------------------------------------------------------
(* What is recorded of a train. *)

\* The calls between a command to a train and its record.
Records(c, t) ==
    \/ \E v \in Speeds : c = Tell(Speed(t, v))
    \/ c = AskDirection(t)
    \/ \E d \in BOOLEAN : c = Tell(Direction(t, d))

LEMMA RecordsKinds ==
    ASSUME NEW c, NEW t, Records(c, t)
    PROVE  c.call \in {"Send", "GetDirection"} /\ AtTrain(c, t)
BY DEF Records, Tell, AskDirection, Speed, Direction, AtTrain

LEMMA RecordsWhom ==
    ASSUME NEW t \in Trains
    PROVE  /\ \A u \in Trains : \A v :
                 u # t => /\ ~ Records(Tell(Speed(u, v)), t) /\ ~ Records(AskDirection(u), t)
                          /\ ~ Records(Tell(Direction(u, v)), t)
           /\ \A n, d : ~ Records(Tell(Turn(n, d)), t)
           /\ \A c : ~ Records(Put(c), t)
BY DEF Records, Tell, Put, AskDirection, Speed, Direction, Turn

LEMMA TrainSame ==
    ASSUME NEW t \in Trains, TrainRight(t), NEW k \in Tasks, Others(k),
           actual'.trains[t].speed = actual.trains[t].speed,
           actual'.trains[t].dir = actual.trains[t].dir,
           record'.trains[t] = record.trains[t],
           \A c : Now(k, c) => ~ Records(c, t),
           \A c : Now(k, c)' => ~ Records(c, t)
    PROVE  TrainRight(t)'
<1>1. \A j \in Tasks : \A c : Records(c, t) => (Now(j, c)' <=> Now(j, c))
  BY OthersStay
<1>2. t \in Tasks
  BY DEF Tasks
<1>3. \A v \in Speeds : Records(Tell(Speed(t, v)), t)
  BY DEF Records
<1>4. Records(AskDirection(t), t) /\ \A d \in BOOLEAN : Records(Tell(Direction(t, d)), t)
  BY DEF Records
<1>5. ASSUME NEW j \in Tasks, NEW v \in Speeds
      PROVE  Now(j, Tell(Speed(t, v)))' <=> Now(j, Tell(Speed(t, v)))
  BY <1>1, <1>3
<1>6. /\ Now(t, AskDirection(t))' <=> Now(t, AskDirection(t))
      /\ \A d \in BOOLEAN : Now(t, Tell(Direction(t, d)))' <=> Now(t, Tell(Direction(t, d)))
  BY <1>1, <1>2, <1>4
<1>7. /\ \A j \in Tasks, v \in Speeds : Now(j, Tell(Speed(t, v)))' => v = actual'.trains[t].speed
      /\ \/ record'.trains[t].speed = actual'.trains[t].speed
         \/ \E j \in Tasks, v \in Speeds : Now(j, Tell(Speed(t, v)))'
  BY <1>5 DEF TrainRight
<1>8. /\ \A d \in BOOLEAN : Now(t, Tell(Direction(t, d)))' => d = actual'.trains[t].dir
      /\ (record'.trains[t].dir # actual'.trains[t].dir) <=>
            \/ Now(t, AskDirection(t))'
            \/ \E d \in BOOLEAN : Now(t, Tell(Direction(t, d)))'
  BY <1>6 DEF TrainRight
<1> QED BY <1>7, <1>8 DEF TrainRight

\* Nobody else is about to record what this train does.
LEMMA NoOther ==
    ASSUME ListsInv, StartInv, NEW t \in Trains, NEW k \in Tasks, NEW e \in ToDo(k), AtTrain(e, t),
           NEW j \in Tasks, j # k, NEW c, Now(j, c)
    PROVE  ~ Records(c, t)
<1> SUFFICES ASSUME Records(c, t) PROVE FALSE
  OBVIOUS
<1>1. c.call \in {"Send", "GetDirection"} /\ AtTrain(c, t) /\ ~ Waits(c)
  BY RecordsKinds, NotWaiting
<1>2. c \in ToDo(j)
  BY <1>1, ToDoFacts DEF Now
<1> QED BY <1>1, <1>2, OneDriver

LEMMA TrainSpeed ==
    ASSUME TypeInv, ListsInv, StartInv, NEW k \in Tasks, PutBytes(k), ListsInv',
           NEW t \in Trains, NEW v \in Speeds, NextCall(k) = Put(Speed(t, v)), TrainRight(t)
    PROVE  TrainRight(t)'
<1>1. /\ actual'.trains[t].speed = v /\ actual'.trains[t].dir = actual.trains[t].dir
      /\ record' = record
  BY PutSpeed, ZenonT(60) DEF PutBytes
<1>2. Others(k) /\ Advances(k) /\ ~ Idle(k) /\ NextCall(k) \in ToDo(k)
  BY TailSteps, PutKinds
<1>3. AtTrain(NextCall(k), t) /\ NextCall(k).call = "PutBytes"
      /\ After(NextCall(k).cmd) = Tell(Speed(t, v))
  BY DEF AtTrain, Put, Tell, Speed, After
<1>4. \A c : Now(k, c)' <=> c = Tell(Speed(t, v))
  <2>1. Now(k, Tell(Speed(t, v)))'
    BY <1>2, <1>3, Advanced
  <2> QED BY <2>1 DEF Now
<1>5. \A j \in Tasks : \A c : Now(j, c) => ~ Records(c, t)
  <2>1. \A c : Now(k, c) => ~ Records(c, t)
    BY RecordsWhom DEF Now
  <2> QED BY <1>2, <1>3, <2>1, NoOther
<1>6. \A j \in Tasks : \A c : Now(j, c)' /\ Records(c, t) => j = k /\ c = Tell(Speed(t, v))
  BY <1>2, <1>4, <1>5, OthersStay
<1>7. t \in Tasks
  BY DEF Tasks
<1>8. /\ Records(AskDirection(t), t) /\ \A d \in BOOLEAN : Records(Tell(Direction(t, d)), t)
      /\ \A w \in Speeds : Records(Tell(Speed(t, w)), t)
      /\ AskDirection(t) # Tell(Speed(t, v)) /\ \A d : Tell(Direction(t, d)) # Tell(Speed(t, v))
      /\ \A w : Tell(Speed(t, w)) = Tell(Speed(t, v)) => w = v
  BY DEF Records, AskDirection, Tell, Direction, Speed
<1>9. /\ ~ Now(t, AskDirection(t))' /\ \A d \in BOOLEAN : ~ Now(t, Tell(Direction(t, d)))'
      /\ ~ Now(t, AskDirection(t)) /\ \A d \in BOOLEAN : ~ Now(t, Tell(Direction(t, d)))
  BY <1>5, <1>6, <1>7, <1>8
<1>10. /\ \A j \in Tasks, w \in Speeds : Now(j, Tell(Speed(t, w)))' => w = v
       /\ \E j \in Tasks, w \in Speeds : Now(j, Tell(Speed(t, w)))'
  BY <1>4, <1>6, <1>8
<1> QED BY <1>1, <1>9, <1>10 DEF TrainRight

LEMMA TrainReverse ==
    ASSUME TypeInv, ListsInv, StartInv, NEW t \in Trains, PutBytes(t), ListsInv',
           NextCall(t) = Put(TurnAround(t)), TrainRight(t)
    PROVE  TrainRight(t)'
<1>1. /\ actual'.trains[t].speed = actual.trains[t].speed
      /\ actual'.trains[t].dir = ~ actual.trains[t].dir /\ record' = record
  BY PutReverse DEF PutBytes
<1>2. t \in Tasks
  BY DEF Tasks
<1>3. Others(t) /\ Advances(t) /\ ~ Idle(t) /\ NextCall(t) \in ToDo(t)
  BY <1>2, TailSteps, PutKinds
<1>4. /\ AtTrain(NextCall(t), t) /\ NextCall(t).call = "PutBytes"
      /\ After(NextCall(t).cmd) = AskDirection(t)
  BY DEF AtTrain, Put, TurnAround, After
<1>5. \A c : Now(t, c)' <=> c = AskDirection(t)
  <2>1. Now(t, AskDirection(t))'
    BY <1>2, <1>3, <1>4, Advanced
  <2> QED BY <2>1 DEF Now
<1>6. \A j \in Tasks : \A c : Now(j, c) => ~ Records(c, t)
  <2>1. \A c : Now(t, c) => ~ Records(c, t)
    BY RecordsWhom DEF Now
  <2> QED BY <1>2, <1>3, <1>4, <2>1, NoOther
<1>7. \A j \in Tasks : \A c : Now(j, c)' /\ Records(c, t) => j = t /\ c = AskDirection(t)
  BY <1>2, <1>3, <1>5, <1>6, OthersStay
<1>8. /\ Records(AskDirection(t), t) /\ \A d \in BOOLEAN : Records(Tell(Direction(t, d)), t)
      /\ \A w \in Speeds : Records(Tell(Speed(t, w)), t)
      /\ \A c : Tell(c) # AskDirection(t)
  BY DEF Records, AskDirection, Tell
<1>9. /\ Now(t, AskDirection(t))' /\ \A d \in BOOLEAN : ~ Now(t, Tell(Direction(t, d)))'
      /\ ~ Now(t, AskDirection(t)) /\ \A d \in BOOLEAN : ~ Now(t, Tell(Direction(t, d)))
  BY <1>2, <1>5, <1>6, <1>8
<1>10. /\ \A j \in Tasks, w \in Speeds : ~ Now(j, Tell(Speed(t, w)))'
       /\ \A j \in Tasks, w \in Speeds : ~ Now(j, Tell(Speed(t, w)))
  BY <1>6, <1>7, <1>8
<1>11. actual.trains[t].dir \in BOOLEAN
  BY DEF TypeInv, TrainState
<1> QED BY <1>1, <1>9, <1>10, <1>11 DEF TrainRight

LEMMA TrainTold ==
    ASSUME TypeInv, ListsInv, ListsInv', NEW t \in Trains, TellDirection(t), TrainRight(t)
    PROVE  TrainRight(t)'
<1>1. t \in Tasks
  BY DEF Tasks
<1>2. PICK d \in BOOLEAN : NextCall(t) = Tell(Direction(t, d))
  BY <1>1, TellKinds
<1>3. /\ record'.trains[t].speed = record.trains[t].speed /\ record'.trains[t].dir = d
      /\ actual' = actual
  BY <1>2, TellDirectionState DEF TellDirection
<1>4. Others(t) /\ Advances(t) /\ ~ Idle(t)
  BY <1>1, TailSteps
<1>5. NextCall(t).call # "PutBytes"
  BY <1>2, Distinct
<1>6. \A c : Now(t, c)' => ~ Records(c, t)
  BY <1>1, <1>4, <1>5, Advanced, RecordsKinds
<1>7. d = actual.trains[t].dir
  BY <1>2, <1>4 DEF TrainRight, Now
<1>8. /\ Records(AskDirection(t), t) /\ \A e \in BOOLEAN : Records(Tell(Direction(t, e)), t)
      /\ \A w \in Speeds : Records(Tell(Speed(t, w)), t)
      /\ \A w : Tell(Speed(t, w)) # Tell(Direction(t, d))
  BY DEF Records, AskDirection, Tell, Speed, Direction
<1>9. ~ Now(t, AskDirection(t))' /\ \A e \in BOOLEAN : ~ Now(t, Tell(Direction(t, e)))'
  BY <1>6, <1>8
<1>10. ASSUME NEW j \in Tasks, NEW w \in Speeds
       PROVE  Now(j, Tell(Speed(t, w)))' <=> Now(j, Tell(Speed(t, w)))
  <2>1. CASE j = t
    <3>1. ~ Now(t, Tell(Speed(t, w)))
      BY <1>2, <1>8 DEF Now
    <3> QED BY <1>6, <1>8, <2>1, <3>1
  <2>2. CASE j # t
    BY <1>4, <2>2, OthersStay
  <2> QED BY <2>1, <2>2
<1> QED BY <1>3, <1>7, <1>9, <1>10 DEF TrainRight

LEMMA TrainSpeedTold ==
    ASSUME TypeInv, ListsInv, ListsInv', NEW k \in Tasks, TellSpeed(k),
           NEW t \in Trains, NEW v \in Speeds, NextCall(k) = Tell(Speed(t, v)), TrainRight(t)
    PROVE  TrainRight(t)'
<1>1. /\ record'.trains[t].speed = v /\ record'.trains[t].dir = record.trains[t].dir
      /\ actual' = actual
  BY TellSpeedState, ZenonT(60) DEF TellSpeed
<1>2. Others(k) /\ Advances(k) /\ ~ Idle(k)
  BY TailSteps
<1>3. NextCall(k).call # "PutBytes"
  BY Distinct
<1>4. \A c : Now(k, c)' => ~ Records(c, t)
  BY <1>2, <1>3, Advanced, RecordsKinds
<1>5. v = actual.trains[t].speed
  BY <1>2 DEF TrainRight, Now
<1>6. /\ Records(AskDirection(t), t) /\ \A e \in BOOLEAN : Records(Tell(Direction(t, e)), t)
      /\ \A w \in Speeds : Records(Tell(Speed(t, w)), t)
      /\ AskDirection(t) # Tell(Speed(t, v)) /\ \A d : Tell(Direction(t, d)) # Tell(Speed(t, v))
  BY DEF Records, AskDirection, Tell, Speed, Direction
<1>7. \A j \in Tasks, w \in Speeds : Now(j, Tell(Speed(t, w)))' => w = actual.trains[t].speed
  <2> SUFFICES ASSUME NEW j \in Tasks, NEW w \in Speeds, Now(j, Tell(Speed(t, w)))'
               PROVE  w = actual.trains[t].speed
    OBVIOUS
  <2>1. j # k
    BY <1>4, <1>6
  <2>2. Now(j, Tell(Speed(t, w)))
    BY <1>2, <2>1, OthersStay
  <2> QED BY <2>2 DEF TrainRight
<1>8. ASSUME NEW c \in {AskDirection(t), Tell(Direction(t, TRUE)), Tell(Direction(t, FALSE))}
      PROVE  Now(t, c)' <=> Now(t, c)
  <2>1. Records(c, t) /\ c # Tell(Speed(t, v)) /\ t \in Tasks
    BY <1>6 DEF Tasks
  <2>2. CASE t = k
    <3>1. ~ Now(t, c)
      BY <2>1, <2>2 DEF Now
    <3> QED BY <1>4, <2>1, <2>2, <3>1
  <2>3. CASE t # k
    BY <1>2, <2>1, <2>3, OthersStay
  <2> QED BY <2>2, <2>3
<1>9. /\ Now(t, AskDirection(t))' <=> Now(t, AskDirection(t))
      /\ \A d \in BOOLEAN : Now(t, Tell(Direction(t, d)))' <=> Now(t, Tell(Direction(t, d)))
  <2>1. \A d \in BOOLEAN : Now(t, Tell(Direction(t, d)))' <=> Now(t, Tell(Direction(t, d)))
    <3>1. ASSUME NEW d \in BOOLEAN
          PROVE  Now(t, Tell(Direction(t, d)))' <=> Now(t, Tell(Direction(t, d)))
      <4>1. d = TRUE \/ d = FALSE
        OBVIOUS
      <4> QED BY <1>8, <4>1
    <3> QED BY <3>1
  <2> QED BY <1>8, <2>1
<1> QED BY <1>1, <1>5, <1>7, <1>9 DEF TrainRight

LEMMA TrainAnswer ==
    ASSUME TypeInv, ListsInv, ListsInv', NEW t \in Trains, GetDirection(t), TrainRight(t)
    PROVE  TrainRight(t)'
<1>1. t \in Tasks
  BY DEF Tasks
<1>2. PICK d \in BOOLEAN : d = ~ record.trains[t].dir
  BY DEF TypeInv, TrainRecord
<1>3. /\ Others(t) /\ ~ Idle(t) /\ NextCall(t) = AskDirection(t)
      /\ \A c : Now(t, c)' <=> c = Tell(Direction(t, d))
  BY <1>1, <1>2, GetDirectionStep
<1>4. actual' = actual /\ record' = record
  BY DEF GetDirection
<1>5. Now(t, AskDirection(t))
  BY <1>3 DEF Now
<1>6. record.trains[t].dir # actual.trains[t].dir /\ d = actual.trains[t].dir
  <2>1. record.trains[t].dir # actual.trains[t].dir
    BY <1>5 DEF TrainRight
  <2>2. record.trains[t].dir \in BOOLEAN /\ actual.trains[t].dir \in BOOLEAN
    BY DEF TypeInv, TrainRecord, TrainState
  <2> QED BY <1>2, <2>1, <2>2
<1>7. /\ \A w : Tell(Speed(t, w)) # Tell(Direction(t, d)) /\ Tell(Speed(t, w)) # AskDirection(t)
      /\ \A e : Tell(Direction(t, e)) = Tell(Direction(t, d)) => e = d
  BY DEF Tell, AskDirection, Speed, Direction
<1>8. \A j \in Tasks, w \in Speeds : Now(j, Tell(Speed(t, w)))' <=> Now(j, Tell(Speed(t, w)))
  <2>1. \A w : ~ Now(t, Tell(Speed(t, w)))' /\ ~ Now(t, Tell(Speed(t, w)))
    BY <1>3, <1>7 DEF Now
  <2> QED BY <1>3, <2>1, OthersStay
<1>9. /\ Now(t, Tell(Direction(t, d)))'
      /\ \A e \in BOOLEAN : Now(t, Tell(Direction(t, e)))' => e = d
  BY <1>3, <1>7
<1> QED BY <1>4, <1>6, <1>8, <1>9 DEF TrainRight

LEMMA TrainNext ==
    ASSUME TypeInv, ListsInv, StartInv, TrainInv, ListsInv', [Next]_vars PROVE TrainInv'
<1> SUFFICES ASSUME NEW t \in Trains PROVE TrainRight(t)'
  BY DEF TrainInv
<1>t. TrainRight(t)
  BY DEF TrainInv
<1>1. ASSUME NEW k \in Tasks, Starts(k) PROVE TrainRight(t)'
  <2>1. Others(k) /\ Calm /\ \E T : Fresh(k, T)
    BY <1>1, StartsIs
  <2>2. \A c : Now(k, c) => ~ Records(c, t)
    BY <2>1, RecordsKinds DEF Fresh
  <2>3. \A c : Now(k, c)' => ~ Records(c, t)
    BY <2>1, RecordsKinds DEF Fresh
  <2> QED BY <1>t, <2>1, <2>2, <2>3, TrainSame DEF Calm
<1>2. ASSUME NEW k \in Tasks, PutBytes(k) PROVE TrainRight(t)'
  <2>1. Others(k) /\ Advances(k) /\ ~ Idle(k) /\ record' = record
    BY <1>2, TailSteps DEF PutBytes
  <2>2. NextCall(k).call = "PutBytes"
    BY <1>2, PutKinds
  <2>3. \A c : Now(k, c)' => c = After(NextCall(k).cmd)
    BY <2>1, <2>2, Advanced DEF Now
  <2>4. CASE \E n \in Turnouts, d \in {"straight", "curved"} : NextCall(k) = Put(Turn(n, d))
    <3>1. PICK n \in Turnouts, d \in {"straight", "curved"} : NextCall(k) = Put(Turn(n, d))
      BY <2>4
    <3>2. After(NextCall(k).cmd) = Tell(Turn(n, d))
      BY <3>1 DEF After, Put, Turn
    <3>3. actual'.trains = actual.trains
      BY <1>2, <3>1, PutTurn
    <3>4. \A c : Now(k, c) \/ Now(k, c)' => ~ Records(c, t)
      BY <2>3, <3>1, <3>2, RecordsWhom DEF Now
    <3> QED BY <1>t, <2>1, <3>3, <3>4, TrainSame
  <2>5. CASE \E u \in Trains, v \in Speeds : NextCall(k) = Put(Speed(u, v))
    <3>1. PICK u \in Trains, v \in Speeds : NextCall(k) = Put(Speed(u, v))
      BY <2>5
    <3>2. CASE u = t
      BY <1>t, <1>2, <3>1, <3>2, TrainSpeed
    <3>3. CASE u # t
      <4>1. After(NextCall(k).cmd) = Tell(Speed(u, v))
        BY <3>1 DEF After, Put, Speed
      <4>2. actual'.trains[t] = actual.trains[t]
        BY <1>2, <3>1, <3>3, PutSpeed
      <4>3. \A c : Now(k, c) \/ Now(k, c)' => ~ Records(c, t)
        BY <2>3, <3>1, <3>3, <4>1, RecordsWhom DEF Now
      <4> QED BY <1>t, <2>1, <4>2, <4>3, TrainSame
    <3> QED BY <3>2, <3>3
  <2>6. CASE \E u \in Trains : NextCall(k) = Put(TurnAround(u)) /\ k = u
    <3>1. CASE k = t
      BY <1>t, <1>2, <2>6, <3>1, TrainReverse
    <3>2. CASE k # t
      <4>1. k \in Trains /\ After(NextCall(k).cmd) = AskDirection(k)
        BY <2>6 DEF After, Put, TurnAround
      <4>2. actual'.trains[t] = actual.trains[t]
        BY <1>2, <2>6, <3>2, PutReverse
      <4>3. \A c : Now(k, c) \/ Now(k, c)' => ~ Records(c, t)
        BY <2>3, <2>6, <3>2, <4>1, RecordsWhom DEF Now
      <4> QED BY <1>t, <2>1, <4>2, <4>3, TrainSame
    <3> QED BY <3>1, <3>2
  <2> QED BY <1>2, <2>4, <2>5, <2>6, PutKinds
<1>3. ASSUME NEW k \in Tasks, TellTurnout(k) \/ TellDirection(k) \/ TellSpeed(k) \/ WakeUp(k),
             \A c : Now(k, c) => ~ Records(c, t), record'.trains[t] = record.trains[t]
      PROVE  TrainRight(t)'
  <2>1. Others(k) /\ Advances(k) /\ ~ Idle(k)
    BY <1>3, TailSteps
  <2>2. NextCall(k).call # "PutBytes" /\ actual' = actual
    BY <1>3 DEF TellTurnout, TellDirection, TellSpeed, WakeUp, Calls
  <2>3. \A c : Now(k, c)' => ~ Records(c, t)
    BY <2>1, <2>2, Advanced, RecordsKinds
  <2> QED BY <1>t, <1>3, <2>1, <2>2, <2>3, TrainSame
<1>4. ASSUME NEW k \in Tasks, TellTurnout(k) PROVE TrainRight(t)'
  <2>1. PICK n \in Turnouts, d \in {"straight", "curved"} : NextCall(k) = Tell(Turn(n, d))
    BY <1>4, TellKinds
  <2>2. record'.trains = record.trains
    BY <1>4, <2>1, TellTurnoutState
  <2> QED BY <1>3, <1>4, <2>1, <2>2, RecordsWhom DEF Now
<1>5. ASSUME NEW k \in Tasks, TellDirection(k) PROVE TrainRight(t)'
  <2>1. k \in Trains /\ \E d \in BOOLEAN : NextCall(k) = Tell(Direction(k, d))
    BY <1>5, TellKinds
  <2>2. CASE k = t
    BY <1>t, <1>5, <2>2, TrainTold
  <2>3. CASE k # t
    <3>1. record'.trains[t] = record.trains[t]
      BY <1>5, <2>1, <2>3, TellDirectionState
    <3>2. \A c : Now(k, c) => ~ Records(c, t)
      BY <2>1, <2>3, RecordsWhom DEF Now
    <3> QED BY <1>3, <1>5, <3>1, <3>2
  <2> QED BY <2>2, <2>3
<1>6. ASSUME NEW k \in Tasks, TellSpeed(k) PROVE TrainRight(t)'
  <2>1. PICK u \in Trains, v \in Speeds : NextCall(k) = Tell(Speed(u, v))
    BY <1>6, TellKinds
  <2>2. CASE u = t
    BY <1>t, <1>6, <2>1, <2>2, TrainSpeedTold
  <2>3. CASE u # t
    <3>1. record'.trains[t] = record.trains[t]
      BY <1>6, <2>1, <2>3, TellSpeedState
    <3>2. \A c : Now(k, c) => ~ Records(c, t)
      BY <2>1, <2>3, RecordsWhom DEF Now
    <3> QED BY <1>3, <1>6, <3>1, <3>2
  <2> QED BY <2>2, <2>3
<1>7. ASSUME NEW k \in Tasks, WakeUp(k) PROVE TrainRight(t)'
  <2>1. \A c : Now(k, c) => c.call = "Sleeping"
    BY <1>7 DEF WakeUp, Calls, Now
  <2>2. \A c : Now(k, c) => ~ Records(c, t)
    BY <2>1, RecordsKinds
  <2> QED BY <1>3, <1>7, <2>2 DEF WakeUp
<1>8. ASSUME NEW k \in Tasks, GetDirection(k) PROVE TrainRight(t)'
  <2>1. CASE k = t
    BY <1>t, <1>8, <2>1, TrainAnswer
  <2>2. CASE k # t
    <3>1. /\ Others(k) /\ k \in Trains /\ NextCall(k) = AskDirection(k)
          /\ \A c : Now(k, c)' => c = Tell(Direction(k, ~ record.trains[k].dir))
      BY <1>8, GetDirectionStep
    <3>2. \A c : Now(k, c) \/ Now(k, c)' => ~ Records(c, t)
      BY <2>2, <3>1, RecordsWhom DEF Now
    <3>3. actual' = actual /\ record' = record
      BY <1>8 DEF GetDirection
    <3> QED BY <1>t, <3>1, <3>2, <3>3, TrainSame
  <2> QED BY <2>1, <2>2
<1>9. ASSUME \/ (\E u \in Trains : RequestUpdate(u)) \/ CoordinatesServerTakes \/ Tick
             \/ UNCHANGED vars
      PROVE  TrainRight(t)'
  <2>1. calls' = calls /\ actual' = actual /\ record' = record
    BY <1>9 DEF RequestUpdate, CoordinatesServerTakes, Tick, vars
  <2> QED BY <1>t, <2>1 DEF TrainRight, Now, Idle, NextCall
<1> QED BY <1>1, <1>2, <1>4, <1>5, <1>6, <1>7, <1>8, <1>9, NextIs

----------------------------------------------------------------------------
(* What is recorded of a turnout. *)

Lie == {"straight", "curved"}

\* In terms of the calls to be made.
LEMMA TurnIs ==
    ASSUME ListsInv, NEW n \in Turnouts
    PROVE  TurnRight(n) <=>
              /\ \A k \in Tasks, d \in Lie : Now(k, Tell(Turn(n, d))) => d = actual.turnouts[n]
              /\ \/ record.turnouts[n] = actual.turnouts[n]
                 \/ \E k \in Tasks, d \in Lie : Now(k, Tell(Turn(n, d)))
                 \/ \E d \in Lie : Put(Turn(n, d)) \in ToDo("turnout_resetter")
<1>1. "turnout_resetter" \in Tasks
  BY DEF Tasks, Resetters
<1>2. ASSUME NEW d \in Lie
      PROVE  (\E i \in DOMAIN calls["turnout_resetter"] :
                  calls["turnout_resetter"][i] = Put(Turn(n, d)))
             <=> Put(Turn(n, d)) \in ToDo("turnout_resetter")
  <2>1. Put(Turn(n, d)) \in Call /\ ~ Waits(Put(Turn(n, d)))
    BY CallsMade, NotWaiting DEF Lie
  <2> QED BY <1>1, <2>1, ToDoFacts
<1> QED BY <1>2 DEF TurnRight, Lie

LEMMA TurnNow ==
    ASSUME NEW n \in Turnouts
    PROVE  ListsInv' =>
              (TurnRight(n) <=>
                  /\ \A k \in Tasks, d \in Lie :
                        Now(k, Tell(Turn(n, d))) => d = actual.turnouts[n]
                  /\ \/ record.turnouts[n] = actual.turnouts[n]
                     \/ \E k \in Tasks, d \in Lie : Now(k, Tell(Turn(n, d)))
                     \/ \E d \in Lie : Put(Turn(n, d)) \in ToDo("turnout_resetter"))'
<1>1. ListsInv => (TurnRight(n) <=>
                      /\ \A k \in Tasks, d \in Lie :
                            Now(k, Tell(Turn(n, d))) => d = actual.turnouts[n]
                      /\ \/ record.turnouts[n] = actual.turnouts[n]
                         \/ \E k \in Tasks, d \in Lie : Now(k, Tell(Turn(n, d)))
                         \/ \E d \in Lie : Put(Turn(n, d)) \in ToDo("turnout_resetter"))
  BY TurnIs
<1> QED BY <1>1, PTL

LEMMA TurnSame ==
    ASSUME ListsInv, ListsInv', NEW n \in Turnouts, TurnRight(n), NEW k \in Tasks, Others(k),
           actual'.turnouts[n] = actual.turnouts[n], record'.turnouts[n] = record.turnouts[n],
           \A d : Put(Turn(n, d)) \in ToDo(k) => Put(Turn(n, d)) \in ToDo(k)',
           \A c, d : Now(k, c) \/ Now(k, c)' => c # Tell(Turn(n, d))
    PROVE  TurnRight(n)'
<1>1. ASSUME NEW j \in Tasks, NEW d \in Lie
      PROVE  Now(j, Tell(Turn(n, d)))' <=> Now(j, Tell(Turn(n, d)))
  <2>1. CASE j = k
    BY <2>1
  <2>2. CASE j # k
    BY <2>2, OthersStay
  <2> QED BY <2>1, <2>2
<1>2. \A d \in Lie : Put(Turn(n, d)) \in ToDo("turnout_resetter") =>
                        Put(Turn(n, d)) \in ToDo("turnout_resetter")'
  <2>1. "turnout_resetter" \in Tasks
    BY DEF Tasks, Resetters
  <2>2. CASE k = "turnout_resetter"
    BY <2>2
  <2>3. CASE k # "turnout_resetter"
    BY <2>1, <2>3, OthersStay
  <2> QED BY <2>2, <2>3
<1>3. /\ \A j \in Tasks, d \in Lie : Now(j, Tell(Turn(n, d))) => d = actual.turnouts[n]
      /\ \/ record.turnouts[n] = actual.turnouts[n]
         \/ \E j \in Tasks, d \in Lie : Now(j, Tell(Turn(n, d)))
         \/ \E d \in Lie : Put(Turn(n, d)) \in ToDo("turnout_resetter")
  BY TurnIs
<1>4. /\ \A j \in Tasks, d \in Lie : Now(j, Tell(Turn(n, d)))' => d = actual'.turnouts[n]
      /\ \/ record'.turnouts[n] = actual'.turnouts[n]
         \/ \E j \in Tasks, d \in Lie : Now(j, Tell(Turn(n, d)))'
         \/ \E d \in Lie : Put(Turn(n, d)) \in ToDo("turnout_resetter")'
  BY <1>1, <1>2, <1>3
<1> QED BY <1>4, TurnNow

LEMMA TurnPut ==
    ASSUME TypeInv, ListsInv, ListsInv', AloneInv, NEW n \in Turnouts, NEW k \in Tasks, PutBytes(k),
           NEW d \in Lie, NextCall(k) = Put(Turn(n, d))
    PROVE  TurnRight(n)'
<1>1. Others(k) /\ Advances(k) /\ ~ Idle(k) /\ NextCall(k) \in ToDo(k)
  BY TailSteps, PutKinds
<1>2. actual'.turnouts[n] = d
  <2>1. d \in {"straight", "curved"}
    BY DEF Lie
  <2>2. actual'.turnouts = [actual.turnouts EXCEPT ![n] = d]
    BY <2>1, PutTurn, ZenonT(60)
  <2>3. actual.turnouts \in [Turnouts -> {"straight", "curved"}]
    BY DEF TypeInv
  <2> QED BY <2>2, <2>3
<1>3. After(NextCall(k).cmd) = Tell(Turn(n, d)) /\ NextCall(k).call = "PutBytes"
      /\ Sets(NextCall(k), n)
  BY DEF After, Put, Turn, Tell, Sets
<1>4. Now(k, Tell(Turn(n, d)))'
  BY <1>1, <1>3, Advanced
<1>5. ASSUME NEW j \in Tasks, NEW e \in Lie, Now(j, Tell(Turn(n, e)))'
      PROVE  e = d
  <2>1. CASE j = k
    <3>1. Tell(Turn(n, e)) = Tell(Turn(n, d))
      BY <1>4, <1>5, <2>1 DEF Now
    <3> QED BY <3>1, Distinct
  <2>2. CASE j # k
    <3>1. Now(j, Tell(Turn(n, e)))
      BY <1>1, <1>5, <2>2, OthersStay
    <3>2. Tell(Turn(n, e)) \in ToDo(j)
      BY <3>1, ToDoFacts, NotWaiting DEF Now
    <3>3. Sets(Tell(Turn(n, e)), n)
      BY DEF Tell, Turn, Sets
    <3>4. Holds(j, n) /\ Holds(k, n)
      BY <1>1, <1>3, <3>2, <3>3, ToDoFacts
    <3>5. Touches(j, n) /\ Touches(k, n)
      BY <3>4, SetsTouches
    <3> QED BY <2>2, <3>4, <3>5 DEF AloneInv
  <2> QED BY <2>1, <2>2
<1> QED BY <1>2, <1>4, <1>5, TurnNow

LEMMA TurnTold ==
    ASSUME TypeInv, ListsInv, ListsInv', NEW n \in Turnouts, TurnRight(n), NEW k \in Tasks,
           TellTurnout(k), NEW d \in Lie, NextCall(k) = Tell(Turn(n, d))
    PROVE  TurnRight(n)'
<1>1. Others(k) /\ Advances(k) /\ ~ Idle(k)
  BY TailSteps
<1>2. record'.turnouts[n] = d /\ actual' = actual
  <2>1. d \in {"straight", "curved"} /\ actual' = actual
    BY DEF Lie, TellTurnout
  <2> QED BY <2>1, TellTurnoutState
<1>3. d = actual.turnouts[n]
  BY <1>1 DEF TurnRight, Now, Lie
<1>4. ASSUME NEW j \in Tasks, NEW e \in Lie, Now(j, Tell(Turn(n, e)))'
      PROVE  e = actual'.turnouts[n]
  <2>1. CASE j = k
    <3>1. NextCall(k).call # "PutBytes" /\ Tell(Turn(n, e)).call = "Send"
      BY Distinct
    <3> QED BY <1>1, <1>4, <2>1, <3>1, Advanced
  <2>2. CASE j # k
    <3>1. Now(j, Tell(Turn(n, e)))
      BY <1>1, <1>4, <2>2, OthersStay
    <3> QED BY <1>2, <3>1 DEF TurnRight, Lie
  <2> QED BY <2>1, <2>2
<1> QED BY <1>2, <1>3, <1>4, TurnNow

\* Calls other than those at this turnout.
LEMMA TurnOther ==
    ASSUME NEW n
    PROVE  /\ \A m, d, e : m # n => Tell(Turn(m, d)) # Tell(Turn(n, e))
           /\ \A m, d, e : m # n => Put(Turn(m, d)) # Put(Turn(n, e))
           /\ \A t, v, e : /\ Tell(Speed(t, v)) # Tell(Turn(n, e))
                           /\ Tell(Direction(t, v)) # Tell(Turn(n, e))
                           /\ AskDirection(t) # Tell(Turn(n, e))
           /\ \A c, e : Put(c) # Tell(Turn(n, e))
           /\ \A t, v, e : /\ Put(Speed(t, v)) # Put(Turn(n, e))
                           /\ Put(TurnAround(t)) # Put(Turn(n, e))
           /\ \A c, e : c.call # "Send" => c # Tell(Turn(n, e))
           /\ \A c, e : c.call # "PutBytes" => c # Put(Turn(n, e))
BY DEF Tell, Put, Turn, Speed, Direction, AskDirection, TurnAround

LEMMA TurnNext ==
    ASSUME TypeInv, ListsInv, AloneInv, TurnoutInv, ListsInv', [Next]_vars PROVE TurnoutInv'
<1> SUFFICES ASSUME NEW n \in Turnouts PROVE TurnRight(n)'
  BY DEF TurnoutInv
<1>t. TurnRight(n)
  BY DEF TurnoutInv
<1>1. ASSUME NEW k \in Tasks, Starts(k) PROVE TurnRight(n)'
  <2>1. Others(k) /\ Calm /\ \E T : Fresh(k, T)
    BY <1>1, StartsIs
  <2>2. \A c, d : Now(k, c) \/ Now(k, c)' => c # Tell(Turn(n, d))
    BY <2>1, TurnOther DEF Fresh
  <2>3. \A d : Put(Turn(n, d)) \notin ToDo(k)
    BY <2>1, TurnOther DEF Fresh
  <2> QED BY <1>t, <2>1, <2>2, <2>3, TurnSame DEF Calm
<1>2. ASSUME NEW k \in Tasks, PutBytes(k) PROVE TurnRight(n)'
  <2>1. /\ Others(k) /\ Advances(k) /\ ~ Idle(k) /\ record' = record
        /\ NextCall(k).call = "PutBytes"
    BY <1>2, TailSteps, PutKinds DEF PutBytes
  <2>2. \A c : Now(k, c)' => c = After(NextCall(k).cmd)
    BY <2>1, Advanced DEF Now
  <2>3. ToDo(k) \subseteq ToDo(k)' \cup {NextCall(k)}
    BY <2>1, Advanced
  <2>4. CASE \E m \in Turnouts, d \in {"straight", "curved"} : NextCall(k) = Put(Turn(m, d))
    <3>1. PICK m \in Turnouts, d \in Lie : NextCall(k) = Put(Turn(m, d))
      BY <2>4 DEF Lie
    <3>2. CASE m = n
      BY <1>2, <3>1, <3>2, TurnPut
    <3>3. CASE m # n
      <4>1. After(NextCall(k).cmd) = Tell(Turn(m, d))
        BY <3>1 DEF After, Put, Turn
      <4>2. actual'.turnouts[n] = actual.turnouts[n]
        <5>0. d \in {"straight", "curved"}
          BY DEF Lie
        <5>1. actual'.turnouts = [actual.turnouts EXCEPT ![m] = d]
          BY <1>2, <3>1, <5>0, PutTurn, ZenonT(60)
        <5>2. actual.turnouts \in [Turnouts -> {"straight", "curved"}]
          BY DEF TypeInv
        <5> QED BY <3>3, <5>1, <5>2
      <4>3. \A c, e : Now(k, c) \/ Now(k, c)' => c # Tell(Turn(n, e))
        BY <2>2, <3>1, <3>3, <4>1, TurnOther DEF Now
      <4>4. \A e : Put(Turn(n, e)) \in ToDo(k) => Put(Turn(n, e)) \in ToDo(k)'
        BY <2>3, <3>1, <3>3, TurnOther
      <4> QED BY <1>t, <2>1, <4>2, <4>3, <4>4, TurnSame
    <3> QED BY <3>2, <3>3
  <2>5. CASE \/ \E t \in Trains, v \in Speeds : NextCall(k) = Put(Speed(t, v))
             \/ \E t \in Trains : NextCall(k) = Put(TurnAround(t))
    <3>1. actual'.turnouts = actual.turnouts
      BY <1>2, <2>5, PutSpeed, PutReverse
    <3>2. \/ \E t \in Trains, v \in Speeds : After(NextCall(k).cmd) = Tell(Speed(t, v))
          \/ \E t \in Trains : After(NextCall(k).cmd) = AskDirection(t)
      BY <2>5 DEF After, Put, Speed, TurnAround
    <3>3. \A c, e : Now(k, c) \/ Now(k, c)' => c # Tell(Turn(n, e))
      BY <2>2, <2>5, <3>2, TurnOther DEF Now
    <3>4. \A e : Put(Turn(n, e)) \in ToDo(k) => Put(Turn(n, e)) \in ToDo(k)'
      BY <2>3, <2>5, TurnOther
    <3> QED BY <1>t, <2>1, <3>1, <3>3, <3>4, TurnSame
  <2> QED BY <1>2, <2>4, <2>5, PutKinds
<1>3. ASSUME NEW k \in Tasks, TellTurnout(k) \/ TellDirection(k) \/ TellSpeed(k) \/ WakeUp(k),
             \A c, e : Now(k, c) => c # Tell(Turn(n, e)), record'.turnouts[n] = record.turnouts[n]
      PROVE  TurnRight(n)'
  <2>1. Others(k) /\ Advances(k) /\ ~ Idle(k)
    BY <1>3, TailSteps
  <2>2. NextCall(k).call # "PutBytes" /\ actual' = actual
    BY <1>3 DEF TellTurnout, TellDirection, TellSpeed, WakeUp, Calls
  <2>3. \A c, e : Now(k, c) \/ Now(k, c)' => c # Tell(Turn(n, e))
    BY <1>3, <2>1, <2>2, Advanced, TurnOther
  <2>4. \A e : Put(Turn(n, e)) \in ToDo(k) => Put(Turn(n, e)) \in ToDo(k)'
    BY <2>1, <2>2, Advanced, TurnOther
  <2> QED BY <1>t, <1>3, <2>1, <2>2, <2>3, <2>4, TurnSame
<1>4. ASSUME NEW k \in Tasks, TellTurnout(k) PROVE TurnRight(n)'
  <2>1. PICK m \in Turnouts, d \in Lie : NextCall(k) = Tell(Turn(m, d))
    BY <1>4, TellKinds DEF Lie
  <2>2. CASE m = n
    BY <1>t, <1>4, <2>1, <2>2, TurnTold
  <2>3. CASE m # n
    <3>1. record'.turnouts[n] = record.turnouts[n]
      <4>1. d \in {"straight", "curved"}
        BY DEF Lie
      <4> QED BY <1>4, <2>1, <2>3, <4>1, TellTurnoutState
    <3>2. \A c, e : Now(k, c) => c # Tell(Turn(n, e))
      BY <2>1, <2>3, TurnOther DEF Now
    <3> QED BY <1>3, <1>4, <3>1, <3>2
  <2> QED BY <2>2, <2>3
<1>5. ASSUME NEW k \in Tasks, TellDirection(k) \/ TellSpeed(k) PROVE TurnRight(n)'
  <2>1. \/ \E t \in Trains, d \in BOOLEAN : NextCall(k) = Tell(Direction(t, d))
        \/ \E t \in Trains, v \in Speeds : NextCall(k) = Tell(Speed(t, v))
    BY <1>5, TellKinds
  <2>2. record'.turnouts = record.turnouts
    <3>1. CASE TellDirection(k)
      BY <3>1, TellKinds, TellDirectionState
    <3>2. CASE TellSpeed(k)
      BY <3>2, TellKinds, TellSpeedState
    <3> QED BY <1>5, <3>1, <3>2
  <2>3. \A c, e : Now(k, c) => c # Tell(Turn(n, e))
    BY <2>1, TurnOther DEF Now
  <2> QED BY <1>3, <1>5, <2>2, <2>3
<1>6. ASSUME NEW k \in Tasks, WakeUp(k) PROVE TurnRight(n)'
  <2>1. \A c : Now(k, c) => c.call = "Sleeping"
    BY <1>6 DEF WakeUp, Calls, Now
  <2>2. \A c, e : Now(k, c) => c # Tell(Turn(n, e))
    BY <2>1, TurnOther
  <2> QED BY <1>3, <1>6, <2>2 DEF WakeUp
<1>7. ASSUME NEW k \in Tasks, GetDirection(k) PROVE TurnRight(n)'
  <2>1. /\ Others(k) /\ NextCall(k) = AskDirection(k)
        /\ ToDo(k) \subseteq ToDo(k)' \cup {NextCall(k)}
        /\ \A c : Now(k, c)' => c = Tell(Direction(k, ~ record.trains[k].dir))
    BY <1>7, GetDirectionStep
  <2>2. \A c, e : Now(k, c) \/ Now(k, c)' => c # Tell(Turn(n, e))
    BY <2>1, TurnOther DEF Now
  <2>3. \A e : AskDirection(k) # Put(Turn(n, e))
    BY DEF AskDirection, Put
  <2>4. actual' = actual /\ record' = record
    BY <1>7 DEF GetDirection
  <2> QED BY <1>t, <2>1, <2>2, <2>3, <2>4, TurnSame
<1>8. ASSUME \/ (\E u \in Trains : RequestUpdate(u)) \/ CoordinatesServerTakes \/ Tick
             \/ UNCHANGED vars
      PROVE  TurnRight(n)'
  <2>1. calls' = calls /\ actual' = actual /\ record' = record
    BY <1>8 DEF RequestUpdate, CoordinatesServerTakes, Tick, vars
  <2> QED BY <1>t, <2>1 DEF TurnRight, Now, Idle, NextCall
<1> QED BY <1>1, <1>2, <1>4, <1>5, <1>6, <1>7, <1>8, NextIs

----------------------------------------------------------------------------
(* What the coordinates server has. *)

LEMMA NowToDo ==
    ASSUME NEW k \in Tasks
    PROVE  ListsInv' => (\A c : Now(k, c) /\ ~ Waits(c) => c \in ToDo(k))'
<1>1. ListsInv => (\A c : Now(k, c) /\ ~ Waits(c) => c \in ToDo(k))
  BY ToDoFacts DEF Now
<1> QED BY <1>1, PTL

\* The resetter stays at its turnouts until it has told of them.
LEMMA ResetterStays ==
    ASSUME TypeInv, ListsInv, ListsInv', [Next]_vars, \A k \in Tasks : ~ TellTurnout(k),
           NEW n \in Turnouts, Touches("turnout_resetter", n)
    PROVE  Touches("turnout_resetter", n)'
<1>r. "turnout_resetter" \in Tasks /\ "turnout_resetter" \notin Trains \cup Switchers
  BY TasksAssumption DEF Tasks, Resetters
<1>1. PICK c \in ToDo("turnout_resetter") : AtTurnout(c, n) /\ c \in Call
  BY <1>r, ToDoFacts
<1>2. Sets(c, n) /\ c.call \in {"PutBytes", "Send"} /\ c.cmd.kind = "turnout"
  <2>1. c.call \notin {"Time", "Test"}
    BY <1>1, <1>r, ToDoFacts DEF Belongs
  <2> QED BY <1>1, <2>1, AtTurnoutKinds DEF Sets
<1>3. ASSUME NEW k \in Tasks, Others(k),
             k = "turnout_resetter" => \E e \in ToDo(k)' : AtTurnout(e, n)
      PROVE  Touches("turnout_resetter", n)'
  <2>1. CASE k = "turnout_resetter"
    BY <1>3, <2>1, ToDoNext
  <2>2. CASE k # "turnout_resetter"
    BY <1>3, <1>r, <2>2, OthersStay DEF Touches
  <2> QED BY <2>1, <2>2
<1>4. ASSUME NEW k \in Tasks, Starts(k) PROVE Touches("turnout_resetter", n)'
  <2>1. Others(k) /\ \E T : Fresh(k, T)
    BY <1>4, StartsIs
  <2>2. k # "turnout_resetter"
    BY <1>1, <1>2, <2>1 DEF Fresh
  <2> QED BY <1>3, <2>1, <2>2
<1>5. ASSUME NEW k \in Tasks, PutBytes(k) PROVE Touches("turnout_resetter", n)'
  <2>1. Others(k) /\ Advances(k) /\ ~ Idle(k) /\ NextCall(k).call = "PutBytes"
    BY <1>5, TailSteps, PutKinds
  <2>2. /\ ToDo(k) \subseteq ToDo(k)' \cup {NextCall(k)}
        /\ \A e : e = After(NextCall(k).cmd) => Now(k, e)'
    BY <2>1, Advanced
  <2>3. ASSUME k = "turnout_resetter", c = NextCall(k) PROVE \E e \in ToDo(k)' : AtTurnout(e, n)
    <3>1. PICK e : e = After(NextCall(k).cmd)
      OBVIOUS
    <3>2. e = Tell(c.cmd) /\ c.cmd.num = n
      BY <1>2, <2>3, <3>1 DEF After, Sets
    <3>3. AtTurnout(e, n) /\ ~ Waits(e)
      BY <1>2, <3>2 DEF AtTurnout, Tell, Waits
    <3>4. e \in ToDo(k)'
      BY <2>2, <3>1, <3>3, NowToDo
    <3> QED BY <3>3, <3>4
  <2>4. k = "turnout_resetter" => \E e \in ToDo(k)' : AtTurnout(e, n)
    BY <1>1, <2>2, <2>3
  <2> QED BY <1>3, <2>1, <2>4
<1>6. ASSUME NEW k \in Tasks, Others(k), ToDo(k) \subseteq ToDo(k)' \cup {NextCall(k)},
             k \in Trains \/ NextCall(k).call = "Sleeping" \/ ~ AtTurnout(NextCall(k), n)
      PROVE  Touches("turnout_resetter", n)'
  <2>1. k = "turnout_resetter" => c # NextCall(k)
    BY <1>1, <1>2, <1>6, <1>r
  <2> QED BY <1>1, <1>3, <1>6, <2>1
<1>7. ASSUME NEW k \in Tasks, TellDirection(k) \/ TellSpeed(k) \/ WakeUp(k)
      PROVE  Touches("turnout_resetter", n)'
  <2>1. Others(k) /\ Advances(k) /\ ~ Idle(k)
    BY <1>7, TailSteps
  <2>2. ToDo(k) \subseteq ToDo(k)' \cup {NextCall(k)}
    BY <2>1, Advanced
  <2>3. \/ NextCall(k).call = "Sleeping"
        \/ NextCall(k).call = "Send" /\ NextCall(k).cmd.kind \in {"direction", "speed"}
    BY <1>7 DEF TellDirection, TellSpeed, WakeUp, Calls
  <2>4. NextCall(k).call = "Sleeping" \/ ~ AtTurnout(NextCall(k), n)
    BY <2>3 DEF AtTurnout
  <2> QED BY <1>6, <2>1, <2>2, <2>4
<1>8. ASSUME NEW k \in Tasks, GetDirection(k) PROVE Touches("turnout_resetter", n)'
  BY <1>6, <1>8, GetDirectionStep
<1>9. ASSUME \/ (\E u \in Trains : RequestUpdate(u)) \/ CoordinatesServerTakes \/ Tick
             \/ UNCHANGED vars
      PROVE  Touches("turnout_resetter", n)'
  <2>1. calls' = calls
    BY <1>9 DEF RequestUpdate, CoordinatesServerTakes, Tick, vars
  <2> QED BY <2>1 DEF Touches
<1> QED BY <1>4, <1>5, <1>7, <1>8, <1>9, NextIs

LEMMA CopySame ==
    ASSUME CopyInv, copy' = copy, record' = record, forward' = forward,
           \A n \in Turnouts : Touches("turnout_resetter", n) => Touches("turnout_resetter", n)'
    PROVE  CopyInv'
BY DEF CopyInv

LEMMA CopyTurnout ==
    ASSUME TypeInv, ListsInv, CopyInv, NEW k \in Tasks, TellTurnout(k)
    PROVE  CopyInv'
<1>1. PICK n \in Turnouts, d \in {"straight", "curved"} : NextCall(k) = Tell(Turn(n, d))
  BY TellKinds
<1>2. /\ record'.trains = record.trains /\ copy' = copy /\ forward = Nothing
      /\ forward'.kind = "turnouts" /\ forward'.states = record'.turnouts
  BY <1>1, TellTurnoutState DEF TellTurnout
<1>3. forward.kind = "nothing"
  BY <1>2, ForwardKinds
<1>4. \A t \in Trains : /\ copy'.trains[t].speed = record'.trains[t].speed
                        /\ copy'.trains[t].dir = record'.trains[t].dir
  BY <1>2, <1>3 DEF CopyInv
<1> QED BY <1>2, <1>4 DEF CopyInv

LEMMA CopyDirection ==
    ASSUME TypeInv, ListsInv, CopyInv, TrainInv, NEW k \in Tasks, TellDirection(k),
           \A n \in Turnouts : Touches("turnout_resetter", n) => Touches("turnout_resetter", n)'
    PROVE  CopyInv'
<1>1. PICK d \in BOOLEAN : NextCall(k) = Tell(Direction(k, d)) /\ k \in Trains
  BY TellKinds
<1>2. /\ record'.turnouts = record.turnouts
      /\ \A u \in Trains : u # k => record'.trains[u] = record.trains[u]
      /\ record'.trains[k].speed = record.trains[k].speed
      /\ record'.trains[k].dir = d
      /\ forward'.kind = "reversed" /\ forward'.train = k
  BY <1>1, TellDirectionState
<1>3. copy' = copy /\ forward.kind = "nothing"
  BY ForwardKinds DEF TellDirection
<1>4. record.trains[k].dir # d
  <2>1. Now(k, Tell(Direction(k, d)))
    BY <1>1 DEF TellDirection, Calls, Now
  <2>2. d = actual.trains[k].dir /\ record.trains[k].dir # actual.trains[k].dir
    BY <1>1, <2>1 DEF TrainInv, TrainRight
  <2> QED BY <2>2
<1>5. ASSUME NEW t \in Trains
      PROVE  /\ copy'.trains[t].speed = record'.trains[t].speed
             /\ (copy'.trains[t].dir # record'.trains[t].dir) <=> t = k
  <2>1. copy.trains[t].speed = record.trains[t].speed /\ copy.trains[t].dir = record.trains[t].dir
    BY <1>3 DEF CopyInv
  <2>2. CASE t = k
    BY <1>2, <1>3, <1>4, <2>1, <2>2
  <2>3. CASE t # k
    BY <1>2, <1>3, <2>1, <2>3
  <2> QED BY <2>2, <2>3
<1>6. \A n \in Turnouts : \/ copy'.turnouts[n] = record'.turnouts[n]
                          \/ Touches("turnout_resetter", n)'
  BY <1>2, <1>3 DEF CopyInv
<1> QED BY <1>2, <1>5, <1>6 DEF CopyInv

LEMMA CopySpeed ==
    ASSUME TypeInv, ListsInv, CopyInv, NEW k \in Tasks, TellSpeed(k),
           \A n \in Turnouts : Touches("turnout_resetter", n) => Touches("turnout_resetter", n)'
    PROVE  CopyInv'
<1>1. PICK t \in Trains, v \in Speeds : NextCall(k) = Tell(Speed(t, v))
  BY TellKinds
<1>2. /\ record'.turnouts = record.turnouts
      /\ \A u \in Trains : u # t => record'.trains[u] = record.trains[u]
      /\ record'.trains[t].dir = record.trains[t].dir
      /\ record'.trains[t].speed = v
      /\ copy'.turnouts = copy.turnouts
      /\ \A u \in Trains : u # t => copy'.trains[u] = copy.trains[u]
      /\ copy'.trains[t].dir = copy.trains[t].dir
      /\ IF v # record.trains[t].speed THEN copy'.trains[t].speed = v
         ELSE copy'.trains[t].speed = copy.trains[t].speed
  BY <1>1, TellSpeedState
<1>3. forward' = forward /\ forward.kind = "nothing"
  BY ForwardKinds DEF TellSpeed
<1>4. ASSUME NEW u \in Trains
      PROVE  /\ copy'.trains[u].speed = record'.trains[u].speed
             /\ copy'.trains[u].dir = record'.trains[u].dir
  <2>1. copy.trains[u].speed = record.trains[u].speed /\ copy.trains[u].dir = record.trains[u].dir
    BY <1>3 DEF CopyInv
  <2>2. CASE u = t
    BY <1>2, <2>1, <2>2
  <2>3. CASE u # t
    BY <1>2, <2>1, <2>3
  <2> QED BY <2>2, <2>3
<1>5. \A n \in Turnouts : \/ copy'.turnouts[n] = record'.turnouts[n]
                          \/ Touches("turnout_resetter", n)'
  BY <1>2, <1>3 DEF CopyInv
<1> QED BY <1>3, <1>4, <1>5 DEF CopyInv

LEMMA CopyRequest ==
    ASSUME TypeInv, CopyInv, NEW t \in Trains, RequestUpdate(t),
           \A n \in Turnouts : Touches("turnout_resetter", n) => Touches("turnout_resetter", n)'
    PROVE  CopyInv'
<1>1. /\ forward.kind = "nothing" /\ forward'.kind = "speed" /\ forward'.train = t
      /\ forward'.speed = record.trains[t].speed
  BY RequestState
<1>2. copy' = copy /\ record' = record
  BY DEF RequestUpdate
<1> QED BY <1>1, <1>2 DEF CopyInv

LEMMA CopyTakes ==
    ASSUME TypeInv, CopyInv, CoordinatesServerTakes,
           \A n \in Turnouts : Touches("turnout_resetter", n) => Touches("turnout_resetter", n)'
    PROVE  CopyInv'
<1>1. record' = record /\ forward'.kind = "nothing"
  BY CoordinatesState DEF CoordinatesServerTakes
<1>2. \A n \in Turnouts : \/ copy'.turnouts[n] = record.turnouts[n]
                          \/ Touches("turnout_resetter", n)'
  <2>1. CASE forward.kind = "turnouts"
    BY <2>1, CoordinatesState DEF CopyInv
  <2>2. CASE forward.kind # "turnouts"
    BY <2>2, CoordinatesState DEF CopyInv
  <2> QED BY <2>1, <2>2
<1>3. ASSUME NEW t \in Trains
      PROVE  /\ copy'.trains[t].speed = record.trains[t].speed
             /\ copy'.trains[t].dir = record.trains[t].dir
  <2>1. /\ copy.trains[t].speed = record.trains[t].speed
        /\ (copy.trains[t].dir # record.trains[t].dir) <=>
              (forward.kind = "reversed" /\ forward.train = t)
        /\ forward.kind = "speed" => forward.speed = record.trains[forward.train].speed
    BY DEF CopyInv
  <2>2. /\ copy.trains[t].dir \in BOOLEAN /\ record.trains[t].dir \in BOOLEAN
        /\ forward.kind \in {"turnouts", "reversed", "speed"}
    BY CoordinatesState, ForwardKinds DEF TypeInv, TrainRecord
  <2>3. CASE forward.kind = "turnouts"
    BY <2>1, <2>3, CoordinatesState
  <2>4. CASE forward.kind # "turnouts" /\ forward.train # t
    BY <2>1, <2>4, CoordinatesState
  <2>5. CASE forward.kind = "reversed" /\ forward.train = t
    <3>1. /\ copy'.trains[t].speed = copy.trains[t].speed
          /\ copy'.trains[t].dir = ~ copy.trains[t].dir
      BY <2>5, CoordinatesState
    <3> QED BY <2>1, <2>2, <2>5, <3>1
  <2>6. CASE forward.kind = "speed" /\ forward.train = t
    <3>1. copy'.trains[t].speed = forward.speed /\ copy'.trains[t].dir = copy.trains[t].dir
      BY <2>6, CoordinatesState
    <3> QED BY <2>1, <2>6, <3>1
  <2> QED BY <2>2, <2>3, <2>4, <2>5, <2>6
<1> QED BY <1>1, <1>2, <1>3 DEF CopyInv

LEMMA CopyNext ==
    ASSUME TypeInv, ListsInv, CopyInv, TrainInv, ListsInv', [Next]_vars PROVE CopyInv'
<1>1. CASE \E k \in Tasks : TellTurnout(k)
  BY <1>1, CopyTurnout
<1>2. CASE \A k \in Tasks : ~ TellTurnout(k)
  <2>1. \A n \in Turnouts : Touches("turnout_resetter", n) => Touches("turnout_resetter", n)'
    BY <1>2, ResetterStays
  <2>2. ASSUME NEW k \in Tasks, Starts(k) PROVE CopyInv'
    BY <2>1, <2>2, StartsIs, CopySame DEF Calm
  <2>3. ASSUME NEW k \in Tasks, PutBytes(k) \/ WakeUp(k) \/ GetDirection(k) PROVE CopyInv'
    <3>1. copy' = copy /\ record' = record /\ forward' = forward
      BY <2>3 DEF PutBytes, WakeUp, GetDirection
    <3> QED BY <2>1, <3>1, CopySame
  <2>4. CASE Tick \/ UNCHANGED vars
    <3>1. copy' = copy /\ record' = record /\ forward' = forward
      BY <2>4 DEF Tick, vars
    <3> QED BY <2>1, <3>1, CopySame
  <2> QED BY <1>2, <2>1, <2>2, <2>3, <2>4, CopyDirection, CopySpeed, CopyRequest, CopyTakes, NextIs
<1> QED BY <1>1, <1>2

----------------------------------------------------------------------------
(* A train that will be turned around. *)

LEMMA RestIs ==
    ASSUME TypeInv, NEW t \in Trains
    PROVE  /\ now \in Nat /\ Rest(t) \in Nat /\ actual.trains[t].speed \in Nat
           /\ actual.trains[t].since \in Nat /\ actual.trains[t].was \in Nat
           /\ AtRest(t) <=> Standing(t) /\ now >= Rest(t)
<1>1. /\ now \in Nat /\ actual.trains[t].since \in Nat
      /\ actual.trains[t].speed \in Speeds /\ actual.trains[t].was \in Speeds
  BY DEF TypeInv, TrainState
<1>2. Speeds \subseteq Nat
  BY CommandsAssumption
<1>3. PICK s, w \in Nat : s = actual.trains[t].since /\ w = actual.trains[t].was
  BY <1>1, <1>2
<1>4. Rest(t) = s + 33 * w /\ s + 33 * w \in Nat
  BY <1>3 DEF Rest, BrakeTicks
<1>5. AtRest(t) <=> Standing(t) /\ now - s >= 33 * w
  BY <1>3 DEF AtRest, Standing, BrakeTicks
<1>6. now - s >= 33 * w <=> now >= s + 33 * w
  BY <1>1, <1>3
<1> QED BY <1>1, <1>2, <1>4, <1>5, <1>6

LEMMA RestNext ==
    ASSUME NEW t \in Trains
    PROVE  TypeInv' =>
              (/\ now \in Nat /\ Rest(t) \in Nat
               /\ AtRest(t) <=> Standing(t) /\ now >= Rest(t))'
<1>1. TypeInv => (/\ now \in Nat /\ Rest(t) \in Nat
                  /\ AtRest(t) <=> Standing(t) /\ now >= Rest(t))
  BY RestIs
<1> QED BY <1>1, PTL

\* Where a train that turns around stands in its list, and what is before it.
LEMMA ReversesIs ==
    ASSUME ListsInv, NEW t \in Trains, NEW i \in 1 .. 5, Reverses(t, i)
    PROVE  /\ i <= 4 /\ calls[t] \in Seq(Call) /\ \A j \in 1 .. i : j \in 1 .. Len(calls[t])
           /\ \A j \in 1 .. i : calls[t][j] \in Call
           /\ i > 1 => calls[t][i - 1].call \in {"Delay", "Sleeping"}
           /\ i > 2 => calls[t][i - 2] = Tell(Speed(t, 0))
           /\ i > 3 => calls[t][i - 3] = Put(Speed(t, 0))
<1>1. t \in Tasks
  BY DEF Tasks
<1>2. PICK s : s = calls[t] /\ s \in Seq(Call) /\ Linked(s) /\ Braked(s)
  BY <1>1 DEF ListsInv, ListOf
<1>3. i <= Len(s) /\ s[i] = Put(TurnAround(t)) /\ Len(s) \in Nat
  BY <1>2 DEF Reverses
<1>4. \A j \in 1 .. i : j \in 1 .. Len(s)
  BY <1>3
<1>5. i \in 1 .. Len(s)
  BY <1>3
<1>6. /\ i <= 4 /\ (i > 1 => s[i - 1].call \in {"Delay", "Sleeping"})
      /\ i > 2 => s[i - 2] = Tell(Speed(t, 0))
  BY <1>2, <1>3, <1>5 DEF Braked
<1>7. ASSUME i > 3 PROVE s[i - 3] = Put(Speed(t, 0))
  <2>1. i = 4
    BY <1>6, <1>7
  <2>2. 1 \in 1 .. Len(s) - 1 /\ 1 \in 1 .. Len(s)
    BY <1>3, <2>1
  <2>3. Link(s[1], s[2])
    BY <1>2, <2>2 DEF Linked
  <2>4. s[2] = Tell(Speed(t, 0)) /\ s[2].call = "Send"
    BY <1>6, <2>1, Distinct
  <2>5. s[1].call = "PutBytes" /\ s[2] = After(s[1].cmd)
    BY <2>3, <2>4 DEF Link
  <2>6. s[1].cmd = Speed(t, 0)
    BY <2>4, <2>5 DEF After, Tell, AskDirection
  <2>7. s[1] \in Call
    BY <1>2, <2>2
  <2>8. s[1] = Put(s[1].cmd)
    BY <2>5, <2>7 DEF Call, Put
  <2> QED BY <2>1, <2>6, <2>8
<1>8. \A j \in 1 .. i : s[j] \in Call
  BY <1>2, <1>4
<1> QED BY <1>2, <1>4, <1>6, <1>7, <1>8

\* A task that goes on comes closer.
LEMMA ReversesTail ==
    ASSUME ListsInv, NEW t \in Trains, Advances(t)
    PROVE  /\ \A i \in 1 .. 4 : Reverses(t, i)' => Reverses(t, i + 1)
           /\ Reverses(t, 2)' /\ calls[t][2].call = "Delay" =>
                 calls'[t][1] = [call |-> "Sleeping", until |-> now + calls[t][2].ticks]
           /\ Reverses(t, 3)' => calls'[t][2] = calls[t][3]
<1>1. PICK L \in Nat \ {0} :
         /\ L = Len(calls[t]) /\ Len(calls'[t]) = L - 1
         /\ \A i \in 2 .. L - 1 : calls'[t][i] = calls[t][i + 1]
         /\ L > 1 => calls'[t][1] = IF calls[t][2].call = "Delay"
                                    THEN [call |-> "Sleeping", until |-> now + calls[t][2].ticks]
                                    ELSE calls[t][2]
  BY DEF Advances
<1>2. ASSUME NEW i \in 1 .. 4, Reverses(t, i)' PROVE Reverses(t, i + 1)
  <2>1. i <= L - 1 /\ calls'[t][i] = Put(TurnAround(t))
    BY <1>1, <1>2 DEF Reverses
  <2>2. CASE i = 1
    <3>1. Put(TurnAround(t)).call = "PutBytes"
      BY Distinct
    <3>2. L > 1
      BY <2>1, <2>2
    <3>3. \A u : [call |-> "Sleeping", until |-> u] # Put(TurnAround(t))
      BY <3>1
    <3>4. calls[t][2] = Put(TurnAround(t))
      BY <1>1, <2>1, <2>2, <3>2, <3>3
    <3> QED BY <1>1, <2>2, <3>2, <3>4 DEF Reverses
  <2>3. CASE i # 1
    <3>1. i \in 2 .. L - 1 /\ i + 1 <= L
      BY <2>1, <2>3
    <3> QED BY <1>1, <2>1, <3>1 DEF Reverses
  <2> QED BY <2>2, <2>3
<1>3. ASSUME Reverses(t, 2)', calls[t][2].call = "Delay"
      PROVE  calls'[t][1] = [call |-> "Sleeping", until |-> now + calls[t][2].ticks]
  <2>1. L > 1
    BY <1>1, <1>3 DEF Reverses
  <2> QED BY <1>1, <1>3, <2>1
<1>4. ASSUME Reverses(t, 3)' PROVE calls'[t][2] = calls[t][3]
  <2>1. 3 <= L - 1
    BY <1>1, <1>4 DEF Reverses
  <2>2. 2 \in 2 .. L - 1 /\ 2 + 1 = 3
    BY <2>1
  <2> QED BY <1>1, <2>2
<1> QED BY <1>2, <1>3, <1>4

\* A train whose task does not go on.
LEMMA BrakeSame ==
    ASSUME TypeInv, TypeInv', ListsInv, NEW t \in Trains, BrakeRight(t), calls'[t] = calls[t],
           now' >= now, actual'.trains[t].speed = actual.trains[t].speed,
           actual'.trains[t].was = actual.trains[t].was,
           actual'.trains[t].since = actual.trains[t].since,
           record'.trains[t].speed = record.trains[t].speed
    PROVE  BrakeRight(t)'
<1>1. Rest(t)' = Rest(t) /\ (Standing(t)' <=> Standing(t))
  BY DEF Rest, Standing
<1>2. AtRest(t) => AtRest(t)'
  BY <1>1, RestIs, RestNext
<1>3. \A i : Reverses(t, i)' <=> Reverses(t, i)
  BY DEF Reverses
<1>4. Reverses(t, 3) /\ calls[t][2].call = "Delay" => calls[t][2].ticks \in Nat
  <2>1. Reverses(t, 3) => calls[t][2] \in Call
    <3>1. 3 \in 1 .. 5 /\ 2 \in 1 .. 3
      OBVIOUS
    <3> QED BY <3>1, ReversesIs
  <2> QED BY <2>1, CallKinds
<1>5. Reverses(t, 3) => Standing(t)' /\ calls'[t][2].call = "Delay"
                        /\ now' + calls'[t][2].ticks >= Rest(t)'
  <2> SUFFICES ASSUME Reverses(t, 3)
               PROVE  /\ Standing(t) /\ calls[t][2].call = "Delay"
                      /\ now' + calls[t][2].ticks >= Rest(t)
    BY <1>1
  <2>1. Standing(t) /\ calls[t][2].call = "Delay" /\ now + calls[t][2].ticks >= Rest(t)
    BY DEF BrakeRight
  <2>2. PICK d \in Nat : d = calls[t][2].ticks
    BY <1>4, <2>1
  <2>3. now' + d >= Rest(t)
    BY <2>1, <2>2, RestIs, RestNext
  <2> QED BY <2>1, <2>2, <2>3
<1>6. /\ Reverses(t, 1)' => AtRest(t)'
      /\ Reverses(t, 2)' => /\ Standing(t)' /\ calls'[t][1].call = "Sleeping"
                            /\ calls'[t][1].until >= Rest(t)'
  BY <1>1, <1>2, <1>3 DEF BrakeRight
<1>7. Reverses(t, 4)' => /\ calls'[t][3].call = "Delay"
                         /\ calls'[t][3].ticks >= BrakeTicks * actual'.trains[t].speed
                         /\ Standing(t)' => AtRest(t)'
  BY <1>1, <1>2, <1>3 DEF BrakeRight
<1>8. calls'[t] # << >> /\ calls'[t][1].call = "GetSpeed" =>
         record'.trains[t].speed # 0 \/ AtRest(t)'
  BY <1>2 DEF BrakeRight
<1> QED BY <1>3, <1>5, <1>6, <1>7, <1>8 DEF BrakeRight

\* A train whose task has nothing of the kind to do.
LEMMA BrakeNone ==
    ASSUME NEW t \in Trains, \A i \in 1 .. 4 : ~ Reverses(t, i)',
           calls'[t] # << >> => calls'[t][1].call # "GetSpeed"
    PROVE  BrakeRight(t)'
<1>1. ~ Reverses(t, 1)' /\ ~ Reverses(t, 2)' /\ ~ Reverses(t, 3)' /\ ~ Reverses(t, 4)'
  BY 1 \in 1 .. 4, 2 \in 1 .. 4, 3 \in 1 .. 4, 4 \in 1 .. 4
<1> QED BY <1>1 DEF BrakeRight

\* The resetter is the only other task that drives it.
LEMMA BrakeReset ==
    ASSUME ListsInv, StartInv, NEW k \in Tasks, Others(k), NEW t \in Trains, k # t,
           NEW c \in ToDo(k), AtTrain(c, t)
    PROVE  BrakeRight(t)'
<1>1. k = "speed_resetter" /\ t \in Tasks
  BY Driver DEF Tasks
<1>2. ~ Idle(k)
  BY ToDoFacts
<1>3. calls[t] = << >>
  BY <1>1, <1>2 DEF StartInv, Resetters, Idle
<1>4. calls'[t] = << >>
  BY <1>1, <1>3, OthersStay
<1>5. \A i \in 1 .. 4 : ~ Reverses(t, i)'
  BY <1>4 DEF Reverses
<1> QED BY <1>4, <1>5, BrakeNone

\* What a task that goes on has just done, when the train will be turned around.
LEMMA BrakeTail ==
    ASSUME ListsInv, ListsInv', NEW t \in Trains, Advances(t), ~ Idle(t)
    PROVE  /\ Reverses(t, 1)' => Reverses(t, 2) /\ calls[t][1].call \in {"Delay", "Sleeping"}
           /\ Reverses(t, 2)' => Reverses(t, 3) /\ calls[t][1] = Tell(Speed(t, 0))
           /\ Reverses(t, 3)' => Reverses(t, 4) /\ calls[t][1] = Put(Speed(t, 0))
           /\ ~ Reverses(t, 4)'
           /\ calls'[t] # << >> => calls'[t][1].call # "GetSpeed"
<1>1. ASSUME Reverses(t, 1)'
      PROVE  Reverses(t, 2) /\ calls[t][1].call \in {"Delay", "Sleeping"}
  <2>1. 1 \in 1 .. 4 /\ 1 + 1 = 2 /\ 2 \in 1 .. 5 /\ 2 - 1 = 1 /\ 2 > 1
    OBVIOUS
  <2>2. Reverses(t, 2)
    BY <1>1, <2>1, ReversesTail
  <2> QED BY <2>1, <2>2, ReversesIs
<1>2. ASSUME Reverses(t, 2)' PROVE Reverses(t, 3) /\ calls[t][1] = Tell(Speed(t, 0))
  <2>1. 2 \in 1 .. 4 /\ 2 + 1 = 3 /\ 3 \in 1 .. 5 /\ 3 - 2 = 1 /\ 3 > 2
    OBVIOUS
  <2>2. Reverses(t, 3)
    BY <1>2, <2>1, ReversesTail
  <2> QED BY <2>1, <2>2, ReversesIs
<1>3. ASSUME Reverses(t, 3)' PROVE Reverses(t, 4) /\ calls[t][1] = Put(Speed(t, 0))
  <2>1. 3 \in 1 .. 4 /\ 3 + 1 = 4 /\ 4 \in 1 .. 5 /\ 4 - 3 = 1 /\ 4 > 3
    OBVIOUS
  <2>2. Reverses(t, 4)
    BY <1>3, <2>1, ReversesTail
  <2> QED BY <2>1, <2>2, ReversesIs
<1>4. ASSUME Reverses(t, 4)' PROVE FALSE
  <2>1. 4 \in 1 .. 4 /\ 4 + 1 = 5 /\ 5 \in 1 .. 5 /\ ~ 5 <= 4
    OBVIOUS
  <2>2. Reverses(t, 5)
    BY <1>4, <2>1, ReversesTail
  <2> QED BY <2>1, <2>2, ReversesIs
<1>5. calls'[t] # << >> => calls'[t][1].call # "GetSpeed"
  <2>1. t \in Tasks
    BY DEF Tasks
  <2>2. \A c : Now(t, c)' => c.call # "GetSpeed"
    BY <2>1, Advanced
  <2>3. calls'[t] \in Seq(Call)
    BY <2>1 DEF ListsInv, ListOf
  <2>4. \A c : calls'[t] # << >> /\ c = calls'[t][1] => Now(t, c)'
    BY <2>3 DEF Now, Idle, NextCall
  <2> QED BY <2>2, <2>4
<1> QED BY <1>1, <1>2, <1>3, <1>4, <1>5

LEMMA BrakeWakes ==
    ASSUME TypeInv, TypeInv', ListsInv, NEW t \in Trains, BrakeRight(t), WakeUp(t)
    PROVE  BrakeRight(t)'
<1>1. t \in Tasks
  BY DEF Tasks
<1>2. Advances(t) /\ ~ Idle(t) /\ ListsInv' /\ now' = now /\ actual' = actual
  BY <1>1, TailSteps DEF WakeUp
<1>3. /\ calls[t][1].call = "Sleeping" /\ calls[t][1].until <= now /\ calls[t][1].until \in Nat
  <2>1. NextCall(t) = calls[t][1] /\ NextCall(t) \in Call
    BY <1>1, <1>2, ListFacts
  <2> QED BY <2>1, CallKinds DEF WakeUp, Calls
<1>4. Reverses(t, 1)' => AtRest(t)'
  <2> SUFFICES ASSUME Reverses(t, 1)' PROVE AtRest(t)'
    OBVIOUS
  <2>1. Reverses(t, 2)
    BY <1>2, BrakeTail
  <2>2. Standing(t) /\ calls[t][1].until >= Rest(t)
    BY <2>1 DEF BrakeRight
  <2>3. now >= Rest(t)
    BY <1>3, <2>2, RestIs
  <2>4. Rest(t)' = Rest(t) /\ (Standing(t)' <=> Standing(t))
    BY <1>2 DEF Rest, Standing
  <2> QED BY <1>2, <2>2, <2>3, <2>4, RestNext
<1>5. ~ Reverses(t, 2)' /\ ~ Reverses(t, 3)' /\ ~ Reverses(t, 4)'
      /\ (calls'[t] # << >> => calls'[t][1].call # "GetSpeed")
  <2>1. calls[t][1] # Tell(Speed(t, 0)) /\ calls[t][1] # Put(Speed(t, 0))
    BY <1>3, Distinct
  <2> QED BY <1>2, <2>1, BrakeTail
<1> QED BY <1>4, <1>5 DEF BrakeRight

LEMMA BrakeTells ==
    ASSUME TypeInv, TypeInv', ListsInv, NEW t \in Trains, BrakeRight(t),
           TellTurnout(t) \/ TellDirection(t) \/ TellSpeed(t)
    PROVE  BrakeRight(t)'
<1>1. t \in Tasks
  BY DEF Tasks
<1>2. Advances(t) /\ ~ Idle(t) /\ ListsInv' /\ now' = now /\ actual' = actual
  BY <1>1, TailSteps DEF TellTurnout, TellDirection, TellSpeed
<1>3. calls[t][1].call = "Send"
  <2>1. NextCall(t) = calls[t][1]
    BY <1>1, <1>2, ListFacts
  <2> QED BY <2>1 DEF TellTurnout, TellDirection, TellSpeed, Calls
<1>4. Reverses(t, 2)' => /\ Standing(t)' /\ calls'[t][1].call = "Sleeping"
                         /\ calls'[t][1].until >= Rest(t)'
  <2> SUFFICES ASSUME Reverses(t, 2)'
               PROVE  /\ Standing(t)' /\ calls'[t][1].call = "Sleeping"
                      /\ calls'[t][1].until >= Rest(t)'
    OBVIOUS
  <2>1. Reverses(t, 3)
    BY <1>2, BrakeTail
  <2>2. Standing(t) /\ calls[t][2].call = "Delay" /\ now + calls[t][2].ticks >= Rest(t)
    BY <2>1 DEF BrakeRight
  <2>3. calls'[t][1] = [call |-> "Sleeping", until |-> now + calls[t][2].ticks]
    BY <1>2, <2>2, ReversesTail
  <2>4. Rest(t)' = Rest(t) /\ (Standing(t)' <=> Standing(t))
    BY <1>2 DEF Rest, Standing
  <2> QED BY <2>2, <2>3, <2>4
<1>5. ~ Reverses(t, 1)' /\ ~ Reverses(t, 3)' /\ ~ Reverses(t, 4)'
      /\ (calls'[t] # << >> => calls'[t][1].call # "GetSpeed")
  <2>1. calls[t][1].call \notin {"Delay", "Sleeping"} /\ calls[t][1] # Put(Speed(t, 0))
    BY <1>3, Distinct
  <2> QED BY <1>2, <2>1, BrakeTail
<1> QED BY <1>4, <1>5 DEF BrakeRight

LEMMA BrakePuts ==
    ASSUME TypeInv, TypeInv', ListsInv, NEW t \in Trains, BrakeRight(t), PutBytes(t)
    PROVE  BrakeRight(t)'
<1>1. t \in Tasks
  BY DEF Tasks
<1>2. Advances(t) /\ ~ Idle(t) /\ ListsInv' /\ now' = now
  BY <1>1, TailSteps DEF PutBytes
<1>3. NextCall(t) = calls[t][1] /\ calls[t][1].call = "PutBytes"
  BY <1>1, <1>2, ListFacts, PutKinds
<1>4. Reverses(t, 3)' => /\ Standing(t)' /\ calls'[t][2].call = "Delay"
                         /\ now' + calls'[t][2].ticks >= Rest(t)'
  <2> SUFFICES ASSUME Reverses(t, 3)'
               PROVE  /\ Standing(t)' /\ calls'[t][2].call = "Delay"
                      /\ now' + calls'[t][2].ticks >= Rest(t)'
    OBVIOUS
  <2>1. Reverses(t, 4) /\ NextCall(t) = Put(Speed(t, 0)) /\ calls'[t][2] = calls[t][3]
    BY <1>2, <1>3, BrakeTail, ReversesTail
  <2>2. /\ calls[t][3].call = "Delay"
        /\ calls[t][3].ticks >= BrakeTicks * actual.trains[t].speed
        /\ Standing(t) => AtRest(t)
    BY <2>1 DEF BrakeRight
  <2>3. calls[t][3].ticks \in Nat
    <3>1. 4 \in 1 .. 5 /\ 3 \in 1 .. 4
      OBVIOUS
    <3>2. calls[t][3] \in Call
      BY <2>1, <3>1, ReversesIs
    <3> QED BY <2>2, <3>2, CallKinds
  <2>4. /\ actual'.trains[t].speed = 0
        /\ IF actual.trains[t].speed = 0
           THEN actual'.trains[t] = actual.trains[t]
           ELSE /\ actual'.trains[t].was = actual.trains[t].speed
                /\ actual'.trains[t].since = now
    <3>1. 0 \in Speeds
      BY CommandsAssumption
    <3> QED BY <2>1, <3>1, PutSpeed
  <2>5. now + calls[t][3].ticks >= Rest(t)'
    <3>1. CASE Standing(t)
      <4>1. Rest(t)' = Rest(t) /\ now >= Rest(t)
        BY <2>2, <2>4, <3>1, RestIs DEF Rest, Standing
      <4> QED BY <2>3, <4>1, RestIs
    <3>2. CASE ~ Standing(t)
      <4>1. PICK v, d \in Nat : v = actual.trains[t].speed /\ d = calls[t][3].ticks
        BY <2>3, RestIs
      <4>2. Rest(t)' = now + 33 * v
        BY <2>4, <3>2, <4>1 DEF Rest, Standing, BrakeTicks
      <4>3. d >= 33 * v
        BY <2>2, <4>1 DEF BrakeTicks
      <4>4. now \in Nat
        BY RestIs
      <4>5. now + d >= now + 33 * v
        BY <4>1, <4>3, <4>4
      <4> QED BY <4>1, <4>2, <4>5
    <3> QED BY <3>1, <3>2
  <2>6. Standing(t)'
    BY <2>4 DEF Standing
  <2> QED BY <1>2, <2>1, <2>2, <2>5, <2>6
<1>5. ~ Reverses(t, 1)' /\ ~ Reverses(t, 2)' /\ ~ Reverses(t, 4)'
      /\ (calls'[t] # << >> => calls'[t][1].call # "GetSpeed")
  <2>1. calls[t][1].call \notin {"Delay", "Sleeping"} /\ calls[t][1] # Tell(Speed(t, 0))
    BY <1>3, Distinct
  <2> QED BY <1>2, <2>1, BrakeTail
<1> QED BY <1>4, <1>5 DEF BrakeRight

LEMMA BrakeAsks ==
    ASSUME TypeInv, TypeInv', ListsInv, NEW t \in Trains, BrakeRight(t), GetDirection(t)
    PROVE  BrakeRight(t)'
<1>1. t \in Tasks
  BY DEF Tasks
<1>2. /\ ~ Idle(t) /\ NextCall(t) = AskDirection(t) /\ Len(calls'[t]) = Len(calls[t])
      /\ \A i \in 2 .. Len(calls[t]) : calls'[t][i] = calls[t][i]
      /\ \A c : Now(t, c)' <=> c = Tell(Direction(t, ~ record.trains[t].dir))
      /\ ListsInv'
  BY <1>1, GetDirectionStep
<1>3. now' = now /\ actual' = actual
  BY DEF GetDirection
<1>4. calls[t][1] = AskDirection(t) /\ Len(calls[t]) \in Nat
  BY <1>1, <1>2, ListFacts
<1>5. calls'[t][1] = Tell(Direction(t, ~ record.trains[t].dir))
  <2>1. PICK told : told = Tell(Direction(t, ~ record.trains[t].dir))
    OBVIOUS
  <2>2. Now(t, told)'
    BY <1>2, <2>1
  <2>3. calls'[t] \in Seq(Call)
    BY <1>1, <1>2 DEF ListsInv, ListOf
  <2> QED BY <2>1, <2>2, <2>3 DEF Now, Idle, NextCall
<1>6. ~ Reverses(t, 1)' /\ calls'[t][1].call # "GetSpeed"
  BY <1>5, Distinct DEF Reverses
<1>7. \A i \in 2 .. 4 : Reverses(t, i)' => Reverses(t, i)
  <2> SUFFICES ASSUME NEW i \in 2 .. 4, Reverses(t, i)' PROVE Reverses(t, i)
    OBVIOUS
  <2>1. i \in 2 .. Len(calls[t])
    BY <1>2, <1>4 DEF Reverses
  <2> QED BY <1>2, <2>1 DEF Reverses
<1>8. calls[t][1].call \notin {"Delay", "Sleeping"} /\ calls[t][1] # Tell(Speed(t, 0))
  BY <1>4, Distinct
<1>9. ~ Reverses(t, 2)' /\ ~ Reverses(t, 3)'
  <2>1. ~ Reverses(t, 2)
    <3>1. 2 \in 1 .. 5 /\ 2 - 1 = 1 /\ 2 > 1
      OBVIOUS
    <3> QED BY <1>8, <3>1, ReversesIs
  <2>2. ~ Reverses(t, 3)
    <3>1. 3 \in 1 .. 5 /\ 3 - 2 = 1 /\ 3 > 2
      OBVIOUS
    <3> QED BY <1>8, <3>1, ReversesIs
  <2>3. 2 \in 2 .. 4 /\ 3 \in 2 .. 4
    OBVIOUS
  <2> QED BY <1>7, <2>1, <2>2, <2>3
<1>10. Reverses(t, 4)' => /\ calls'[t][3].call = "Delay"
                          /\ calls'[t][3].ticks >= BrakeTicks * actual'.trains[t].speed
                          /\ Standing(t)' => AtRest(t)'
  <2> SUFFICES ASSUME Reverses(t, 4)'
               PROVE  /\ calls'[t][3].call = "Delay"
                      /\ calls'[t][3].ticks >= BrakeTicks * actual'.trains[t].speed
                      /\ Standing(t)' => AtRest(t)'
    OBVIOUS
  <2>1. 4 \in 2 .. 4
    OBVIOUS
  <2>2. Reverses(t, 4)
    BY <1>7, <2>1
  <2>3. 3 \in 2 .. Len(calls[t])
    BY <1>4, <2>2 DEF Reverses
  <2>4. calls'[t][3] = calls[t][3]
    BY <1>2, <2>3
  <2>5. (Standing(t)' <=> Standing(t)) /\ (AtRest(t)' <=> AtRest(t))
    BY <1>3 DEF Standing, AtRest
  <2> QED BY <1>3, <2>2, <2>4, <2>5 DEF BrakeRight
<1> QED BY <1>6, <1>9, <1>10 DEF BrakeRight

\* No call of these lists turns a train around.
LEMMA NoReverse ==
    ASSUME NEW t \in Trains
    PROVE  /\ \A n \in Turnouts, curved \in BOOLEAN :
                 /\ ~ Occurs(SwitchTurnout(n, curved), Put(TurnAround(t)))
                 /\ SwitchTurnout(n, curved)[1].call = "PutBytes"
           /\ \A v \in Speeds : /\ ~ Occurs(SetSpeed(t, v), Put(TurnAround(t)))
                                /\ SetSpeed(t, v)[1].call = "PutBytes"
<1>1. ASSUME NEW n \in Turnouts, NEW curved \in BOOLEAN
      PROVE  /\ ~ Occurs(SwitchTurnout(n, curved), Put(TurnAround(t)))
             /\ SwitchTurnout(n, curved)[1].call = "PutBytes"
  <2>1. /\ \A m, d : Put(TurnAround(t)) # Put(Turn(m, d)) /\ Put(TurnAround(t)) # Tell(Turn(m, d))
        /\ ~ Waits(Put(TurnAround(t)))
    BY NotWaiting DEF Put, Tell, Turn, TurnAround
  <2> QED BY <2>1, TurnoutCalls, SwitchTurnoutList, Distinct
<1>2. ASSUME NEW v \in Speeds
      PROVE  /\ ~ Occurs(SetSpeed(t, v), Put(TurnAround(t)))
             /\ SetSpeed(t, v)[1].call = "PutBytes"
  <2>1. /\ Put(TurnAround(t)) # Put(Speed(t, v)) /\ Put(TurnAround(t)) # Tell(Speed(t, v))
        /\ Put(Speed(t, v)).call = "PutBytes"
    BY DEF Put, Tell, Speed, TurnAround
  <2>2. PICK s : s = SetSpeed(t, v)
    OBVIOUS
  <2>3. Len(s) = 2 /\ s[1] = Put(Speed(t, v)) /\ s[2] = Tell(Speed(t, v))
    BY <2>2, SetSpeedList
  <2>4. \A i \in 1 .. 2 : i = 1 \/ i = 2
    OBVIOUS
  <2>5. ~ Occurs(s, Put(TurnAround(t)))
    BY <2>1, <2>3, <2>4 DEF Occurs
  <2> QED BY <2>1, <2>2, <2>3, <2>5
<1> QED BY <1>1, <1>2

LEMMA BrakeList ==
    ASSUME NEW t \in Trains, NEW s \in Seq(Call), calls'[t] = s,
           ~ Occurs(s, Put(TurnAround(t))), s # << >> => s[1].call # "GetSpeed"
    PROVE  BrakeRight(t)'
<1>1. ASSUME NEW i \in 1 .. 4 PROVE ~ Reverses(t, i)'
  <2>1. i <= Len(s) => i \in 1 .. Len(s)
    OBVIOUS
  <2> QED BY <2>1 DEF Reverses, Occurs
<1> QED BY <1>1, BrakeNone

LEMMA BrakeOrder ==
    ASSUME TypeInv, TypeInv', ListsInv, careful, NEW t \in Trains, NEW v \in Speeds \cup {OwnSpeed},
           OrderReverse(t, v)
    PROVE  BrakeRight(t)'
<1>1. calls'[t] = <<[call |-> "GetSpeed", train |-> t, to |-> v]>>
  BY OrderReverseStep DEF StopAndReverse, Tasks
<1>2. record.trains[t].speed # 0 \/ AtRest(t)
  BY DEF OrderReverse
<1>3. actual' = actual /\ now' = now /\ record' = record
  BY DEF OrderReverse, Give
<1>4. record'.trains[t].speed # 0 \/ AtRest(t)'
  BY <1>2, <1>3 DEF AtRest
<1>5. PICK c : c = [call |-> "GetSpeed", train |-> t, to |-> v]
  OBVIOUS
<1>6. Len(calls'[t]) = 1 /\ calls'[t][1] = c
  BY <1>1, <1>5
<1>7. c # Put(TurnAround(t))
  BY <1>5 DEF Put
<1>8. ~ Reverses(t, 1)' /\ ~ Reverses(t, 2)' /\ ~ Reverses(t, 3)' /\ ~ Reverses(t, 4)'
  BY <1>6, <1>7 DEF Reverses
<1> QED BY <1>4, <1>8 DEF BrakeRight

LEMMA BrakeHelper ==
    ASSUME TypeInv, TypeInv', ListsInv, StartInv, TrainInv, NEW t \in Trains, BrakeRight(t),
           GetSpeed(t)
    PROVE  BrakeRight(t)'
<1>1. t \in Tasks
  BY DEF Tasks
<1>2. /\ ~ Idle(t) /\ NextCall(t).call = "GetSpeed"
      /\ \E to \in Speeds : calls'[t] = StopAndReverseHelper(t, record.trains[t].speed, to)
  BY <1>1, GetSpeedStep
<1>3. PICK p, to \in Speeds :
         p = record.trains[t].speed /\ calls'[t] = StopAndReverseHelper(t, p, to)
  BY <1>2 DEF TypeInv, TrainRecord
<1>4. PICK s : s = calls'[t]
  OBVIOUS
<1>5. /\ Len(s) = 8 /\ s[1] = Put(Speed(t, 0)) /\ s[2] = Tell(Speed(t, 0))
      /\ s[3] = Delay(p * BrakeTicks)
  BY <1>3, <1>4, HelperList
<1>6. NextCall(t) \in ToDo(t) /\ AtTrain(NextCall(t), t) /\ calls[t] # << >>
      /\ calls[t][1].call = "GetSpeed"
  <2>1. NextCall(t) \in ToDo(t) /\ NextCall(t) = calls[t][1] /\ NextCall(t) \in Call
    BY <1>1, <1>2, ToDoFacts, ListFacts DEF Waits
  <2>2. NextCall(t).train \in Trains
    BY <1>2, <2>1, CallKinds
  <2>3. AtTrain(NextCall(t), NextCall(t).train)
    BY <1>2 DEF AtTrain
  <2>4. NextCall(t).train = t
    <3>1. t # "speed_resetter"
      BY TasksAssumption DEF Resetters
    <3> QED BY <1>1, <2>1, <2>2, <2>3, <3>1, Driver
  <2> QED BY <1>2, <2>1, <2>3, <2>4 DEF Idle
<1>7. actual.trains[t].speed = p
  <2>1. ASSUME NEW k \in Tasks, NEW v \in Speeds, Now(k, Tell(Speed(t, v))) PROVE FALSE
    <3>1. Records(Tell(Speed(t, v)), t) /\ Tell(Speed(t, v)).call = "Send"
      BY Distinct DEF Records
    <3>2. k # t
      BY <1>2, <2>1, <3>1 DEF Now
    <3> QED BY <1>1, <1>6, <2>1, <3>1, <3>2, NoOther
  <2> QED BY <1>3, <2>1 DEF TrainInv, TrainRight
<1>8. Standing(t) => AtRest(t)
  BY <1>3, <1>6, <1>7 DEF BrakeRight, Standing
<1>9. actual' = actual /\ now' = now
  BY DEF GetSpeed
<1>10. Standing(t)' => AtRest(t)'
  BY <1>8, <1>9 DEF Standing, AtRest
<1>11. s[3].call = "Delay" /\ s[3].ticks >= BrakeTicks * actual'.trains[t].speed
  <2>1. s[3].call = "Delay" /\ s[3].ticks = p * 33
    BY <1>5, Distinct DEF BrakeTicks
  <2>2. p \in Nat
    BY CommandsAssumption
  <2> QED BY <1>7, <1>9, <2>1, <2>2 DEF BrakeTicks
<1>12. /\ s[1] # Put(TurnAround(t)) /\ s[2] # Put(TurnAround(t)) /\ s[3] # Put(TurnAround(t))
       /\ s[1].call # "GetSpeed"
  BY <1>5 DEF Put, Tell, Speed, Delay, TurnAround
<1> QED BY <1>4, <1>10, <1>11, <1>12 DEF BrakeRight, Reverses

LEMMA BrakeStarts ==
    ASSUME TypeInv, TypeInv', ListsInv, StartInv, TrainInv, careful, NEW t \in Trains,
           BrakeRight(t), Starts(t)
    PROVE  BrakeRight(t)'
<1>1. t \in Tasks /\ t \notin Switchers
  BY TasksAssumption DEF Tasks
<1>2. CASE \E n \in Turnouts, curved \in BOOLEAN : OrderTurnout(t, n, curved)
  <2>1. PICK n \in Turnouts, curved \in BOOLEAN : OrderTurnout(t, n, curved)
    BY <1>2
  <2>2. PICK s : s = SwitchTurnout(n, curved)
    OBVIOUS
  <2>3. calls'[t] = s
    BY <2>1, <2>2, OrderTurnoutStep
  <2>4. s \in Seq(Call) /\ ~ Occurs(s, Put(TurnAround(t))) /\ s[1].call = "PutBytes"
    BY <2>2, NoReverse, SwitchTurnoutList
  <2> QED BY <2>3, <2>4, BrakeList
<1>3. CASE \E v \in Speeds : OrderSpeed(t, v)
  <2>1. PICK v \in Speeds : OrderSpeed(t, v)
    BY <1>3
  <2>2. PICK s : s = SetSpeed(t, v)
    OBVIOUS
  <2>3. calls'[t] = s
    BY <2>1, <2>2, OrderSpeedStep
  <2>4. s \in Seq(Call) /\ ~ Occurs(s, Put(TurnAround(t))) /\ s[1].call = "PutBytes"
    BY <2>2, NoReverse, SetSpeedList
  <2> QED BY <2>3, <2>4, BrakeList
<1>4. CASE \E v \in Speeds \cup {OwnSpeed} : OrderReverse(t, v)
  BY <1>4, BrakeOrder
<1>5. CASE GetSpeed(t)
  BY <1>5, BrakeHelper
<1>6. ~ ReadClock(t) /\ ~ SwitchUnlessRecent(t)
  BY <1>1, ReadClockStep, TestStep
<1> QED BY <1>1, <1>2, <1>3, <1>4, <1>5, <1>6 DEF Starts

LEMMA BrakeNext ==
    ASSUME TypeInv, ListsInv, StartInv, TrainInv, BrakeInv, careful, TypeInv', [Next]_vars
    PROVE  BrakeInv'
<1> SUFFICES ASSUME NEW t \in Trains PROVE BrakeRight(t)'
  BY DEF BrakeInv
<1>t. BrakeRight(t) /\ t \in Tasks /\ now \in Nat
  BY DEF BrakeInv, Tasks, TypeInv
<1>1. ASSUME NEW k \in Tasks, k # t, Others(k), now' = now, actual'.trains[t] = actual.trains[t],
             record'.trains[t].speed = record.trains[t].speed
      PROVE  BrakeRight(t)'
  <2>1. calls'[t] = calls[t] /\ now' >= now
    BY <1>1, <1>t, OthersStay
  <2> QED BY <1>1, <1>t, <2>1, BrakeSame
<1>2. ASSUME NEW k \in Tasks, Starts(k) PROVE BrakeRight(t)'
  <2>1. CASE k = t
    BY <1>2, <1>t, <2>1, BrakeStarts
  <2>2. CASE k # t
    BY <1>1, <1>2, <2>2, StartsIs DEF Calm
  <2> QED BY <2>1, <2>2
<1>3. ASSUME NEW k \in Tasks, PutBytes(k) PROVE BrakeRight(t)'
  <2>1. CASE k = t
    BY <1>3, <1>t, <2>1, BrakePuts
  <2>2. CASE k # t
    <3>1. Others(k) /\ now' = now /\ record' = record /\ NextCall(k) \in ToDo(k)
      BY <1>3, TailSteps, PutKinds DEF PutBytes
    <3>2. CASE \E n \in Turnouts, d \in {"straight", "curved"} : NextCall(k) = Put(Turn(n, d))
      <4>1. actual'.trains = actual.trains
        BY <1>3, <3>2, PutTurn
      <4> QED BY <1>1, <2>2, <3>1, <4>1
    <3>3. CASE \E u \in Trains, v \in Speeds : NextCall(k) = Put(Speed(u, v))
      <4>1. PICK u \in Trains, v \in Speeds : NextCall(k) = Put(Speed(u, v))
        BY <3>3
      <4>2. CASE u = t
        <5>1. AtTrain(NextCall(k), t)
          BY <4>1, <4>2 DEF AtTrain, Put, Speed
        <5> QED BY <2>2, <3>1, <5>1, BrakeReset
      <4>3. CASE u # t
        <5>1. actual'.trains[t] = actual.trains[t]
          BY <1>3, <4>1, <4>3, PutSpeed
        <5> QED BY <1>1, <2>2, <3>1, <5>1
      <4> QED BY <4>2, <4>3
    <3>4. CASE \E u \in Trains : NextCall(k) = Put(TurnAround(u)) /\ k = u
      <4>1. actual'.trains[t] = actual.trains[t]
        BY <1>3, <2>2, <3>4, PutReverse
      <4> QED BY <1>1, <2>2, <3>1, <4>1
    <3> QED BY <1>3, <3>2, <3>3, <3>4, PutKinds
  <2> QED BY <2>1, <2>2
<1>4. ASSUME NEW k \in Tasks, TellTurnout(k) \/ TellDirection(k) \/ TellSpeed(k)
      PROVE  BrakeRight(t)'
  <2>1. CASE k = t
    BY <1>4, <1>t, <2>1, BrakeTells
  <2>2. CASE k # t
    <3>1. Others(k) /\ now' = now /\ actual' = actual /\ NextCall(k) \in ToDo(k)
      BY <1>4, TailSteps, TellKinds DEF TellTurnout, TellDirection, TellSpeed
    <3>2. CASE TellTurnout(k)
      <4>1. record'.trains = record.trains
        BY <3>2, TellKinds, TellTurnoutState
      <4> QED BY <1>1, <2>2, <3>1, <4>1
    <3>3. CASE TellDirection(k)
      <4>1. record'.trains[t] = record.trains[t]
        BY <2>2, <3>3, TellKinds, TellDirectionState
      <4> QED BY <1>1, <2>2, <3>1, <4>1
    <3>4. CASE TellSpeed(k)
      <4>1. PICK u \in Trains, v \in Speeds : NextCall(k) = Tell(Speed(u, v))
        BY <3>4, TellKinds
      <4>2. CASE u = t
        <5>1. AtTrain(NextCall(k), t)
          BY <4>1, <4>2 DEF AtTrain, Tell, Speed
        <5> QED BY <2>2, <3>1, <5>1, BrakeReset
      <4>3. CASE u # t
        <5>1. record'.trains[t] = record.trains[t]
          BY <3>4, <4>1, <4>3, TellSpeedState
        <5> QED BY <1>1, <2>2, <3>1, <5>1
      <4> QED BY <4>2, <4>3
    <3> QED BY <1>4, <3>2, <3>3, <3>4
  <2> QED BY <2>1, <2>2
<1>5. ASSUME NEW k \in Tasks, WakeUp(k) \/ GetDirection(k) PROVE BrakeRight(t)'
  <2>1. CASE k = t
    BY <1>5, <1>t, <2>1, BrakeWakes, BrakeAsks
  <2>2. CASE k # t
    <3>1. Others(k)
      BY <1>5, TailSteps, GetDirectionStep
    <3>2. now' = now /\ actual' = actual /\ record' = record
      BY <1>5 DEF WakeUp, GetDirection
    <3> QED BY <1>1, <2>2, <3>1, <3>2
  <2> QED BY <2>1, <2>2
<1>6. ASSUME \/ (\E u \in Trains : RequestUpdate(u)) \/ CoordinatesServerTakes \/ Tick
             \/ UNCHANGED vars
      PROVE  BrakeRight(t)'
  <2>1. calls' = calls /\ actual' = actual /\ record' = record /\ now' \in {now, now + TickStep}
    BY <1>6 DEF RequestUpdate, CoordinatesServerTakes, Tick, vars
  <2>2. now' >= now
    BY <1>t, <2>1 DEF TickStep
  <2> QED BY <1>t, <2>1, <2>2, BrakeSame
<1> QED BY <1>2, <1>3, <1>4, <1>5, <1>6, NextIs

----------------------------------------------------------------------------
(* The start. *)

LEMMA InitState == ASSUME Init PROVE TypeInv
<1>1. 0 \in Speeds /\ Speeds \subseteq Nat
  BY CommandsAssumption
<1>2. now = 60 /\ lastSwitch = [n \in Turnouts |-> 0] /\ forward = Nothing /\ careful \in BOOLEAN
  BY DEF Init, StartTime
<1>3. PICK dirs \in [Turnouts -> {"straight", "curved"}] :
         actual = [turnouts |-> dirs,
                   trains |-> [t \in Trains |->
                                  [speed |-> 0, was |-> 0, since |-> 0, dir |-> TRUE]]]
  BY DEF Init
<1>4. PICK dir \in Directions :
         copy = [turnouts |-> [n \in Turnouts |-> dir],
                 trains |-> [t \in Trains |-> [speed |-> 0, dir |-> TRUE]]]
  BY DEF Init
<1>5. record = [turnouts |-> [n \in Turnouts |-> "unknown"],
                trains |-> [t \in Trains |-> [speed |-> 0, dir |-> TRUE]]]
  BY DEF Init
<1>6. actual \in [turnouts : [Turnouts -> {"straight", "curved"}], trains : [Trains -> TrainState]]
  BY <1>1, <1>3 DEF TrainState
<1>7. copy \in [turnouts : [Turnouts -> Directions], trains : [Trains -> TrainRecord]]
  BY <1>1, <1>4 DEF TrainRecord
<1>8. record \in [turnouts : [Turnouts -> Directions], trains : [Trains -> TrainRecord]]
  BY <1>1, <1>5 DEF TrainRecord, Directions
<1> QED BY <1>2, <1>6, <1>7, <1>8 DEF TypeInv

\* Only the resetters have something to do.
LEMMA InitCalls ==
    ASSUME Init
    PROVE  /\ ListsInv /\ StartInv
           /\ calls["turnout_resetter"] = TurnoutResetter
           /\ \A k \in Trains \cup Switchers : calls[k] = << >>
           /\ \A k \in Tasks : \A c : Now(k, c) => c.call = "PutBytes"
<1>1. calls = [k \in Tasks |-> CASE k = "turnout_resetter" -> TurnoutResetter
                                 [] k = "speed_resetter" -> SpeedResetter
                                 [] OTHER -> << >>]
  BY DEF Init
<1>2. /\ "turnout_resetter" \in Tasks /\ "speed_resetter" \in Tasks
      /\ \A k \in Trains \cup Switchers : k \in Tasks /\ k \notin Resetters
      /\ \A k \in Tasks : k \in Resetters \/ k \in Trains \cup Switchers
  BY TasksAssumption DEF Tasks, Resetters
<1>3. /\ calls["turnout_resetter"] = TurnoutResetter /\ calls["speed_resetter"] = SpeedResetter
      /\ \A k \in Trains \cup Switchers : calls[k] = << >>
  BY <1>1, <1>2 DEF Resetters
<1>4. ASSUME NEW k \in Tasks PROVE Plain(k, calls[k])
  <2>1. CASE k \in Resetters
    BY <1>3, <2>1, TurnoutResetterIs, SpeedResetterIs DEF Resetters
  <2>2. CASE k \in Trains \cup Switchers
    <3>1. Len(<< >>) = 0 /\ << >> \in Seq(Call)
      OBVIOUS
    <3> QED BY <1>3, <2>2, <3>1, EmptyIs DEF Plain
  <2> QED BY <1>2, <2>1, <2>2
<1>5. ListsInv
  BY <1>1, <1>4 DEF ListsInv, Plain
<1>6. StartInv
  BY <1>3 DEF StartInv, Idle
<1>7. \A k \in Tasks : \A c : Now(k, c) => c.call = "PutBytes"
  BY <1>4, <1>5, ListFacts DEF Plain, Now, Idle
<1> QED BY <1>3, <1>5, <1>6, <1>7

\* The resetter is going to set every turnout.
LEMMA InitTurns ==
    ASSUME Init, NEW n \in Turnouts
    PROVE  Put(Turn(n, Dir(n \notin {154, 156}))) \in ToDo("turnout_resetter")
           /\ Dir(n \notin {154, 156}) \in {"straight", "curved"}
           /\ Touches("turnout_resetter", n)
<1>1. PICK d : d = Dir(n \notin {154, 156}) /\ d \in {"straight", "curved"}
  BY DEF Dir
<1>2. Put(Turn(n, d)) \in Call /\ ~ Waits(Put(Turn(n, d)))
  BY <1>1, CallsMade, NotWaiting
<1>3. Occurs(TurnoutResetter, Put(Turn(n, d)))
  BY <1>1, TurnoutResetterIs
<1>4. Put(Turn(n, d)) \in ToDo("turnout_resetter")
  BY <1>2, <1>3, InitCalls DEF ToDo
<1>5. AtTurnout(Put(Turn(n, d)), n)
  BY DEF AtTurnout, Put, Turn
<1>6. Touches("turnout_resetter", n)
  BY <1>4, <1>5, InitCalls, ToDoFacts DEF Tasks, Resetters
<1> QED BY <1>1, <1>4, <1>6

LEMMA InitCrossing == ASSUME Init PROVE CrossingInv
<1> SUFFICES ASSUME NEW n \in Turnouts \cap DOMAIN Paired PROVE Straightens(n)
  BY InitCalls, CrossingIs
<1>1. PICK m \in {154, 156} : m \in Halves(n)
  <2>1. n \in {153, 154, 155, 156}
    BY DEF Paired
  <2> QED BY <2>1 DEF Halves, Paired
<1>2. m \in Turnouts /\ Dir(m \notin {154, 156}) = "straight"
  BY <1>1, HalvesFacts DEF Dir
<1>3. Put(Turn(m, "straight")) \in ToDo("turnout_resetter")
  BY <1>2, InitTurns
<1> QED BY <1>1, <1>3 DEF Straightens, Tasks, Resetters

LEMMA InitRecords == ASSUME Init PROVE TestInv /\ CopyInv /\ TrainInv /\ TurnoutInv
<1>1. \A k \in Tasks : \A c : Now(k, c) => c.call = "PutBytes"
  BY InitCalls
<1>2. TestInv
  BY <1>1, TestIs
<1>3. /\ \A t \in Trains : /\ actual.trains[t].speed = 0 /\ actual.trains[t].dir = TRUE
                           /\ record.trains[t].speed = 0 /\ record.trains[t].dir = TRUE
                           /\ copy.trains[t].speed = 0 /\ copy.trains[t].dir = TRUE
      /\ forward.kind = "nothing"
  <2>1. PICK dirs \in [Turnouts -> {"straight", "curved"}] :
           actual = [turnouts |-> dirs,
                     trains |-> [t \in Trains |->
                                    [speed |-> 0, was |-> 0, since |-> 0, dir |-> TRUE]]]
    BY DEF Init
  <2>2. PICK dir \in Directions :
           copy = [turnouts |-> [n \in Turnouts |-> dir],
                   trains |-> [t \in Trains |-> [speed |-> 0, dir |-> TRUE]]]
    BY DEF Init
  <2>3. record = [turnouts |-> [n \in Turnouts |-> "unknown"],
                  trains |-> [t \in Trains |-> [speed |-> 0, dir |-> TRUE]]]
    BY DEF Init
  <2>4. forward = Nothing
    BY DEF Init
  <2> QED BY <2>1, <2>2, <2>3, <2>4 DEF Nothing
<1>4. CopyInv
  <2>1. \A n \in Turnouts : Touches("turnout_resetter", n)
    BY InitTurns
  <2>2. ASSUME NEW t \in Trains
        PROVE  /\ copy.trains[t].speed = record.trains[t].speed
               /\ (copy.trains[t].dir # record.trains[t].dir) <=>
                     (forward.kind = "reversed" /\ forward.train = t)
    BY <1>3
  <2>3. forward.kind # "turnouts" /\ forward.kind # "speed"
    BY <1>3
  <2> QED BY <2>1, <2>2, <2>3 DEF CopyInv
<1>5. \A t \in Trains : \A c : Records(c, t) => c.call # "PutBytes"
  BY RecordsKinds
<1>6. ASSUME NEW t \in Trains PROVE TrainRight(t)
  <2>1. \A k \in Tasks, v \in Speeds : ~ Now(k, Tell(Speed(t, v)))
    BY <1>1, Distinct
  <2>2. ~ Now(t, AskDirection(t)) /\ \A d \in BOOLEAN : ~ Now(t, Tell(Direction(t, d)))
    BY <1>1, Distinct DEF Tasks
  <2> QED BY <1>3, <2>1, <2>2 DEF TrainRight
<1>7. ASSUME NEW n \in Turnouts PROVE TurnRight(n)
  <2>1. \A k \in Tasks, d \in Lie : ~ Now(k, Tell(Turn(n, d)))
    BY <1>1, Distinct
  <2>2. \E d \in Lie : Put(Turn(n, d)) \in ToDo("turnout_resetter")
    BY InitTurns DEF Lie
  <2> QED BY <2>1, <2>2, InitCalls, TurnIs
<1> QED BY <1>2, <1>4, <1>6, <1>7 DEF TrainInv, TurnoutInv

LEMMA InitAlone == ASSUME Init PROVE AloneInv /\ BrakeInv
<1>1. ASSUME NEW k \in Tasks, NEW n \in Turnouts, Touches(k, n) PROVE k = "turnout_resetter"
  <2>1. PICK c \in ToDo(k) : AtTurnout(c, n) /\ Belongs(k, c)
    BY <1>1, InitCalls, ToDoFacts
  <2>2. k # "speed_resetter"
    BY <2>1 DEF Belongs
  <2>3. k \notin Trains \cup Switchers
    BY <1>1, <2>1, InitCalls, ToDoFacts DEF Idle
  <2> QED BY <2>2, <2>3 DEF Tasks, Resetters
<1>2. \A k \in Tasks, n \in Turnouts : Busy(k, n) => k = "turnout_resetter"
  BY <1>1, HalvesFacts DEF Busy
<1>3. \A k \in Switchers, n \in Turnouts : ~ Holds(k, n)
  BY <1>1, InitCalls, SetsTouches, TasksAssumption DEF Tasks, Resetters
<1>4. AloneInv
  BY <1>1, <1>2, <1>3 DEF AloneInv
<1>5. ASSUME NEW t \in Trains PROVE BrakeRight(t)
  <2>1. calls[t] = << >> /\ Len(calls[t]) = 0
    BY InitCalls
  <2>2. ~ Reverses(t, 1) /\ ~ Reverses(t, 2) /\ ~ Reverses(t, 3) /\ ~ Reverses(t, 4)
    BY <2>1 DEF Reverses
  <2> QED BY <2>1, <2>2 DEF BrakeRight
<1> QED BY <1>4, <1>5 DEF BrakeInv

----------------------------------------------------------------------------
(* The invariant. *)

Careful == AloneInv /\ TurnoutInv /\ BrakeInv

Inv ==
    /\ TypeInv /\ ListsInv /\ StartInv /\ TestInv
    /\ CrossingInv /\ CopyInv /\ TrainInv
    /\ careful => Careful

LEMMA InvInit == ASSUME Init PROVE Inv
BY InitState, InitCalls, InitCrossing, InitRecords, InitAlone DEF Inv, Careful

LEMMA InvNext == ASSUME Inv, [Next]_vars PROVE Inv'
<1>1. TypeInv' /\ careful' = careful /\ ListsInv' /\ StartInv'
  BY TypeNext, ListsNext DEF Inv
<1>2. TestInv' /\ CrossingInv'
  BY <1>1, TestNext, CrossingNext DEF Inv
<1>3. TrainInv' /\ CopyInv'
  BY <1>1, TrainNext, CopyNext DEF Inv
<1>4. ASSUME careful PROVE Careful'
  <2>1. AloneInv' /\ TurnoutInv' /\ BrakeInv'
    BY <1>1, <1>4, AloneNext, TurnNext, BrakeNext DEF Inv, Careful
  <2> QED BY <2>1 DEF Careful
<1> QED BY <1>1, <1>2, <1>3, <1>4 DEF Inv

LEMMA InvAlways == Spec => []Inv
<1>1. Init => Inv
  BY InvInit
<1>2. Inv /\ [Next]_vars => Inv'
  BY InvNext
<1> QED BY <1>1, <1>2, PTL DEF Spec

----------------------------------------------------------------------------
(* What it implies. *)

\* Somebody who will set a half of a crossing to straight is at it.
LEMMA ApartFollows == ASSUME ListsInv, CrossingInv PROVE PairsApart
<1> SUFFICES ASSUME NEW n \in Turnouts \cap DOMAIN Paired, NobodyAt(Tasks, Halves(n)), BothCurved(n)
             PROVE  FALSE
  BY DEF PairsApart, BothCurved
<1>1. PICK k \in Tasks, m \in Halves(n) : Put(Turn(m, "straight")) \in ToDo(k)
  BY CrossingIs DEF Straightens
<1>2. AtTurnout(Put(Turn(m, "straight")), m)
  BY DEF AtTurnout, Put, Turn
<1>3. Touches(k, m)
  BY <1>1, <1>2, ToDoFacts
<1> QED BY <1>3 DEF NobodyAt

\* A task that commands or records a turnout is at it.
LEMMA RecordOfTurnout ==
    ASSUME ListsInv, TurnoutInv, CopyInv, forward = Nothing,
           NEW n \in Turnouts, NobodyAt(Tasks, {n})
    PROVE  record.turnouts[n] = actual.turnouts[n] /\ copy.turnouts[n] = actual.turnouts[n]
<1>1. \A k \in Tasks : ~ Touches(k, n)
  BY DEF NobodyAt
<1>2. \A k \in Tasks : \A c \in ToDo(k) : ~ AtTurnout(c, n)
  BY <1>1, ToDoFacts
<1>3. \A d : AtTurnout(Tell(Turn(n, d)), n) /\ AtTurnout(Put(Turn(n, d)), n)
  BY DEF AtTurnout, Tell, Put, Turn
<1>4. "turnout_resetter" \in Tasks
  BY DEF Tasks, Resetters
<1>5. ASSUME NEW k \in Tasks, NEW d, Now(k, Tell(Turn(n, d))) PROVE FALSE
  <2>1. ~ Waits(Tell(Turn(n, d)))
    BY DEF Waits, Tell
  <2>2. Tell(Turn(n, d)) \in ToDo(k)
    BY <1>5, <2>1, ToDoFacts DEF Now
  <2> QED BY <1>2, <1>3, <2>2
<1>6. TurnRight(n)
  BY DEF TurnoutInv
<1>7. record.turnouts[n] = actual.turnouts[n]
  BY <1>2, <1>3, <1>4, <1>5, <1>6, TurnIs
<1>8. copy.turnouts[n] = record.turnouts[n]
  <2>1. forward.kind # "turnouts"
    BY DEF Nothing
  <2> QED BY <1>1, <1>4, <2>1 DEF CopyInv
<1> QED BY <1>7, <1>8

\* A task that records a train drives it.
LEMMA RecordOfTrain ==
    ASSUME TypeInv, ListsInv, TrainInv, CopyInv, forward = Nothing,
           NEW t \in Trains, \A k \in Tasks : ~ Drives(k, t)
    PROVE  LET is == [speed |-> actual.trains[t].speed, dir |-> actual.trains[t].dir]
           IN  record.trains[t] = is /\ copy.trains[t] = is
<1>1. ASSUME NEW k \in Tasks, NEW c, Now(k, c), Records(c, t) PROVE FALSE
  <2>1. AtTrain(c, t) /\ ~ Waits(c)
    BY <1>1, RecordsKinds DEF Waits
  <2>2. c \in ToDo(k)
    BY <1>1, <2>1, ToDoFacts DEF Now
  <2> QED BY <2>1, <2>2, ToDoFacts
<1>2. t \in Tasks /\ TrainRight(t)
  BY DEF Tasks, TrainInv
<1>3. /\ \A k \in Tasks, v \in Speeds : ~ Now(k, Tell(Speed(t, v)))
      /\ ~ Now(t, AskDirection(t))
      /\ \A d \in BOOLEAN : ~ Now(t, Tell(Direction(t, d)))
  BY <1>1, <1>2 DEF Records
<1>4. /\ record.trains[t].speed = actual.trains[t].speed
      /\ record.trains[t].dir = actual.trains[t].dir
  BY <1>2, <1>3 DEF TrainRight
<1>5. /\ copy.trains[t].speed = record.trains[t].speed
      /\ copy.trains[t].dir = record.trains[t].dir
  <2>1. forward.kind # "reversed"
    BY DEF Nothing
  <2> QED BY <2>1 DEF CopyInv
<1>6. record.trains[t] \in TrainRecord /\ copy.trains[t] \in TrainRecord
  BY DEF TypeInv
<1>7. \A r \in TrainRecord : r = [speed |-> r.speed, dir |-> r.dir]
  BY DEF TrainRecord
<1> QED BY <1>4, <1>5, <1>6, <1>7

LEMMA TrueFollows == ASSUME Inv PROVE RecordTrue
BY RecordOfTurnout, RecordOfTrain DEF Inv, Careful, RecordTrue

\* Only a train's own task turns it around, as its next call.
LEMMA ReversesResting ==
    ASSUME TypeInv, ListsInv, BrakeInv, [Next]_vars, NEW t \in Trains,
           actual'.trains[t].dir # actual.trains[t].dir
    PROVE  AtRest(t)
<1>1. ASSUME NEW k \in Tasks, PutBytes(k) PROVE AtRest(t)
  <2>1. CASE \E n \in Turnouts, d \in {"straight", "curved"} : NextCall(k) = Put(Turn(n, d))
    BY <1>1, <2>1, PutTurn
  <2>2. CASE \E u \in Trains, v \in Speeds : NextCall(k) = Put(Speed(u, v))
    <3>1. PICK u \in Trains, v \in Speeds : NextCall(k) = Put(Speed(u, v))
      BY <2>2
    <3> QED BY <1>1, <3>1, PutSpeed
  <2>3. CASE \E u \in Trains : NextCall(k) = Put(TurnAround(u)) /\ k = u
    <3>1. NextCall(t) = Put(TurnAround(t)) /\ k = t
      BY <1>1, <2>3, PutReverse
    <3>2. ~ Idle(t) /\ 1 <= Len(calls[t]) /\ NextCall(t) = calls[t][1]
      BY <1>1, <3>1, ListFacts, SMTT(40) DEF PutBytes, Calls
    <3>3. Reverses(t, 1)
      BY <3>1, <3>2 DEF Reverses
    <3> QED BY <3>3 DEF BrakeInv, BrakeRight
  <2> QED BY <1>1, <2>1, <2>2, <2>3, PutKinds
<1>2. ASSUME actual' = actual PROVE FALSE
  BY <1>2
<1>3. ASSUME NEW k \in Tasks, Starts(k) PROVE FALSE
  BY <1>2, <1>3, StartsIs DEF Calm
<1>4. ASSUME NEW k \in Tasks, \/ TellTurnout(k) \/ TellDirection(k) \/ TellSpeed(k)
                              \/ WakeUp(k) \/ GetDirection(k)
      PROVE  FALSE
  BY <1>2, <1>4 DEF TellTurnout, TellDirection, TellSpeed, WakeUp, GetDirection
<1>5. ASSUME \/ (\E u \in Trains : RequestUpdate(u)) \/ CoordinatesServerTakes \/ Tick
             \/ UNCHANGED vars
      PROVE  FALSE
  BY <1>2, <1>5 DEF RequestUpdate, CoordinatesServerTakes, Tick, vars
<1> QED BY <1>1, <1>3, <1>4, <1>5, NextIs

----------------------------------------------------------------------------
\* switch_turnout sets the other half of a crossing to straight after the first to curved, so
\* however the orders for the two meet, both are curved only while one will be set.
THEOREM PairsApartAlways == Spec => []PairsApart
<1>1. Inv => PairsApart
  BY ApartFollows DEF Inv
<1> QED BY <1>1, InvAlways, PTL

\* Whoever commands a turnout or a train tells the track state controller next, and that
\* the coordinates server: both are right about whatever nobody is at, if no two orders for
\* one turnout are under way but those of switchers, of which the last switch time stops all
\* but one.
THEOREM RecordTrueAlways == Spec => []RecordTrue
<1>1. Inv => RecordTrue
  BY TrueFollows
<1> QED BY <1>1, InvAlways, PTL

\* stop_and_reverse_train waits, from when the train was stopped, for as long as its speed
\* takes to be braked: no train that was not still rolling before changes its direction on
\* the way.
THEOREM ReversedAtRestAlways == Spec => ReversedAtRest
<1> DEFINE Turned ==
       careful => \A t \in Trains : actual'.trains[t].dir # actual.trains[t].dir => AtRest(t)
<1>1. Inv /\ [Next]_vars => [Turned]_vars
  BY ReversesResting DEF Inv, Careful
<1>2. Spec => [][Turned]_vars
  <2> HIDE DEF Turned
  <2> QED BY <1>1, InvAlways, PTL DEF Spec
<1> QED BY <1>2 DEF ReversedAtRest

==============================================================================

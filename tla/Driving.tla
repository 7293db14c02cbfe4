------------------------------- MODULE Driving -------------------------------
(***************************************************************************)
(* A train is driven to a goal: the conductor (conductor_route_to of       *)
(* usr/train/train_conductor.c), its courier                               *)
(* (usr/train/coordinate_courier.c) and the coordinates server's estimate  *)
(* of the train, on layout B.  The courier looks at the estimate every     *)
(* four ticks and tells the conductor when the train is at a place the     *)
(* conductor asked about, has reached another node, is lost or is found    *)
(* again; the conductor then switches, stops or plans anew, and asks about *)
(* new places.                                                             *)
(*                                                                         *)
(* The train itself is what the contacts say of it: at each sensor it is   *)
(* reported when the estimate gets there, earlier, later or never.  Calls  *)
(* take no time except that some ticks (lag) may pass between the          *)
(* courier's look and the conductor's own.                                 *)
(***************************************************************************)
EXTENDS Motion, SequencesExt

CONSTANTS
    Train,
    Trips,          \* where a train is and how fast it may be when the command comes, what
                    \* may be asked for, and how many reports may be wrong until the end:
                    \* a missing one counts once, an early or late one twice (bound)
    Lags,
    Phases,         \* ticks until the model courier tells the speed again
    Earlies,        \* how far before a sensor its report may come
    Lates,          \* how far after it
    Finds           \* the sensors at which a lost train may be seen again

SWITCH_LOOKAHEAD_NODES == 10
SWITCH_DIST_Millimetres == 150        \* slip
SWITCH_DIST == 15000
MAX_LOCATIONS_TO_OBSERVE == 10
MAX_REQUESTED_SWITCHES == 5
DELAY_BETWEEN_SW == 50
TRAIN_MODEL_COURIER_REFRESH_PERIOD == 200
CourierInterval == 4
ViewInterval == 6       \* somebody asks for the estimate at least this often

T == TrackBAsIs

Goals == {trip.to.node : trip \in Trips}

ASSUME DrivingAssumption ==
    /\ Train \in 1 .. 80
    /\ \A trip \in Trips : /\ trip.from.node \in Sensors(T) \cup {NullNode}
                           /\ trip.speed \in 0 .. 14 /\ trip.faults \in Nat
    /\ Goals \subseteq Sensors(T) /\ Finds \subseteq Sensors(T)

VARIABLES
    turnouts,   \* how the turnouts lie, as commanded and recorded
    debounce,   \* ticks until a switcher may switch a turnout again
    estimate,   \* the coordinates server's coordinates of the train
    passed,     \* the sensor it took the train to be at last, how many without a report
    contacts,   \* reports that were wrong, and one that is still to come
    refresh,    \* ticks until the model courier runs
    conductor,  \* where it is in its program, and ticks until it goes on
    goal,       \* the location to drive to
    route,
    courier     \* ticks until it looks again, what it saw last, what it was asked about

vars == <<turnouts, debounce, estimate, passed, contacts, refresh, conductor, goal, route,
          courier>>

Located == estimate.loc.node # NullNode

----------------------------------------------------------------------------
(* Routes: what the router answers (module Router: RouteBest).                *)

RouteFrom == BestRoutes(T, Goals)

GetRoute(loc) == RouteFrom[goal.node][loc.node]

----------------------------------------------------------------------------
(* Places to be told about. *)

NoRequest == [reason |-> "NONE", loc |-> NoLoc, num |-> 0, curved |-> FALSE]
NoRequests == [i \in 1 .. MAX_LOCATIONS_TO_OBSERVE |-> NoRequest]

\* The turnouts ahead, the next one first.
RECURSIVE SwitchRequests(_, _)
SwitchRequests(loc, most) ==
    LET next == PredictNextSwitch(T, route, loc, SWITCH_DIST, SWITCH_LOOKAHEAD_NODES)
    IN  IF most = 0 \/ next = NoSwitch THEN << >>
        ELSE <<[reason |-> "LOCATION_TO_SWITCH", loc |-> next.loc,
                num |-> next.num, curved |-> next.curved]>>
             \o SwitchRequests(Loc(TurnoutNode(T, next.num), 1), most - 1)

StopRequest(c) ==
    [NoRequest EXCEPT !.reason = "LOCATION_TO_STOP",
                      !.loc = PredictTrainStop(T, route, c.loc,
                                               StoppingDistFromVelocity(Train, c.target))]

CraftNewTriggers(c) ==
    Append(SwitchRequests(c.loc, MAX_REQUESTED_SWITCHES), StopRequest(c))

\* Slots are filled from the first free one on, never going back.
FreeSlots(slots, from) == {k \in from .. MAX_LOCATIONS_TO_OBSERVE : slots[k] = NoRequest}

Near(a, b) == a.node = b.node /\ a.offset - b.offset \in -299 .. 299

Replaces(r, old) ==
    /\ r.reason = old.reason /\ r.num = old.num /\ r.curved = old.curved

\* One request against the places already watched: it replaces those it stands for; near
\* one of them it is a duplicate and is dropped, unless it has replaced one before.
Compare(acc, k, r) ==
    LET old == acc.slots[k]
        over == acc.over \/ Replaces(r, old)
    IN  IF old = NoRequest \/ (acc.dup /\ ~ acc.over) THEN acc
        ELSE [slots |-> IF Replaces(r, old) THEN [acc.slots EXCEPT ![k] = NoRequest]
                        ELSE acc.slots,
              dup |-> acc.dup \/ Near(r.loc, old.loc), over |-> over]

IsDuplicate_Anyway(seen) == seen.dup                                 \* slip

IsDuplicate(seen) == seen.dup /\ ~ seen.over

AddRequest(acc, r) ==
    LET seen == FoldLeft(LAMBDA a, k : Compare(a, k, r),
                         [slots |-> acc.slots, dup |-> FALSE, over |-> FALSE],
                         [k \in 1 .. MAX_LOCATIONS_TO_OBSERVE |-> k])
        free == FreeSlots(seen.slots, acc.j)
        j == CHOOSE k \in free : \A m \in free : k <= m
    IN  CASE acc.full \/ acc.j > MAX_LOCATIONS_TO_OBSERVE -> [acc EXCEPT !.full = TRUE]
          [] IsDuplicate(seen) -> [acc EXCEPT !.slots = seen.slots]
          [] free = {} -> [acc EXCEPT !.slots = seen.slots, !.j = MAX_LOCATIONS_TO_OBSERVE + 1]
          [] OTHER -> [slots |-> [seen.slots EXCEPT ![j] = r], j |-> j, full |-> FALSE]

\* add_notification_requests; full: TOO_MANY_NOTIFICATION_REQUESTS.
AddNotificationRequests(slots, requests) ==
    FoldLeft(AddRequest, [slots |-> slots, j |-> 1, full |-> FALSE], requests)

----------------------------------------------------------------------------
(* The courier: what it has to tell. *)

FreshCourier == [wait |-> 0, first |-> TRUE, findAny |-> FALSE, last |-> NullNode,
                 slots |-> NoRequests]

Due(slots, loc) ==
    {k \in DOMAIN slots : slots[k] # NoRequest /\ LocationIsGe(T, loc, slots[k].loc)}

FirstDue(slots, loc) == CHOOSE k \in Due(slots, loc) : \A m \in Due(slots, loc) : k <= m

\* coordinates_to_notification, at the estimate as it is.
Notification ==
    LET due == Due(courier.slots, estimate.loc)
    IN  CASE ~ Located -> [NoRequest EXCEPT !.reason = "GOT_LOST"]
          [] Located /\ due # {} -> courier.slots[FirstDue(courier.slots, estimate.loc)]
          [] Located /\ due = {} /\ estimate.loc.node # courier.last ->
                [NoRequest EXCEPT !.reason = "LOCATION_CHANGED"]
          [] OTHER -> NoRequest

FreshLoss == ~ Located /\ courier.last # NullNode

\* Whether the courier sends, and what: first of all, and when the train is found again, it
\* only tells the conductor where the train is.
Sends ==
    \/ courier.first \/ (courier.findAny /\ Located)
    \/ Notification # NoRequest /\ (Located \/ FreshLoss)

Told ==
    IF Located /\ (courier.first \/ courier.findAny)
    THEN [NoRequest EXCEPT !.reason = "LOCATION_ANY"] ELSE Notification

\* A notification is given once.
SlotsAfterLook ==
    IF Located /\ Due(courier.slots, estimate.loc) # {}
    THEN [courier.slots EXCEPT ![FirstDue(courier.slots, estimate.loc)] = NoRequest]
    ELSE courier.slots

----------------------------------------------------------------------------
(* Commands to the train and its turnouts (module Commands), when all is told. *)

\* The servers are told of a speed only when it is another one.
SetSpeed(speed) ==
    IF speed = estimate.speed THEN estimate
    ELSE AfterSpeedChange(Train, estimate, speed, estimate.speed)

Paired == [n \in 153 .. 156 |-> IF n % 2 = 1 THEN n + 1 ELSE n - 1]

SwitchTurnout(ts, num, curved) ==
    [n \in DOMAIN ts |->
        CASE n = num -> IF curved THEN "curved" ELSE "straight"
          [] n # num /\ num \in DOMAIN Paired /\ n = Paired[num] /\ curved -> "straight"
          [] OTHER -> ts[n]]

\* A switcher does nothing when another has just been at the turnout.
SwitcherTurnout(num, curved) ==
    IF debounce[num] > 0 THEN UNCHANGED <<turnouts, debounce>>
    ELSE /\ turnouts' = SwitchTurnout(turnouts, num, curved)
         /\ debounce' = [debounce EXCEPT ![num] = DELAY_BETWEEN_SW]

----------------------------------------------------------------------------
(* The conductor. *)

At(pc, wait) == [conductor EXCEPT !.pc = pc, !.wait = wait]
Ended == conductor.pc \in {"done", "failed", "undefined"}

Init ==
    /\ turnouts = [n \in TurnoutNumbers |->
                      IF n \in {154, 156} THEN "straight" ELSE "curved"]
    /\ debounce = [n \in TurnoutNumbers |-> 0]
    /\ \E trip \in Trips :
          /\ estimate = Coordinates(trip.from, SpeedToVelocity[Train][trip.speed + 1],
                                    trip.speed)
          /\ passed = [sensor |-> trip.from.node, count |-> 0]
          /\ goal = trip.to
          /\ contacts = [faults |-> 0, most |-> trip.faults, pending |-> NullNode, way |-> 0]
    /\ refresh \in Phases
    /\ \E lag \in Lags :
          conductor = [pc |-> "ready", wait |-> 0, lag |-> lag, turns |-> 0,
                       drop |-> FALSE, lost |-> FALSE, todo |-> {}, rest |-> 0]
    /\ route = NoRoute
    /\ courier = FreshCourier

SpeedToBeFound_Same == estimate                                      \* slip

\* A lost train that stands is sent on its way.
SpeedToBeFound == IF ~ Located /\ estimate.speed = 0 THEN SetSpeed(12) ELSE estimate

Command ==
    /\ conductor.pc = "ready"
    /\ estimate' = SpeedToBeFound
    /\ conductor' = At("planning", 0)
    /\ UNCHANGED <<turnouts, debounce, passed, contacts, refresh, goal, route, courier>>

\* When the train is located: a train that is past the goal turns, and one that has no way
\* to it, but only once more; then it is set on its way, if there is room for a speed.
BehindGoal ==
    /\ conductor.turns = 0
    /\ estimate.loc.node = goal.node /\ estimate.loc.offset > goal.offset

MustTurn == BehindGoal \/ (GetRoute(estimate.loc) = NoRoute /\ conductor.turns < 2)

TurnFirst ==
    /\ conductor.pc = "planning" /\ Located /\ MustTurn
    /\ conductor' = [At("braking", 33 * estimate.speed)
                        EXCEPT !.turns = IF BehindGoal THEN 1 ELSE 2]
    /\ estimate' = SetSpeed(0)
    /\ UNCHANGED <<turnouts, debounce, passed, contacts, refresh, goal, route, courier>>

TurnAround ==
    /\ conductor.pc = "braking" /\ conductor.wait = 0
    /\ conductor' = At("turning", 8)
    /\ estimate' = AfterReverse(T, estimate)
    /\ UNCHANGED <<turnouts, debounce, passed, contacts, refresh, goal, route, courier>>

PlanAgain ==
    /\ conductor.pc = "turning" /\ conductor.wait = 0
    /\ conductor' = At(IF Located THEN "planning" ELSE "undefined", 0)
    /\ UNCHANGED <<turnouts, debounce, estimate, passed, contacts, refresh, goal, route, courier>>

SizeOf(x) == IF x < 0 THEN - x ELSE x

SetOff ==
    /\ conductor.pc = "planning" /\ Located /\ ~ MustTurn
    /\ route' = GetRoute(estimate.loc)
    /\ LET speed == MaxFeasibleSpeed(Train, SizeOf(RemainingDist(T, route', estimate.loc)))
       IN  IF route' = NoRoute \/ speed = -1
           THEN conductor' = At("quitting", 0) /\ UNCHANGED estimate
           ELSE /\ conductor' = At("receive", 0)
                /\ estimate' = IF conductor.turns = 1 \/ estimate.speed = 0
                               THEN SetSpeed(speed) ELSE estimate
    /\ courier' = FreshCourier
    /\ UNCHANGED <<turnouts, debounce, passed, contacts, refresh, goal>>

----------------------------------------------------------------------------
(* The loop of route_to_within_stopping_distance. *)

Looks == conductor.pc = "receive" /\ courier.wait = 0

\* The courier has nothing to tell.
LookInVain ==
    /\ Looks /\ ~ Sends
    /\ courier' = [courier EXCEPT !.wait = CourierInterval, !.slots = SlotsAfterLook]
    /\ UNCHANGED <<turnouts, debounce, estimate, passed, contacts, refresh, conductor, goal,
                   route>>

Notify(reason) ==
    /\ Looks /\ Sends /\ Told.reason = reason
    /\ courier' = [courier EXCEPT !.first = FALSE, !.slots = SlotsAfterLook,
                      !.findAny = FreshLoss \/ (@ /\ ~ Located), !.last = estimate.loc.node]
    /\ UNCHANGED <<estimate, passed, contacts, refresh, goal>>

\* The conductor goes on to ask about new places.
Craft(drop, lost) ==
    conductor' = [At("crafting", conductor.lag) EXCEPT !.drop = drop, !.lost = lost]

\* reroute
Reroute ==
    IF GetRoute(estimate.loc) = NoRoute
    THEN conductor' = At("quitting", 0) /\ UNCHANGED route
    ELSE Craft(TRUE, FALSE) /\ route' = GetRoute(estimate.loc)

GotLost == Notify("GOT_LOST") /\ Craft(TRUE, TRUE) /\ UNCHANGED <<turnouts, debounce, route>>

LocationChanged ==
    /\ Notify("LOCATION_CHANGED")
    /\ IF OnRoute(route, estimate.loc) THEN Craft(TRUE, FALSE) /\ UNCHANGED route ELSE Reroute
    /\ UNCHANGED <<turnouts, debounce>>

LocationToSwitch ==
    /\ Notify("LOCATION_TO_SWITCH")
    /\ SwitcherTurnout(Told.num, Told.curved)
    /\ Craft(FALSE, FALSE)
    /\ UNCHANGED route

LocationToStop ==
    /\ Notify("LOCATION_TO_STOP")
    /\ conductor' = At("quitting", 0)
    /\ UNCHANGED <<turnouts, debounce, route>>

LocationAny == Notify("LOCATION_ANY") /\ Reroute /\ UNCHANGED <<turnouts, debounce>>

\* What the courier keeps of what it was asked before.
KeptRequests == IF conductor.drop THEN NoRequests ELSE courier.slots

\* The conductor looks at the estimate itself, and replies with its requests.  Without a
\* node, or on a route of one node, it reads what is not there.
Reply ==
    /\ conductor.pc = "crafting" /\ conductor.wait = 0
    /\ LET added == AddNotificationRequests(KeptRequests,
                        IF conductor.lost THEN << >> ELSE CraftNewTriggers(estimate))
       IN  IF ~ conductor.lost /\ (~ Located \/ Len(route) < 2)
           THEN conductor' = At("undefined", 0) /\ UNCHANGED courier
           ELSE /\ conductor' = At(IF added.full THEN "failed" ELSE "receive", 0)
                /\ courier' = [courier EXCEPT !.wait = CourierInterval, !.slots = added.slots]
    /\ UNCHANGED <<turnouts, debounce, estimate, passed, contacts, refresh, goal, route>>

----------------------------------------------------------------------------
(* The end of conductor_route_to: stop, switch what lies ahead, wait. *)

Quit ==
    /\ conductor.pc = "quitting"
    /\ estimate' = SetSpeed(0)
    /\ courier' = FreshCourier
    /\ IF ~ Located \/ GetRoute(estimate.loc) = NoRoute
       THEN conductor' = At("undefined", 0) /\ UNCHANGED route
       ELSE /\ route' = GetRoute(estimate.loc)
            /\ LET wrong == WrongTurnouts(T, turnouts, route', estimate.loc, 200000)
               IN  conductor' = [At("switching", 0) EXCEPT
                      !.todo = {<<i, turnouts[T[route'[i]].num] = "straight">> : i \in wrong},
                      !.rest = 30 * estimate.speed - 15 * Cardinality(wrong)]
    /\ UNCHANGED <<turnouts, debounce, passed, contacts, refresh, goal>>

SwitchNext ==
    /\ conductor.pc = "switching" /\ conductor.wait = 0
    /\ \E <<i, curved>> \in conductor.todo :
          /\ \A other \in conductor.todo : i <= other[1]
          /\ turnouts' = SwitchTurnout(turnouts, T[route[i]].num, curved)
          /\ conductor' = [At("switching", 15) EXCEPT !.todo = @ \ {<<i, curved>>}]
    /\ UNCHANGED <<debounce, estimate, passed, contacts, refresh, goal, route, courier>>

WaitForRest ==
    /\ conductor.pc = "switching" /\ conductor.wait = 0 /\ conductor.todo = {}
    /\ conductor' = At("resting", IF conductor.rest < 0 THEN 0 ELSE conductor.rest)
    /\ UNCHANGED <<turnouts, debounce, estimate, passed, contacts, refresh, goal, route, courier>>

Finish ==
    /\ conductor.pc = "resting" /\ conductor.wait = 0
    /\ conductor' = At("done", 0)
    /\ UNCHANGED <<turnouts, debounce, estimate, passed, contacts, refresh, goal, route, courier>>

----------------------------------------------------------------------------
(* Time, the estimate and the contacts. *)

\* The model courier has the coordinates server told of the speed again.
ModelCourier ==
    /\ ~ Ended /\ refresh = 0
    /\ refresh' = TRAIN_MODEL_COURIER_REFRESH_PERIOD
    /\ estimate' = AfterSpeedChange(Train, estimate, estimate.speed, estimate.last)
    /\ UNCHANGED <<turnouts, debounce, passed, contacts, conductor, goal, route, courier>>

\* What is to happen next, in ticks from now.
Waits ==
    {ViewInterval, refresh}
    \cup (IF conductor.pc = "receive" THEN {courier.wait} ELSE {})
    \cup (IF conductor.pc \in {"ready", "quitting"} \/ (conductor.pc = "planning" /\ Located)
          THEN {0} ELSE {})
    \cup (IF conductor.pc \in {"braking", "turning", "crafting", "switching", "resting"}
          THEN {conductor.wait} ELSE {})

Less(x, d) == IF x < d THEN 0 ELSE x - d

\* The last sensor on the way from a node to another one.
RECURSIVE LastSensor(_, _, _)
LastSensor(n, m, s) ==
    IF n = m THEN s
    ELSE LET next == TrackNodeNext(T, turnouts, n)
         IN  LastSensor(next, m, IF T[next].type = "SENSOR" THEN next ELSE s)

WayTo(loc, sensor) == 100 * Distance(T, loc.node, sensor) - loc.offset

\* MESSAGE_GET_COORDINATES: after more than three sensors without a report the train is lost.
TrainLocationRead(moved) ==
    LET n == moved.loc.node
        other == n # NullNode /\ T[n].type = "SENSOR" /\ n # passed.sensor
        count == passed.count + (IF other /\ n # T[passed.sensor].reverse THEN 1 ELSE 0)
    IN  /\ passed' = IF other THEN [sensor |-> n, count |-> count] ELSE passed
        /\ estimate' = IF other /\ count > MAX_SENSORS_PASSED
                       THEN [moved EXCEPT !.loc.node = NullNode] ELSE moved

Report(moved, sensor) ==
    /\ estimate' = AfterSensorHit(moved, sensor)
    /\ passed' = [sensor |-> sensor, count |-> 0]

\* What the contacts say while the estimate moves: a report when the estimate comes to a
\* sensor, unless it came before, comes later or does not come.
Contacts(moved, way) ==
    LET here == IF Located /\ moved.loc.node # NullNode
                THEN LastSensor(estimate.loc.node, moved.loc.node, NullNode) ELSE NullNode
        next == IF moved.loc.node = NullNode THEN NullNode
                ELSE SensorNext(T, turnouts, moved.loc.node)
        mayFail(n) == contacts.faults + n <= contacts.most /\ contacts.pending = NullNode
        late == contacts.pending # NullNode /\ contacts.way <= way
        waiting == [contacts EXCEPT !.way = IF @ = 0 THEN 0 ELSE Less(@, way)]
        fault(n) == [contacts EXCEPT !.faults = @ + n]
    IN  \/ late /\ Report(moved, contacts.pending)
                /\ contacts' = [contacts EXCEPT !.pending = NullNode, !.way = 0]
        \/ ~ late /\ here # NullNode /\ here # passed.sensor
                  /\ Report(moved, here) /\ contacts' = waiting
        \/ ~ late /\ (here = NullNode \/ here = passed.sensor)
                  /\ TrainLocationRead(moved) /\ contacts' = waiting
        \/ /\ here # NullNode /\ here # passed.sensor
           /\ TrainLocationRead(moved)
           /\ \/ mayFail(1) /\ contacts' = fault(1)
              \/ /\ mayFail(2)
                 /\ \E l \in Lates : contacts' = [fault(2) EXCEPT !.pending = here, !.way = l]
        \/ /\ here = NullNode /\ next # NullNode /\ mayFail(2)
           /\ \E e \in Earlies : /\ WayTo(moved.loc, next) <= e
                                 /\ WayTo(moved.loc, next) + way > e
           /\ Report(moved, next) /\ contacts' = fault(2)

Advance ==
    /\ ~ Ended /\ \A w \in Waits : w > 0
    /\ LET d == CHOOSE w \in Waits : \A v \in Waits : w <= v
       IN  /\ \E moved \in {Update(T, turnouts, estimate, d)}, way \in {Way(estimate, d)} :
                 Contacts(moved, way)
           /\ debounce' = [n \in TurnoutNumbers |-> Less(debounce[n], d)]
           /\ refresh' = refresh - d
           /\ conductor' = [conductor EXCEPT !.wait = Less(@, d)]
           /\ courier' = [courier EXCEPT !.wait = Less(@, d)]
    /\ UNCHANGED <<turnouts, goal, route>>

\* A lost train that runs at its speed comes over a contact.
FindAgain ==
    /\ ~ Ended /\ ~ Located /\ estimate.velocity > 0 /\ estimate.acceleration = 0
    /\ \E sensor \in Finds : Report(estimate, sensor)
    /\ contacts' = [contacts EXCEPT !.pending = NullNode, !.way = 0]
    /\ UNCHANGED <<turnouts, debounce, refresh, conductor, goal, route, courier>>

Next ==
    \/ Command \/ TurnFirst \/ TurnAround \/ PlanAgain \/ SetOff
    \/ LookInVain \/ GotLost \/ LocationChanged \/ LocationToSwitch \/ LocationToStop
    \/ LocationAny \/ Reply
    \/ Quit \/ SwitchNext \/ WaitForRest \/ Finish
    \/ ModelCourier \/ Advance \/ FindAgain
    \/ (Ended /\ UNCHANGED vars)

Spec == Init /\ [][Next]_vars

\* Time and the tasks go on until the command has ended (which is weak fairness of Next,
\* for before the end some step is always possible), and a lost train that goes round
\* comes over a contact at last.
GoesOn == []<>Ended \/ []<><<vars' # vars>>_vars
FairSpec == Spec /\ GoesOn /\ WF_vars(FindAgain)

----------------------------------------------------------------------------
(* What is right about it. *)

StopDistance == StoppingDistFromVelocity(Train, estimate.target)
WayIn(ticks) == (estimate.target * ticks) \div 100

Remaining == RemainingDist(T, route, estimate.loc)

\* The conductor knows the train to be on its way.
Underway ==
    conductor.pc \in {"receive", "crafting"} /\ ~ courier.first /\ courier.last # NullNode

\* A train that has room to stop on its route when that is planned is told to stop one
\* stopping distance before the goal, not earlier and, however the courier's places and
\* the reports of the contacts come one after the other, no later than the distance at
\* which a turnout is switched, the ticks between two looks and what a wrong report moves
\* the estimate (coordinates_to_notification, predict_train_stop).
StopsInTime ==
    [][LET late == StopDistance - Remaining
           wrong == CHOOSE w \in Earlies : \A e \in Earlies : e <= w
       IN  LocationToStop /\ LengthBetween(T, route, 2, Len(route)) > StopDistance
              => /\ 0 <= late
                 /\ late <= SWITCH_DIST + WayIn(2 * CourierInterval + conductor.lag)
                            + wrong * contacts.faults]_vars

\* The turnout that a train on its route has come to lies the way the route goes on.
LiesRight ==
    LET n == estimate.loc.node
        i == Place(route, estimate.loc)
    IN  T[n].type = "BRANCH" /\ i < Len(route) => TrackNodeNext(T, turnouts, n) = route[i + 1]

\* A train that is on its route does not leave it before the conductor stops it: every
\* turnout lies right when the train gets there.
StaysOnRoute ==
    [][Underway /\ OnRoute(route, estimate.loc) /\ estimate'.loc.node # NullNode
          => /\ OnRoute(route', estimate'.loc)
             /\ estimate'.loc.node # estimate.loc.node => LiesRight']_vars

\* While a train is under way the courier watches for the place where it must be stopped at
\* the speed it has, whatever was dropped, replaced or taken for a duplicate.
StopWatched ==
    Underway /\ conductor.pc = "receive" /\ Located =>
        \E k \in DOMAIN courier.slots :
            /\ courier.slots[k].reason = "LOCATION_TO_STOP"
            /\ RemainingDist(T, route, courier.slots[k].loc) = StopDistance

\* A command comes to its end: the courier never gets more requests than it can keep
\* (TOO_MANY_NOTIFICATION_REQUESTS), a train that is lost is found, and what is not there
\* is only read when the train had been lost underway or past its goal at first.
CommandEnds ==
    <>(\/ conductor.pc = "done"
       \/ /\ conductor.pc = "undefined"
          /\ contacts.faults > MAX_SENSORS_PASSED \/ conductor.turns = 1)
==============================================================================

------------------------------- MODULE Sensors -------------------------------
(***************************************************************************)
(* Which train was it?  The sensor secretary asks for the state of all     *)
(* sensors and passes it on, the sensor interpreter decides which train    *)
(* each new hit belongs to, and the train coordinates server moves its     *)
(* estimate of that train there; between hits the estimate runs on by      *)
(* itself (usr/train/sensors/, usr/train/train_coordinates_server.c).      *)
(*                                                                         *)
(* Trains are only known by the sensors they pass.  A train's position is  *)
(* the sensor it passed last, its direction of travel that sensor's, and   *)
(* it can go on to any sensor that comes next, or turn and come to any     *)
(* sensor on a way back.  A contact can stay silent.  Turnouts lie         *)
(* anyhow, so that the same holds of the estimate.                         *)
(***************************************************************************)
EXTENDS Track

CONSTANTS Fleets,       \* lists of trains that may be active, in the order they were added
          Origin,       \* the sensor a train stands behind when it starts
          Area,         \* the sensors it comes to
          Expected,     \* expected_next_sensors
          Asked,        \* the trains that someone asks the coordinates of
          MaxSilent,    \* contacts in a row that fail under a train, one at most
          MaxTurns,     \* how often a train turns at most before a hit is attributed to it again
          Separation    \* how many sensors trains stay away from each other

ASSUME SensorsAssumption ==
    /\ MaxTurns \in Nat /\ Separation \in Nat
    /\ \A f \in Fleets : \A i \in DOMAIN f : MaxSilent[f[i]] \in 0 .. 1
    /\ \A f \in Fleets : \A i, j \in DOMAIN f : i # j => f[i] # f[j]

T == TrackBAsIs
S == Sensors(T)
Trains == UNION {{f[i] : i \in DOMAIN f} : f \in Fleets}

NO_DATA_RECEIVED == -2
LOST == 3
MAX_SENSORS_PASSED == 3

VARIABLES active,    \* active_trains
          position,  \* of each train: the sensor passed last, and whether it has turned since
          silent,    \* contacts in a row that failed under it
          turns,     \* how often it turned since its last hit was attributed to it
          behind,    \* sensors it passed since its last hit was attributed to it, up to LOST,
                     \* which it also is when its hit was dropped or it was given another's
          contacts,  \* the hits the controller has not reported, <<sensor, train>>
          first,     \* first_query of the secretary
          report,    \* the hits on the way to the interpreter; << >> when there are none
          current,   \* current_sensors of the interpreter
          last,      \* last_sensor of the interpreter
          place,     \* the estimate: a position, its node NullNode when lost
          counted,   \* last_sensor of the coordinates server
          passed,    \* sensors_passed
          assumed    \* how many sensors the estimate passed since it was last corrected

world == <<active, position, silent>>
estimate == <<place, counted, passed, assumed>>
vars == <<world, turns, behind, contacts, first, report, current, last, estimate>>

----------------------------------------------------------------------------
(* The track between sensors. *)

\* The first sensors on the ways from a node, itself included.
RECURSIVE FirstSensors(_)
FirstSensors(n) ==
    IF T[n].type = "SENSOR" THEN {n} ELSE UNION {FirstSensors(m) : m \in Nexts(T, n)}

\* A node and those that come before a sensor does.
RECURSIVE WayFrom(_)
WayFrom(n) ==
    {n} \cup UNION {WayFrom(m) : m \in {m \in Nexts(T, n) : T[m].type # "SENSOR"}}

Forward == [s \in S |-> UNION {FirstSensors(m) : m \in Nexts(T, s)}]
Backward == [s \in S |-> UNION {FirstSensors(T[n].reverse) : n \in WayFrom(s)}]
At(s) == [node |-> s, turned |-> FALSE]
NextSensors(p) ==
    IF p.node = NullNode THEN {} ELSE IF p.turned THEN Backward[p.node] ELSE Forward[p.node]

\* The sensors at most k sensors away, whichever way a train goes and wherever it turns.
Around[k \in 0 .. Separation] ==
    [s \in S |->
        IF k = 0 THEN {s, T[s].reverse}
        ELSE LET nearer == Around[k - 1][s]
                 next == UNION {Forward[r] \cup Backward[r] : r \in nearer}
             IN  nearer \cup next \cup {T[r].reverse : r \in next}]

TooNear == [s \in S |-> {r \in S : r \in Around[Separation][s]}]

FollowedBy == [s \in S |-> {r \in S : SensorIsFollowedBy(T, s, r)}]
SeenNext == [s \in S |-> {r \in S : SensorMayBeSeenNext(T, s, r)}]

----------------------------------------------------------------------------
(* The trains. *)

Members == {active[i] : i \in DOMAIN active}
HitsOf(t) == {c \in contacts \cup (IF report = << >> THEN {} ELSE report[1]) : c[2] = t}

\* The controller is asked more often than a train passes sensors.
Noticed(t) == \A c \in HitsOf(t) : report = << >> /\ c[1] \in current

Apart(t, s) == \A u \in Members \ {t} : s \notin TooNear[position[u].node]

\* A train passes the next sensor and its contact works.  One that failed still does when
\* the train comes straight back over it.
Trip(t, s) ==
    /\ ~ first /\ Noticed(t) /\ Apart(t, s) /\ s \in Area[t]
    /\ ~ (silent[t] > 0 /\ s = T[position[t].node].reverse)
    /\ position' = [position EXCEPT ![t] = At(s)]
    /\ silent' = [silent EXCEPT ![t] = 0]
    /\ behind' = [behind EXCEPT ![t] = IF @ = LOST THEN LOST ELSE @ + 1]
    /\ contacts' = {c \in contacts : c[2] # t} \cup {<<s, t>>}
    /\ UNCHANGED <<active, turns, first, report, current, last, estimate>>

\* Its contact fails.
PassSilently(t, s) ==
    LET again == silent[t] > 0 /\ s = T[position[t].node].reverse
    IN  /\ ~ first /\ Noticed(t) /\ Apart(t, s) /\ s \in Area[t]
        /\ again \/ silent[t] < MaxSilent[t]
        /\ position' = [position EXCEPT ![t] = At(s)]
        /\ silent' = [silent EXCEPT ![t] = IF again THEN @ ELSE @ + 1]
        /\ behind' = [behind EXCEPT ![t] = IF @ = LOST \/ again THEN @ ELSE @ + 1]
        /\ contacts' = {c \in contacts : c[2] # t}
        /\ UNCHANGED <<active, turns, first, report, current, last, estimate>>

\* It stops and turns; the controller of the track state tells the coordinates server.
Turn(t) ==
    /\ Noticed(t) /\ turns[t] < MaxTurns /\ ~ position[t].turned
    /\ position' = [position EXCEPT ![t].turned = TRUE]
    /\ turns' = [turns EXCEPT ![t] = @ + 1]
    /\ place' = [u \in Asked |-> IF u = t /\ place[t].node # NullNode
                                  THEN [place[t] EXCEPT !.turned = ~ @] ELSE place[u]]
    /\ UNCHANGED <<active, silent, behind, contacts, first, report, current, last,
                   counted, passed, assumed>>

----------------------------------------------------------------------------
(* The secretary and the interpreter. *)

\* The secretary gets a report; contacts that are still closed will be in the next one.
\* It drops the first.
Query(closed) ==
    /\ report = << >> /\ (contacts # {} \/ current # {} \/ first)
    /\ report' = IF first THEN << >> ELSE <<contacts>>
    /\ contacts' = closed
    /\ first' = FALSE
    /\ UNCHANGED <<world, turns, behind, current, last, estimate>>

\* get_leading_edge
LeadingEdge == {c[1] : c \in report[1]} \ current

TrainsIn(trains) == {i \in DOMAIN active : active[i] \in trains}
Earliest(trains) == active[CHOOSE i \in TrainsIn(trains) : \A j \in TrainsIn(trains) : i <= j]

Known(l) == {t \in Members : l[t] # NO_DATA_RECEIVED}

Candidates_Anyone(l, late, s, attributed) ==                         \* slip
    LET expected == {t \in Members \ Known(l) : Expected[t] = s}
        next == {t \in Known(l) : s \in FollowedBy[l[t]]}
        later == {t \in Known(l) : s \in SeenNext[l[t]]}
    IN  CASE expected # {} -> expected
          [] expected = {} /\ attributed -> {}
          [] expected = {} /\ ~ attributed /\ next # {} -> next
          [] expected = {} /\ ~ attributed /\ next = {} ->
                IF later # {} THEN later ELSE Members

\* The trains that the first of the four passes which finds any finds for a sensor.
Candidates(l, late, s, attributed) ==
    LET expected == {t \in Members \ Known(l) : Expected[t] = s}
        next == {t \in Known(l) : s \in FollowedBy[l[t]]}
        later == {t \in Known(l) : s \in SeenNext[l[t]]}
    IN  CASE expected # {} -> expected
          [] expected = {} /\ attributed -> {}
          [] expected = {} /\ ~ attributed /\ next # {} -> next
          [] expected = {} /\ ~ attributed /\ next = {} ->
                IF later # {} THEN later ELSE late

\* The sensors hit are gone through in order; once one is attributed, the later ones only
\* get the first pass.  A train that gets a hit is not late any more.
RECURSIVE Attribute(_, _, _, _)
Attribute(hits, l, late, to) ==
    IF hits = {} THEN [last |-> l, to |-> to]
    ELSE LET s == CHOOSE s \in hits : \A r \in hits : s <= r
             trains == Candidates(l, late, s, to # << >>)
         IN  IF trains = {} THEN Attribute(hits \ {s}, l, late, to)
             ELSE LET t == Earliest(trains)
                  IN  Attribute(hits \ {s}, [l EXCEPT ![t] = s], late \ {t}, <<t>>)

\* The train attributed to last has its place corrected.
Correct(a) ==
    LET given == {t \in Members : a.last[t] \in LeadingEdge}
        own == {t \in given : <<a.last[t], t>> \in report[1]}
        misled == (given \cup {c[2] : c \in {c \in report[1] : c[1] \notin current}}) \ own
        sent(t) == a.to = <<t>>
    IN  /\ last' = a.last
        /\ turns' = [t \in Trains |-> IF t \in given THEN 0 ELSE turns[t]]
        /\ behind' = [t \in Trains |-> IF t \in own THEN 0
                                        ELSE IF t \in misled THEN LOST ELSE behind[t]]
        /\ place' = [t \in Asked |-> IF sent(t) THEN At(a.last[t]) ELSE place[t]]
        /\ counted' = [t \in Asked |-> IF sent(t) THEN a.last[t] ELSE counted[t]]
        /\ passed' = [t \in Asked |-> IF sent(t) THEN 0 ELSE passed[t]]
        /\ assumed' = [t \in Asked |-> IF sent(t) THEN 0 ELSE assumed[t]]

\* The interpreter takes a report.  Late are the trains that train_is_lost: whether a train
\* moves, and for how long it was not attributed a hit, if it ever was, is left to chance.
Interpret(late) ==
    /\ report # << >>
    /\ Correct(Attribute(LeadingEdge, last, late, << >>))
    /\ current' = {c[1] : c \in report[1]}
    /\ report' = << >>
    /\ UNCHANGED <<world, contacts, first>>

----------------------------------------------------------------------------
(* The coordinates server. *)

GetCoordinates_Later(t, s) ==                                        \* slip
    /\ counted' = [counted EXCEPT ![t] = s]
    /\ passed' = [passed EXCEPT ![t] = IF s = T[counted[t]].reverse THEN @ ELSE @ + 1]
    /\ place' = [place EXCEPT ![t] = At(IF passed[t] > MAX_SENSORS_PASSED THEN NullNode ELSE s)]
    /\ assumed' = [assumed EXCEPT ![t] = @ + 1]
    /\ UNCHANGED <<world, turns, behind, contacts, first, report, current, last>>

\* A client asks when the estimate has come to another sensor.
GetCoordinates(t, s) ==
    /\ counted' = [counted EXCEPT ![t] = s]
    /\ passed' = [passed EXCEPT ![t] = IF s = T[counted[t]].reverse THEN @ ELSE @ + 1]
    /\ place' = [place EXCEPT ![t] = At(IF passed'[t] > MAX_SENSORS_PASSED THEN NullNode ELSE s)]
    /\ assumed' = [assumed EXCEPT ![t] = @ + 1]
    /\ UNCHANGED <<world, turns, behind, contacts, first, report, current, last>>

Init ==
    /\ active \in Fleets
    /\ position = [t \in Trains |-> At(Origin[t])]
    /\ silent = [t \in Trains |-> 0] /\ turns = [t \in Trains |-> 0]
    /\ behind = [t \in Trains |-> 0]
    /\ contacts = {} /\ first = TRUE /\ report = << >> /\ current = {}
    /\ last = [t \in Trains |-> NO_DATA_RECEIVED]
    /\ place = [t \in Asked |-> At(NullNode)]
    /\ counted = [t \in Asked |-> NO_DATA_RECEIVED]
    /\ passed = [t \in Asked |-> 0] /\ assumed = [t \in Asked |-> 0]

Next ==
    \/ \E t \in Members : \E s \in NextSensors(position[t]) : Trip(t, s) \/ PassSilently(t, s)
    \/ \E t \in Members : Turn(t)
    \/ \E closed \in SUBSET contacts : Query(closed)
    \/ \E late \in SUBSET Members : Interpret(late)
    \/ \E t \in Asked : \E s \in NextSensors(place[t]) : GetCoordinates(t, s)

Spec == Init /\ [][Next]_vars

----------------------------------------------------------------------------
\* sensor_may_be_seen_next is to tell whether a sensor could be triggered right after
\* another, given that the train might reverse once and that one sensor might be dead.
\* After these two it does not see that a train that turns at once comes back over the
\* sensor it left.
Unseen == {<<61, 60>>, <<64, 65>>}

\* As long as trains stay apart, a train of which what is known is at most a sensor old is
\* given the hit of another one only if it is lost for the time, and only if that hit cannot
\* be told from what is known of the other: it was not hit before, its record is wrong
\* already, or it comes back unseen.  It is lost if the step is none of those in which it
\* is not late.
RightTrain ==
    [][\A t \in Members :
          last'[t] # last[t] /\ <<last'[t], t>> \notin report[1] =>
             \/ behind[t] > 1
             \/ /\ ~ \E late \in SUBSET (Members \ {t}) : Interpret(late)
                /\ \E <<s, u>> \in report[1] :
                      /\ s = last'[t]
                      /\ \/ last[u] = NO_DATA_RECEIVED \/ behind[u] = LOST
                         \/ <<last[u], s>> \in Unseen]_vars

\* A hit that is the only one of its report is put down to its train, when that is known
\* and was silent at one sensor and turned once at most, and no other train's record is wrong.
HitFound ==
    [][report # << >> /\ report' = << >> =>
          \A c \in report[1] :
              LET s == c[1]
                  t == c[2]
              IN  /\ report[1] = {c} /\ s \notin current
                  /\ last[t] # NO_DATA_RECEIVED /\ behind[t] < LOST
                  /\ \A u \in Members \ {t} : behind[u] < LOST
                  /\ <<last[t], s>> \notin Unseen
                  => last'[t] = s]_vars

\* The coordinates server takes a train for lost as soon as its estimate passed four sensors
\* without a hit, not counting the one it came back over, and no earlier.
GivenUpInTime ==
    \A t \in Asked :
        /\ place[t].node # NullNode => assumed[t] <= MAX_SENSORS_PASSED + MaxTurns
        /\ place[t].node = NullNode /\ counted[t] # NO_DATA_RECEIVED =>
              assumed[t] > MAX_SENSORS_PASSED
=============================================================================

-------------------------------- MODULE Track --------------------------------
(***************************************************************************)
(* What the train programs compute on a track (lib/track/track_data.c and  *)
(* the route functions of usr/train/train_util.c).  Every operator takes   *)
(* the track as its first argument, as the C functions take track_state,   *)
(* and a node is its number.  Turnout states are a function from turnout   *)
(* numbers.  Distances on the track are in millimetres, offsets and        *)
(* distances along a route in hundredths of one.                           *)
(***************************************************************************)
EXTENDS Integers, Sequences, FiniteSets

A == INSTANCE TrackA
B == INSTANCE TrackB

NullNode == -1

FIND_LIMIT == 5
REBASE_LIMIT == 5
TRAIN_LENGTH == 20000
PICKUP_LENGTH == 5000

TurnoutNumbers == (1 .. 18) \cup (153 .. 156)

----------------------------------------------------------------------------
(* The track in use. *)

STRAIGHT == 1
CURVED == 2

\* Turnouts that are broken: both edges of such a branch are the one that works.
SetPermanently(T, dirs) ==
    [n \in DOMAIN T |->
        IF T[n].type = "BRANCH" /\ T[n].num \in DOMAIN dirs
        THEN [T[n] EXCEPT !.edge = <<@[dirs[T[n].num]], @[dirs[T[n].num]]>>]
        ELSE T[n]]

TrackBAsIs ==
    SetPermanently(B!Nodes, [num \in {17, 155, 156} |-> IF num = 156 THEN STRAIGHT ELSE CURVED])

\* init_track: track A for the tests, track B for the program.
InitTrack(testing) == IF testing THEN A!Nodes ELSE TrackBAsIs

----------------------------------------------------------------------------
(* From node to node. *)

Ahead(T, n) == IF T[n].edge = << >> THEN NullNode ELSE T[n].edge[STRAIGHT].dest
Curved(T, n) == IF Len(T[n].edge) < CURVED THEN NullNode ELSE T[n].edge[CURVED].dest
Sensors(T) == {n \in DOMAIN T : T[n].type = "SENSOR"}
TurnoutNode(T, num) == CHOOSE n \in DOMAIN T : T[n].type = "BRANCH" /\ T[n].num = num

\* Every node an edge leads to.
Nexts(T, n) == {T[n].edge[d].dest : d \in DOMAIN T[n].edge}

NodeFollows(T, start, end) == end \in Nexts(T, start)

\* A branch is taken to be curved unless it is known to be straight.
TrackNodeNext(T, ts, n) ==
    IF T[n].type = "BRANCH" /\ ts[T[n].num] # "straight" THEN Curved(T, n) ELSE Ahead(T, n)

RECURSIVE SensorNext(_, _, _)
SensorNext(T, ts, n) ==
    LET m == TrackNodeNext(T, ts, n)
    IN  IF m = NullNode \/ T[m].type = "SENSOR" THEN m ELSE SensorNext(T, ts, m)

\* distance_between_track_nodes_helper: the first way found, straight before curved.
RECURSIVE DistanceHelper(_, _, _, _, _)
DistanceHelper(T, start, end, total, limit) ==
    LET along(d) == DistanceHelper(T, T[start].edge[d].dest, end,
                                   total + T[start].edge[d].dist, limit - 1)
    IN  CASE start = end -> total
          [] start # end /\ (limit = 0 \/ T[start].edge = << >>) -> -1
          [] OTHER -> IF T[start].type = "BRANCH" /\ along(STRAIGHT) = -1
                      THEN along(CURVED) ELSE along(STRAIGHT)

Distance(T, start, end) == DistanceHelper(T, start, end, 0, FIND_LIMIT)

----------------------------------------------------------------------------
(* Which sensor can come after which. *)

RECURSIVE FollowedHelper(_, _, _, _)
FollowedHelper(T, start, end, limit) ==
    \/ start = end
    \/ /\ limit > 0 /\ T[start].type \in {"MERGE", "BRANCH"}
       /\ \E n \in Nexts(T, start) : FollowedHelper(T, n, end, limit - 1)

SensorIsFollowedBy(T, start, end) == FollowedHelper(T, Ahead(T, start), end, FIND_LIMIT)

\* With one sensor that stays silent and one reversal on the way.
RECURSIVE SeenHelper(_, _, _, _, _, _)
SeenHelper(T, start, end, limit, reversed, dead) ==
    LET isSensor == T[start].type = "SENSOR"
        back == IF isSensor THEN Ahead(T, T[start].reverse) ELSE T[start].reverse
    IN  \/ start = end
        \/ /\ limit > 0 /\ ~ (isSensor /\ dead)
           /\ \/ \E n \in Nexts(T, start) :
                    SeenHelper(T, n, end, limit - 1, reversed, dead \/ isSensor)
              \/ /\ ~ reversed /\ T[start].type # "ENTER"
                 /\ SeenHelper(T, back, end, limit - 1, TRUE, dead \/ isSensor)

SensorMayBeSeenNext_AheadOnly(T, start, end) ==                      \* slip
    SeenHelper(T, Ahead(T, start), end, 2 * FIND_LIMIT, FALSE, FALSE)

SensorMayBeSeenNext(T, start, end) ==
    \/ SeenHelper(T, Ahead(T, start), end, 2 * FIND_LIMIT, FALSE, FALSE)
    \/ SeenHelper(T, Ahead(T, T[start].reverse), end, 2 * FIND_LIMIT, TRUE, FALSE)

----------------------------------------------------------------------------
(* Locations: a node and an offset from it. *)

Loc(node, offset) == [node |-> node, offset |-> offset]
NoLoc == Loc(NullNode, 0)

LocationReverse(T, loc) == Loc(T[loc.node].reverse, - loc.offset)

\* On to the next node as long as the offset reaches it.
RECURSIVE LocationCanonicalize(_, _, _)
LocationCanonicalize(T, ts, loc) ==
    LET next == TrackNodeNext(T, ts, loc.node)
        d == Distance(T, loc.node, next) * 100
    IN  IF next = NullNode \/ loc.offset < d THEN loc
        ELSE LocationCanonicalize(T, ts, Loc(next, loc.offset - d))

\* Back to the nodes before it while the offset is negative; -1 and -2 are the errors.
RECURSIVE RebaseHelper(_, _, _, _)
RebaseHelper(T, ts, loc, limit) ==
    LET n == TrackNodeNext(T, ts, T[loc.node].reverse)
        before == Loc(T[n].reverse, Distance(T, T[n].reverse, loc.node) * 100 + loc.offset)
    IN  IF limit <= 0 THEN [result |-> -1, loc |-> loc]
        ELSE IF n = NullNode THEN [result |-> -2, loc |-> loc]
        ELSE IF before.offset < 0 THEN RebaseHelper(T, ts, before, limit - 1)
        ELSE [result |-> 0, loc |-> before]

LocationRebase(T, ts, loc) == RebaseHelper(T, ts, loc, REBASE_LIMIT)

DistanceBetweenLocations(T, from, to) ==
    IF from.node = NullNode \/ to.node = NullNode THEN -1
    ELSE LET d == Distance(T, from.node, to.node)
         IN  IF d < 0 THEN d ELSE 100 * d + to.offset - from.offset

\* How far the estimate is off when a sensor is hit.
DistanceDiff(T, ts, sensor, loc) ==
    CASE loc.node = NullNode -> 0
      [] loc.node = sensor -> loc.offset
      [] loc.node \notin {NullNode, sensor} ->
            IF SensorNext(T, ts, loc.node) = sensor
            THEN loc.offset - 100 * Distance(T, loc.node, sensor) ELSE 0

LocationIsGe(T, a, b) ==
    \/ NodeFollows(T, b.node, a.node)
    \/ a.node = b.node /\ a.offset >= b.offset

----------------------------------------------------------------------------
(* Routes: sequences of nodes. *)

OnRoute(route, loc) == \E i \in DOMAIN route : route[i] = loc.node

EdgeLength(T, a, b) ==
    IF T[a].edge = << >> THEN 0
    ELSE T[a].edge[IF T[a].type = "BRANCH" /\ b # Ahead(T, a) THEN CURVED ELSE STRAIGHT].dist

\* The length of the route between two positions on it.
RECURSIVE LengthBetween(_, _, _, _)
LengthBetween(T, route, i, j) ==
    IF i >= j THEN 0
    ELSE 100 * EdgeLength(T, route[i], route[i + 1]) + LengthBetween(T, route, i + 1, j)

\* Where the location's node comes first, or past the end.
Place(route, loc) ==
    IF OnRoute(route, loc)
    THEN CHOOSE i \in DOMAIN route :
            route[i] = loc.node /\ \A j \in 1 .. i - 1 : route[j] # loc.node
    ELSE Len(route) + 1

DistOnRoute(T, route, loc, k) == LengthBetween(T, route, Place(route, loc), k) - loc.offset

RemainingDist(T, route, loc) == DistOnRoute(T, route, loc, Len(route))

\* The turnouts on the next stretch of the route that are known to lie the other way,
\* as num_, switch_ and switcher_turnouts_within_distance go through them.  One that is
\* broken lies wrong either way.
WrongTurnouts(T, ts, route, loc, distance) ==
    {i \in Place(route, loc) .. Len(route) - 1 :
        /\ T[route[i]].type = "BRANCH"
        /\ DistOnRoute(T, route, loc, i) <= distance
        /\ \/ route[i + 1] = Ahead(T, route[i]) /\ ts[T[route[i]].num] = "curved"
           \/ route[i + 1] = Curved(T, route[i]) /\ ts[T[route[i]].num] = "straight"}

\* The turnout states that lead along the route, over the given ones.
SynthesizeTurnouts(T, route, ts) ==
    [num \in DOMAIN ts |->
        LET on == {i \in 1 .. Len(route) - 1 : /\ T[route[i]].type = "BRANCH"
                                               /\ T[route[i]].num = num}
        IN  IF on = {} THEN ts[num]
            ELSE LET i == CHOOSE i \in on : \A j \in on : j <= i
                 IN  IF route[i + 1] = Ahead(T, route[i]) THEN "straight" ELSE "curved"]

==============================================================================

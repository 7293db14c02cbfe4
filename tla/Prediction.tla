------------------------------ MODULE Prediction ------------------------------
(***************************************************************************)
(* Where on its route a train has something to do (usr/train/prediction.c).*)
(***************************************************************************)
EXTENDS Track

NoTurnouts == [num \in TurnoutNumbers |-> "unknown"]

\* A place on the route, as a distance from a location on it.
PlaceAlong(T, route, loc) ==
    LocationCanonicalize(T, SynthesizeTurnouts(T, route, NoTurnouts), loc)

\* A stopping distance before the end of the route; before the train's own node the
\* offset stays negative.
PredictTrainStop(T, route, loc, stoppingDistance) ==
    PlaceAlong(T, route,
        Loc(loc.node, loc.offset + RemainingDist(T, route, loc) - stoppingDistance))

NoSwitch == [num |-> 0, curved |-> FALSE, loc |-> NoLoc]

NextBranches_FromHere(T, route, loc, lookahead) ==                   \* slip
    {i \in Place(route, loc) .. Len(route) - 1 :
        i <= Place(route, loc) + lookahead /\ T[route[i]].type = "BRANCH"}

\* The branches that the route leaves again, among the next nodes after the location.
NextBranches(T, route, loc, lookahead) ==
    {i \in Place(route, loc) + 1 .. Len(route) - 1 :
        i <= Place(route, loc) + lookahead /\ T[route[i]].type = "BRANCH"}

\* The first of them, how it must lie, and the place a distance before it, but not before
\* the start of the route.  The route has two nodes at least: on one of a single node the
\* search begins behind the mark of its end.
PredictNextSwitch(T, route, loc, distance, lookahead) ==
    LET near == NextBranches(T, route, loc, lookahead)
        i == CHOOSE i \in near : \A j \in near : i <= j
        place == LengthBetween(T, route, 1, i) - distance
    IN  IF near = {} THEN NoSwitch
        ELSE [num |-> T[route[i]].num,
              curved |-> route[i + 1] = Curved(T, route[i]),
              loc |-> PlaceAlong(T, route, Loc(route[1], IF place < 0 THEN 0 ELSE place))]

----------------------------------------------------------------------------
(* What the router answers (module Router, RouteBest). *)

NoRoute == << >>
LOCAL Infinite == 1000000

RECURSIVE Shorten(_, _)
Shorten(T, d) ==
    LET over(n) == {d[n]} \cup {d[T[n].edge[i].dest] + T[n].edge[i].dist : i \in DOMAIN T[n].edge}
        e == [n \in DOMAIN T |-> CHOOSE x \in over(n) : \A y \in over(n) : x <= y]
    IN  IF e = d THEN d ELSE Shorten(T, e)

\* How far it is from every node to this one.
DistanceTo(T, g) == Shorten(T, [n \in DOMAIN T |-> IF n = g THEN 0 ELSE Infinite])

\* From a node downhill.
Downhill(T, d, start) ==
    LET next(n) == CHOOSE i \in DOMAIN T[n].edge :
                      d[T[n].edge[i].dest] + T[n].edge[i].dist = d[n]
        way[n \in DOMAIN T] ==
            IF d[n] = 0 THEN <<n>> ELSE <<n>> \o way[T[n].edge[next(n)].dest]
    IN  way[start]

\* The shortest way to one of the two sides of a goal.
BestRoutes(T, goals) ==
    [g \in goals |->
        LET there == DistanceTo(T, g)
            back == DistanceTo(T, T[g].reverse)
        IN  [n \in DOMAIN T |->
                CASE there[n] = Infinite /\ back[n] = Infinite -> NoRoute
                  [] there[n] < back[n] -> Downhill(T, there, n)
                  [] OTHER -> Downhill(T, back, n)]]

==============================================================================

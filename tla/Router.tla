-------------------------------- MODULE Router --------------------------------
(***************************************************************************)
(* The router (usr/train/router.c): Dijkstra's algorithm over the nodes of *)
(* the track, with the heap of lib/priority_queue.h as its queue, one step *)
(* per turn of its loops.  A search node's prev is the track node of the   *)
(* search node it points to.  The search does not look at the goal, so     *)
(* that the goal is chosen when the search is over and the two calls of    *)
(* plan_route share it.                                                    *)
(***************************************************************************)
EXTENDS Prediction

CONSTANTS Layouts,      \* the layouts asked about: TRUE for that of the tests
          Starts        \* the nodes asked about

MAX_ROUTE_LENGTH == 144
INFINITE_DISTANCE == 100000000

SearchDistance(s) == s.distance
Queue == INSTANCE PriorityQueue WITH Capacity <- MAX_ROUTE_LENGTH, Value <- SearchDistance

VARIABLES testing,  \* the layout in use
          start,    \* the node asked about, or NullNode between requests
          queue,    \* the search nodes to be looked at
          found,    \* those that have been, in order
          end,      \* the goal asked for, or NullNode
          route     \* the route given, empty for failure

vars == <<testing, start, queue, found, end, route>>

----------------------------------------------------------------------------
LayoutOf == [t \in BOOLEAN |-> InitTrack(t)]
T == LayoutOf[testing]

SearchNode(node, distance) == [node |-> node, distance |-> distance, prev |-> NullNode]

UpdateSearchNode_Later(q, current, edge) ==                          \* slip
    [i \in DOMAIN q |-> IF q[i].node = edge.dest
                        THEN [q[i] EXCEPT !.distance = current.distance + edge.dist,
                                          !.prev = current.node]
                        ELSE q[i]]

\* A node still in the queue is reached over an edge from the current one.
UpdateSearchNode(q, current, edge) ==
    LET distance == current.distance + edge.dist
    IN  [i \in DOMAIN q |-> IF q[i].node = edge.dest /\ distance < q[i].distance
                            THEN [q[i] EXCEPT !.distance = distance, !.prev = current.node]
                            ELSE q[i]]

\* What becomes of the queue when the node taken from it is looked at.
Relax(q, current) ==
    LET edges == T[current.node].edge
        ahead == UpdateSearchNode(q, current, edges[STRAIGHT])
    IN  CASE Len(edges) = 0 -> q
          [] Len(edges) = 1 -> Queue!Heapify(ahead)
          [] Len(edges) = 2 -> Queue!Heapify(UpdateSearchNode(ahead, current, edges[CURVED]))

FoundNode(n) == CHOOSE s \in {found[i] : i \in DOMAIN found} : s.node = n

\* The way back from the end of the search to its start.
RECURSIVE BackFrom(_)
BackFrom(s) ==
    IF s = found[1] THEN <<s.node>> ELSE Append(BackFrom(FoundNode(s.prev)), s.node)

\* The empty route stands for failure.
PlanRoute(goal) ==
    LET s == FoundNode(goal)
    IN  IF s.prev = NullNode /\ s # found[1] THEN << >> ELSE BackFrom(s)

RouteLength(r) == RemainingDist(T, r, Loc(r[1], 0))

ChooseRoute_Forwards(forwards, backwards) ==                         \* slip
    IF forwards = << >> THEN backwards ELSE forwards

\* To the goal or to its other side, whichever way is shorter.
ChooseRoute(forwards, backwards) ==
    IF forwards = << >> \/ backwards = << >> THEN forwards \o backwards
    ELSE IF RouteLength(forwards) < RouteLength(backwards) THEN forwards ELSE backwards

----------------------------------------------------------------------------
Init ==
    /\ testing \in Layouts
    /\ start = NullNode /\ end = NullNode
    /\ queue = << >> /\ found = << >> /\ route = << >>

\* A request arrives.
ReceiveRequest(n) ==
    /\ start = NullNode
    /\ start' = n
    /\ UNCHANGED <<testing, queue, found, end, route>>

\* The next node of the track is put into the queue.
EnqueueNode ==
    /\ start # NullNode /\ found = << >> /\ Len(queue) < Cardinality(DOMAIN T)
    /\ LET n == Len(queue)
       IN  queue' = Queue!Enqueue(queue, SearchNode(n, IF n = start THEN 0
                                                       ELSE INFINITE_DISTANCE))
    /\ UNCHANGED <<testing, start, found, end, route>>

\* The nearest node leaves it.
DequeueNode ==
    /\ queue # << >> /\ Len(queue) + Len(found) = Cardinality(DOMAIN T)
    /\ found' = Append(found, Queue!Peek(queue))
    /\ queue' = Relax(Queue!Dequeue(queue), Queue!Peek(queue))
    /\ UNCHANGED <<testing, start, end, route>>

\* All have left: the route is read off and given to the client.
ReplyRoute(goal) ==
    /\ queue = << >> /\ found # << >> /\ end = NullNode
    /\ end' = goal
    /\ route' = ChooseRoute(PlanRoute(goal), PlanRoute(T[goal].reverse))
    /\ UNCHANGED <<testing, start, queue, found>>

NextRequest ==
    /\ end # NullNode
    /\ start' = NullNode /\ end' = NullNode /\ found' = << >> /\ route' = << >>
    /\ UNCHANGED <<testing, queue>>

Next ==
    \/ \E n \in Starts : ReceiveRequest(n)
    \/ EnqueueNode
    \/ DequeueNode
    \/ \E n \in Sensors(T) : ReplyRoute(n)
    \/ NextRequest

Spec == Init /\ [][Next]_vars

----------------------------------------------------------------------------
Answered == end # NullNode
Distances == [n \in DOMAIN T |-> FoundNode(n).distance]

\* The distances found are those of shortest ways, whatever the heap does when distances
\* change inside it: none can be made shorter over an edge, and each is that of the edge
\* it was reached over.
DistancesLeast ==
    queue = << >> /\ found # << >> /\ end = NullNode =>
        LET d == Distances
        IN  /\ d[start] = 0
            /\ \A n \in DOMAIN T : d[n] < INFINITE_DISTANCE =>
                  /\ \A i \in DOMAIN T[n].edge : d[T[n].edge[i].dest] <= d[n] + T[n].edge[i].dist
                  /\ n # start =>
                        LET p == FoundNode(n).prev
                        IN  \E i \in DOMAIN T[p].edge : /\ T[p].edge[i].dest = n
                                                        /\ d[n] = d[p] + T[p].edge[i].dist
            /\ \A n \in DOMAIN T \ {start} : d[n] = INFINITE_DISTANCE => FoundNode(n).prev = NullNode

\* A client gets the shortest way to either side of its goal, from where it is, over edges
\* of the track, and none only if there is none.
RouteBest ==
    Answered =>
        LET sides == {end, T[end].reverse}
            d(n) == FoundNode(n).distance
            nearest == CHOOSE x \in {d(n) : n \in sides} : \A n \in sides : x <= d(n)
        IN  IF route = << >> THEN nearest = INFINITE_DISTANCE
            ELSE /\ route[1] = start /\ route[Len(route)] \in sides
                 /\ \A i \in 1 .. Len(route) - 1 : NodeFollows(T, route[i], route[i + 1])
                 /\ RouteLength(route) = 100 * nearest

SWITCH_DIST == 15000
SWITCH_LOOKAHEAD_NODES == 10

\* Wherever on its route a train is, the place to stop is the stopping distance before the
\* goal, and the place to switch the next turnout is on the way to it, at the distance the
\* conductor wants or at the start.  It has no meaning on a route of one node.
PlacesRight ==
    Answered /\ route # << >> =>
        \A k \in {1, Len(route) \div 2} \ {0} :
            LET loc == Loc(route[k], 0)
                goesOn(num, curved) ==
                    \E i \in k + 1 .. Len(route) - 1 :
                        /\ T[route[i]].type = "BRANCH" /\ T[route[i]].num = num
                        /\ \A j \in k + 1 .. i - 1 : T[route[j]].type # "BRANCH"
                        /\ T[route[i]].edge[IF curved THEN CURVED ELSE STRAIGHT].dest = route[i + 1]
                next == PredictNextSwitch(T, route, loc, SWITCH_DIST, SWITCH_LOOKAHEAD_NODES)
                ahead == DistOnRoute(T, route, next.loc,
                                     Place(route, Loc(TurnoutNode(T, next.num), 0)))
            IN  /\ \A d \in {0, RemainingDist(T, route, loc) \div 2, RemainingDist(T, route, loc)} :
                       LET stop == PredictTrainStop(T, route, loc, d)
                       IN  OnRoute(route, stop) /\ RemainingDist(T, route, stop) = d
                /\ Len(route) > 1 /\ next # NoSwitch =>
                       /\ goesOn(next.num, next.curved)
                       /\ OnRoute(route, next.loc)
                       /\ \/ ahead = SWITCH_DIST
                          \/ ahead < SWITCH_DIST /\ next.loc = Loc(start, 0)

==============================================================================

-------------------------------- MODULE Motion --------------------------------
(***************************************************************************)
(* Where a train is thought to be while it moves: the arithmetic of the    *)
(* coordinates server (usr/train/train_coordinates_server.c) and of the    *)
(* stopping distances (usr/train/train_util.c).  Coordinates are a         *)
(* location, a velocity and an acceleration, the velocity aimed at, and    *)
(* the speed that is set and the one before it.  A division is C's.        *)
(***************************************************************************)
EXTENDS Prediction, TrainModels

MAX_SENSORS_PASSED == 3

LOCAL Quot(a, b) ==
    LET size(x) == IF x < 0 THEN - x ELSE x
    IN  IF (a < 0) = (b < 0) THEN size(a) \div size(b) ELSE - (size(a) \div size(b))

\* The square of v divided by d, without a number that needs more than 32 bits.
LOCAL SquareOver(v, d) ==
    LET high == (v \div 256) * v
    IN  IF d = 0 THEN 0
        ELSE (high \div d) * 256 + ((high % d) * 256 + (v % 256) * v) \div d

Coordinates(loc, velocity, speed) ==
    [loc |-> loc, velocity |-> velocity, acceleration |-> 0, target |-> velocity,
     speed |-> speed, last |-> 0]

----------------------------------------------------------------------------
VelocityAfter(c, ticks) ==
    LET v == c.velocity + Quot(c.acceleration * ticks, 100)
    IN  IF \/ c.acceleration < 0 /\ v < c.target
           \/ c.acceleration > 0 /\ v > c.target
        THEN c.target ELSE v

\* The way made in some ticks.
Way(c, ticks) ==
    LET v == VelocityAfter(c, ticks)
        diff == v - c.velocity
    IN  Quot(v * ticks, 100)
        - (IF c.acceleration = 0 THEN 0 ELSE Quot(diff * diff, 2 * c.acceleration))

\* A train on the track moves along it; one that is lost only gets faster or slower.
MoveBy(T, ts, c, ticks, way) ==
    LET v == VelocityAfter(c, ticks)
        loc == Loc(c.loc.node, c.loc.offset + way)
    IN  [c EXCEPT !.loc = IF loc.node = NullNode THEN NoLoc ELSE LocationCanonicalize(T, ts, loc),
                  !.velocity = v,
                  !.acceleration = IF v = c.target THEN 0 ELSE @]

\* update_coordinates_helper
Update(T, ts, c, ticks) == MoveBy(T, ts, c, ticks, Way(c, ticks))

AfterSensorHit(c, sensor) == [c EXCEPT !.loc = Loc(sensor, 0)]

\* The acceleration is the one that takes a train from this velocity to rest, or from rest
\* to the new one, within the stopping distance.
AfterSpeedChange(train, c, speed, last) ==
    LET target == SpeedToVelocity[train][speed + 1]
        sd == StoppingDistance[train][(IF speed = 0 THEN last ELSE speed) + 1]
        accel == SquareOver(IF target = 0 THEN c.velocity ELSE target, 2 * sd)
    IN  [c EXCEPT !.target = target, !.speed = speed, !.last = last,
                  !.acceleration = CASE c.velocity < target -> accel
                                     [] c.velocity = target -> 0
                                     [] c.velocity > target -> - accel]

AfterReverse(T, c) ==
    IF c.loc.node = NullNode THEN c
    ELSE LET back == LocationReverse(T, c.loc)
         IN  [c EXCEPT !.loc = Loc(back.node, back.offset + PICKUP_LENGTH)]

----------------------------------------------------------------------------
\* A stopping distance for a velocity between those of the table.
StoppingDistFromVelocity(train, velocity) ==
    LET v == SpeedToVelocity[train]
        sd == StoppingDistance[train]
        same == {i \in 1 .. 15 : v[i] = velocity}
        below == {i \in 1 .. 15 : v[i] < velocity}
        above == {i \in 1 .. 15 : v[i] > velocity}
        greatest(S) == CHOOSE i \in S : \A j \in S : j <= i
        least(S) == CHOOSE i \in S : \A j \in S : i <= j
    IN  CASE same # {} -> sd[least(same)]
          [] same = {} /\ below = {} -> 0
          [] same = {} /\ above = {} -> sd[15]
          [] OTHER -> LET a == greatest(below)
                          b == least(above)
                      IN  sd[a] + Quot((sd[b] - sd[a]) * (velocity - v[a]), v[b] - v[a])

\* The highest speed that leaves most of a way for braking, or -1.
MaxFeasibleSpeed(train, way) ==
    LET feasible == {i \in 1 .. 14 : way * 5 > StoppingDistance[train][i + 1] * 9}
    IN  IF feasible = {} THEN -1 ELSE CHOOSE i \in feasible : \A j \in feasible : j <= i

==============================================================================

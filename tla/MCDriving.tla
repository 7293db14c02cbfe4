----------------------------- MODULE MCDriving -----------------------------
(***************************************************************************)
(* Train 24 on a few trips: standing and running, next to the goal and far *)
(* from it, past it, towards the end of a track, and not yet located.      *)
(***************************************************************************)
EXTENDS Driving

S(bank, i) == 16 * (CHOOSE k \in 1 .. 5 : <<"A", "B", "C", "D", "E">>[k] = bank) + i - 17
Trip(from, offset, speed, to, faults) ==
    [from |-> Loc(from, offset), speed |-> speed, to |-> Loc(to, 0), faults |-> faults]

MCTrips ==
    {Trip(S("C", 13), 0, 0, S("D", 5), 2), Trip(S("C", 13), 0, 11, S("B", 16), 3),
     Trip(S("A", 13), 0, 11, S("D", 5), 4), Trip(S("D", 5), 100, 0, S("D", 5), 0),
     Trip(S("B", 8), 0, 0, S("D", 5), 0), Trip(NullNode, 0, 0, S("D", 5), 0)}
MCFinds == {S("C", 13)}
=============================================================================

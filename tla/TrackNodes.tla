------------------------------ MODULE TrackNodes ------------------------------
(***************************************************************************)
(* The nodes of a track (lib/track/track_node.h).  An edge is where it     *)
(* leads and how long it is; nothing reads the pointers src and reverse of *)
(* an edge, so they are left out.  A sensor's num is the number of its     *)
(* node; only turnouts (a branch and the merge behind it) need one.        *)
(***************************************************************************)
EXTENDS Integers, Sequences

LOCAL Edge(dest, dist) == [dest |-> dest, dist |-> dist]

Sensor(rev, dest, dist) ==
    [type |-> "SENSOR", num |-> 0, reverse |-> rev, edge |-> <<Edge(dest, dist)>>]

Branch(num, rev, straight, dist, curved, cdist) ==
    [type |-> "BRANCH", num |-> num, reverse |-> rev,
     edge |-> <<Edge(straight, dist), Edge(curved, cdist)>>]

Merge(num, rev, dest, dist) ==
    [type |-> "MERGE", num |-> num, reverse |-> rev, edge |-> <<Edge(dest, dist)>>]

Enter(rev, dest, dist) ==
    [type |-> "ENTER", num |-> 0, reverse |-> rev, edge |-> <<Edge(dest, dist)>>]

Exit(rev) == [type |-> "EXIT", num |-> 0, reverse |-> rev, edge |-> << >>]

==============================================================================

---------------------------- MODULE TrackB ----------------------------
(***************************************************************************)
(* Track B as init_trackb of lib/track/tracks.c lays it out: the nodes in  *)
(* the order of their numbers, each with the node that is the same place   *)
(* in the other direction, and where its edges lead and how long they are, *)
(* in millimetres.                                                         *)
(***************************************************************************)
EXTENDS TrackNodes

\* Sensors A1 to A16.
BankA == <<
    Sensor(1, 103, 231), Sensor(0, 133, 504), Sensor(3, 106, 43), Sensor(2, 31, 437),
    Sensor(5, 85, 231), Sensor(4, 25, 642), Sensor(7, 27, 470), Sensor(6, 83, 229),
    Sensor(9, 23, 289), Sensor(8, 81, 229), Sensor(11, 81, 282), Sensor(10, 15, 814),
    Sensor(13, 87, 236), Sensor(12, 131, 325), Sensor(15, 10, 814), Sensor(14, 87, 275) >>

\* Sensors B1 to B16.
BankB == <<
    Sensor(17, 61, 404), Sensor(16, 111, 231), Sensor(19, 33, 201), Sensor(18, 111, 239),
    Sensor(21, 50, 404), Sensor(20, 105, 231), Sensor(23, 9, 289), Sensor(22, 135, 43),
    Sensor(25, 4, 642), Sensor(24, 137, 50), Sensor(27, 7, 470), Sensor(26, 139, 50),
    Sensor(29, 119, 239), Sensor(28, 63, 201), Sensor(31, 2, 437), Sensor(30, 108, 50) >>

\* Sensors C1 to C16.
BankC == <<
    Sensor(33, 19, 201), Sensor(32, 117, 246), Sensor(35, 129, 514), Sensor(34, 89, 239),
    Sensor(37, 90, 61), Sensor(36, 109, 433), Sensor(39, 115, 231), Sensor(38, 84, 128),
    Sensor(41, 109, 326), Sensor(40, 110, 128), Sensor(43, 104, 120), Sensor(42, 107, 333),
    Sensor(45, 70, 780), Sensor(44, 100, 50), Sensor(47, 59, 404), Sensor(46, 91, 239) >>

\* Sensors D1 to D16.
BankD == <<
    Sensor(49, 121, 246), Sensor(48, 67, 201), Sensor(51, 99, 239), Sensor(50, 21, 404),
    Sensor(53, 69, 282), Sensor(52, 97, 229), Sensor(55, 97, 309), Sensor(54, 71, 376),
    Sensor(57, 75, 282), Sensor(56, 95, 316), Sensor(59, 47, 404), Sensor(58, 93, 231),
    Sensor(61, 17, 404), Sensor(60, 113, 239), Sensor(63, 28, 201), Sensor(62, 113, 246) >>

\* Sensors E1 to E16.
BankE == <<
    Sensor(65, 123, 239), Sensor(64, 78, 201), Sensor(67, 48, 201), Sensor(66, 99, 239),
    Sensor(69, 53, 282), Sensor(68, 98, 50), Sensor(71, 54, 376), Sensor(70, 45, 780),
    Sensor(73, 95, 239), Sensor(72, 76, 282), Sensor(75, 57, 282), Sensor(74, 92, 43),
    Sensor(77, 112, 43), Sensor(76, 72, 282), Sensor(79, 105, 246), Sensor(78, 64, 201) >>

\* Turnouts 1 to 7, each a branch and the merge behind it.
Turnouts1 == <<
    Branch(1, 81, 11, 282, 8, 229), Merge(1, 80, 83, 188),
    Branch(2, 83, 80, 188, 6, 229), Merge(2, 82, 85, 185),
    Branch(3, 85, 5, 231, 82, 185), Merge(3, 84, 38, 128),
    Branch(4, 87, 14, 275, 13, 236), Merge(4, 86, 103, 185),
    Branch(5, 89, 34, 239, 93, 371), Merge(5, 88, 114, 155),
    Branch(6, 91, 46, 239, 115, 371), Merge(6, 90, 37, 61),
    Branch(7, 93, 58, 231, 89, 371), Merge(7, 92, 74, 43) >>

\* Turnouts 8 to 14, each a branch and the merge behind it.
Turnouts8 == <<
    Branch(8, 95, 56, 316, 73, 239), Merge(8, 94, 96, 155),
    Branch(9, 97, 55, 309, 52, 229), Merge(9, 96, 94, 155),
    Branch(10, 99, 51, 239, 66, 239), Merge(10, 98, 68, 50),
    Branch(11, 101, 102, 188, 107, 495), Merge(11, 100, 44, 50),
    Branch(12, 103, 1, 231, 86, 185), Merge(12, 102, 101, 188),
    Branch(13, 105, 20, 231, 79, 246), Merge(13, 104, 43, 120),
    Branch(14, 107, 101, 495, 42, 333), Merge(14, 106, 3, 43) >>

\* Turnouts 15 to 18, each a branch and the merge behind it.
Turnouts15 == <<
    Branch(15, 109, 36, 433, 41, 326), Merge(15, 108, 30, 50),
    Branch(16, 111, 16, 231, 18, 239), Merge(16, 110, 40, 128),
    Branch(17, 113, 60, 239, 62, 246), Merge(17, 112, 77, 43),
    Branch(18, 115, 39, 231, 91, 371), Merge(18, 114, 88, 155) >>

\* Turnouts 153 to 156, each a branch and the merge behind it.
Turnouts153 == <<
    Branch(153, 117, 125, 253, 32, 246), Merge(153, 116, 119, 0),
    Branch(154, 119, 116, 0, 29, 239), Merge(154, 118, 122, 0),
    Branch(155, 121, 127, 282, 49, 246), Merge(155, 120, 123, 0),
    Branch(156, 123, 120, 0, 65, 239), Merge(156, 122, 118, 0) >>

\* The ends of the track, each entered and left.
Ends == <<
    Enter(125, 117, 253), Exit(124), Enter(127, 121, 282), Exit(126),
    Enter(129, 35, 514), Exit(128), Enter(131, 12, 325), Exit(130),
    Enter(133, 0, 504), Exit(132), Enter(135, 22, 43), Exit(134),
    Enter(137, 24, 50), Exit(136), Enter(139, 26, 50), Exit(138) >>

Laid == BankA \o BankB \o BankC \o BankD \o BankE
        \o Turnouts1 \o Turnouts8 \o Turnouts15 \o Turnouts153 \o Ends

Nodes == [n \in 0 .. Len(Laid) - 1 |-> Laid[n + 1]]

==============================================================================

------------------------------- MODULE MCRouter -------------------------------
EXTENDS Router

BothLayouts == {TRUE, FALSE}

\* All sensors and the ends of the track.
SensorsAndEnds == (0 .. 79) \cup (124 .. 139)

==============================================================================

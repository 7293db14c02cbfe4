------------------------------ MODULE MCSensors ------------------------------
EXTENDS Sensors
BothWays(sensors) == sensors \cup {T[s].reverse : s \in sensors}
MCArea == <<S, BothWays({62, 60}), BothWays({44, 2, 42})>>
MCMaxSilent == <<1, 0, 1>>
MCOrigin == <<0, 62, 44>>
MCExpected == [t \in 1 .. 3 |-> CHOOSE s \in Forward[MCOrigin[t]] : TRUE]
MCFleets == {<<1>>, <<3, 2>>}
==============================================================================

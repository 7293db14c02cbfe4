------------------------------ MODULE TrainModels ------------------------------
(***************************************************************************)
(* The measured constants that init_track gives the trains: how fast each  *)
(* train is at each of its 15 speeds, in hundredths of a millimetre per    *)
(* second, and how far it rolls when it is stopped, in hundredths of a     *)
(* millimetre.  Speed s is entry s + 1.                                    *)
(***************************************************************************)
EXTENDS Integers, Sequences, TLC

SuperDefaultSpeeds ==
    <<0, 998, 5796, 8682, 12579, 17143, 20990, 27078, 30644, 37350, 40932, 46895,
      51378, 57346, 60097>>

DefaultSpeeds ==
    (24 :> <<0, 1073, 2332, 3780, 4448, 8308, 11652, 16502, 22005, 30495, 37865, 44705,
             50547, 56677, 57087>>) @@
    (58 :> <<0, 998, 5796, 8682, 12579, 13143, 15460, 19906, 22789, 28110, 33068, 40838,
             47287, 50212, 57506>>) @@
    (74 :> <<0, 923, 7225, 12462, 17220, 21784, 26735, 33404, 36291, 43451, 47980, 54109,
             57767, 62513, 65192>>) @@
    (77 :> <<0, 688, 4000, 5992, 7639, 12443, 17124, 22363, 27409, 33549, 36891, 47035,
             54329, 61487, 70099>>) @@
    (78 :> <<0, 885, 2468, 4824, 5961, 8010, 11586, 16060, 20189, 24750, 28762, 34951,
             40057, 47599, 49394>>) @@
    (79 :> <<0, 824, 4938, 7174, 10395, 14949, 17371, 23388, 27888, 34001, 40884, 50210,
             58437, 63219, 66973>>)

SuperDefaultStoppingDistances ==
    <<0, 110, 350, 740, 1960, 3980, 7563, 13040, 20340, 30772, 43890, 60410, 78498,
      100917, 139302>>

\* Train 77 was measured at one speed; of two entries for one speed the last counts.
DefaultStoppingDistances ==
    (24 :> <<0, 110, 350, 740, 1960, 3980, 7811, 13540, 20840, 30976, 44390, 60910,
             83435, 106430, 140575>>) @@
    (58 :> <<0, 110, 350, 740, 1960, 3980, 7440, 12790, 20090, 30670, 42816, 55683,
             74089, 93892, 143575>>) @@
    (74 :> <<0, 110, 350, 740, 1960, 3980, 7440, 12790, 20090, 30670, 43640, 60160,
             80220, 102330, 142342>>) @@
    (77 :> [SuperDefaultStoppingDistances EXCEPT ![15] = 131032]) @@
    (78 :> <<0, 75, 200, 450, 1500, 3000, 6000, 10000, 15000, 22500, 35000, 45000,
             60000, 73926, 137155>>)

\* setup_default_map
SetupDefaultMap(defaults, superDefaults) ==
    [train \in 1 .. 80 |->
        IF train \in DOMAIN defaults THEN defaults[train] ELSE superDefaults]

SpeedToVelocity == SetupDefaultMap(DefaultSpeeds, SuperDefaultSpeeds)
StoppingDistance == SetupDefaultMap(DefaultStoppingDistances, SuperDefaultStoppingDistances)

==============================================================================

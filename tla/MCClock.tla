------------------------------- MODULE MCClock -------------------------------
(***************************************************************************)
(* The clock server on small instances.                                    *)
(***************************************************************************)
EXTENDS ClockServer

==============================================================================

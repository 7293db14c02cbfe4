------------------------------ MODULE MCTransmit ------------------------------
(***************************************************************************)
(* The transmit servers on small instances.                                *)
(***************************************************************************)
EXTENDS TransmitServer

==============================================================================

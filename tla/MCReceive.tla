------------------------------ MODULE MCReceive ------------------------------
(***************************************************************************)
(* The receive servers on small instances.                                 *)
(***************************************************************************)
EXTENDS ReceiveServer

==============================================================================

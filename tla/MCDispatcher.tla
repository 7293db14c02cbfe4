----------------------------- MODULE MCDispatcher -----------------------------
(***************************************************************************)
(* The command dispatcher on small instances.                              *)
(***************************************************************************)
EXTENDS Dispatcher

==============================================================================

------------------------------ MODULE MCKernel ------------------------------
(***************************************************************************)
(* The kernel for TLC.  The configurations Kernel*.cfg choose the size of  *)
(* the machine and the system calls its tasks make.                        *)
(***************************************************************************)
EXTENDS KernelRefinement

=============================================================================

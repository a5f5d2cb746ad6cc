--------------------------- MODULE MCSyscallMonitor ---------------------------
(***************************************************************************)
(* Instances of SyscallMonitor for TLC.  The cfg files choose the          *)
(* processes and what the environment may do.                              *)
(***************************************************************************)
EXTENDS SyscallMonitor, TLC

\* The descendants are interchangeable, the root is not.
Descendants == Permutations(Proc \ {Root})
===============================================================================

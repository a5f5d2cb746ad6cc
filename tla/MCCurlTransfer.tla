---------------------------- MODULE MCCurlTransfer ----------------------------
(***************************************************************************)
(* Instances of CurlTransfer for TLC.                                      *)
(***************************************************************************)
EXTENDS CurlTransfer, TLC

\* The packages are interchangeable; used where only safety is checked.
Keys == Permutations(Key)
===============================================================================

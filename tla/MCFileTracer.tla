---------------------------- MODULE MCFileTracer ------------------------------
(***************************************************************************)
(* Instances of FileTracer for TLC.                                        *)
(***************************************************************************)
EXTENDS FileTracer, TLC

Siblings == Permutations(Proc)
===============================================================================

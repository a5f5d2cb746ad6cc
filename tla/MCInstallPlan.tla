---------------------------- MODULE MCInstallPlan -----------------------------
(***************************************************************************)
(* Instances of InstallPlan for TLC.                                       *)
(***************************************************************************)
EXTENDS InstallPlan, TLC

\* The packages are interchangeable.
Packages == Permutations(Pkg)
===============================================================================

----------------------------- MODULE MCOutputPipes -----------------------------
(***************************************************************************)
(* Instances of OutputPipes for TLC.                                       *)
(***************************************************************************)
EXTENDS OutputPipes, TLC
===============================================================================

------------------------------- MODULE FileFates -------------------------------
(***************************************************************************)
(* What the resolvers promise of the traced files: each gets one fate, once. *)
(* A file of a Debian package is installed with the package, any other file  *)
(* of an R package with that one, and only what is left is listed in the     *)
(* manifest.  Resolution implements this module.                             *)
(***************************************************************************)
CONSTANT File

VARIABLES
    fate,       \* what was decided of each file
    inDeb,      \* the files a Debian package provides
    inR,        \* the files an R package provides
    elsewhere   \* those of both that are known by another name than the traced one

vars == <<fate, inDeb, inR, elsewhere>>

Init ==
    /\ fate \in [File -> {"untraced", "open"}]
    /\ inDeb \subseteq File
    /\ inR \subseteq File
    /\ elsewhere \subseteq File

\* A file that a database has under another name than the traced one only may be missed.
Decide(f, d) ==
    /\ fate[f] = "open"
    /\ \/ d = "deb" /\ f \in inDeb
       \/ d = "R" /\ f \in inR /\ f \notin inDeb \ elsewhere
       \/ d = "listed" /\ f \notin (inDeb \cup inR) \ elsewhere
    /\ fate' = [fate EXCEPT ![f] = d]
    /\ UNCHANGED <<inDeb, inR, elsewhere>>

Next == \E f \in File, d \in {"deb", "R", "listed"} : Decide(f, d)

Spec == Init /\ [][Next]_vars
===============================================================================

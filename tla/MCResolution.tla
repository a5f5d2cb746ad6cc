----------------------------- MODULE MCResolution ------------------------------
(***************************************************************************)
(* Instances of Resolution for TLC.                                        *)
(***************************************************************************)
EXTENDS Resolution, TLC

CONSTANTS a, b, l, m

Target == (l :> a) @@ (m :> b)

\* The name of b is the one of a, followed by '#' and more.
CutsOfB == {(a :> a) @@ (b :> b), (a :> a) @@ (b :> a)}

Sort(traced, before, asked, pkg, alternate, base, compiled) ==
    [traced |-> traced, before |-> before, asked |-> asked, pkg |-> pkg,
     alternate |-> alternate, base |-> base, compiled |-> compiled]

\* Inputs of no package, of an R package to compile, of a base package, and of both
\* databases under another name; a file the program made.
Inputs5 == {
    Sort(TRUE, TRUE, FALSE, {}, FALSE, FALSE, FALSE),
    Sort(TRUE, TRUE, FALSE, {"R"}, FALSE, FALSE, TRUE),
    Sort(TRUE, TRUE, FALSE, {"R"}, FALSE, TRUE, FALSE),
    Sort(TRUE, TRUE, FALSE, {"deb", "R"}, TRUE, FALSE, FALSE),
    Sort(TRUE, FALSE, FALSE, {}, FALSE, FALSE, FALSE)}

\* A result the program made, one that was an input, and one it never touched.
Results3 == {
    Sort(TRUE, FALSE, TRUE, {}, FALSE, FALSE, FALSE),
    Sort(TRUE, TRUE, TRUE, {"R"}, FALSE, FALSE, FALSE),
    Sort(FALSE, FALSE, TRUE, {}, FALSE, FALSE, FALSE)}

Sorts == Inputs5 \cup Results3

\* Those between which changes and the user's edits choose, and where their files are.
Chosen == {s \in Sorts : ~s.base /\ (s.asked => s.pkg # {} \/ s.traced)}
Ordinary == {"file", "alink", "dir", "hidden", "gone"}

Disturbed == changes > 0 \/ edited

\* A run that is disturbed begins with these.
Followed ==
    ~Disturbed /\ Disturbed' =>
        /\ \A f \in File : kind[f] \in Chosen /\ disk[f] \in Ordinary
        /\ \A x \in Link : links[x] = "link"
===============================================================================

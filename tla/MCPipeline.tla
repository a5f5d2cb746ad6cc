------------------------------ MODULE MCPipeline -------------------------------
(***************************************************************************)
(* Instances of Pipeline for TLC.                                          *)
(***************************************************************************)
EXTENDS Pipeline, TLC

CONSTANTS c1, c2, i, j, k, u, v, w, d, e

\* An image that has nothing, and two with a file in common.
Lists == (i :> <<>>) @@ (j :> <<u, v>>) @@ (k :> <<u, w>>)

SomeImages ==
    {c1 :> i @@ c2 :> i, c1 :> j @@ c2 :> j, c1 :> j @@ c2 :> k, c1 :> k @@ c2 :> j}

OneOrTwoDirs == [{c1, c2} -> {d, e}]

\* Neither calls nor directories have an order.
Names == {f @@ g : f \in Permutations({c1, c2}), g \in Permutations({d, e})}

\* Calls whose image has a list, or that do not share a directory, have only caches in
\* common, and are followed as long as they are at work on these.
Followed ==
    \A c \in Call :
        at'[c] \in (InTask \ {"capture"}) \cup {"finished"} =>
            image[c] = i /\ \A o \in Call : dir[o] = dir[c]
===============================================================================

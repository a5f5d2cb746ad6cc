----------------------------- MODULE MCPathLookup ------------------------------
(***************************************************************************)
(* Instances of PathLookup for TLC.                                        *)
(***************************************************************************)
EXTENDS PathLookup, TLC

CONSTANTS usr, lib, bin, f

Paths == {<<>>, <<usr>>, <<lib>>, <<bin>>, <<usr, lib>>, <<usr, lib, f>>, <<lib, f>>,
          <<usr, bin>>, <<usr, bin, f>>, <<bin, f>>}

\* No links; /lib -> /usr/lib; with it /bin -> /usr/bin, or a second one to /usr/lib.
Links == {<<>>, lib :> <<usr, lib>>, (lib :> <<usr, lib>>) @@ (bin :> <<usr, bin>>),
          (lib :> <<usr, lib>>) @@ (bin :> <<usr, lib>>)}

Listed == {<<usr>>, <<usr, lib>>, <<usr, lib, f>>, <<lib, f>>, <<usr, bin, f>>, <<bin, f>>}
ShortLists == {l \in SUBSET Listed : Cardinality(l) <= 2}

Asked == {<<usr, lib, f>>, <<lib, f>>, <<bin, f>>}
===============================================================================

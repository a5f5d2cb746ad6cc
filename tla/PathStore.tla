------------------------------- MODULE PathStore -------------------------------
(***************************************************************************)
(* What FileSystemTrie promises its users: a dictionary from paths to        *)
(* values, where the last value put at a path counts.                        *)
(***************************************************************************)
CONSTANTS Path, Value, NoValue

VARIABLE store

Init == store = [p \in Path |-> NoValue]

Put(p, v) == store' = [store EXCEPT ![p] = v]

Next == \E p \in Path, v \in Value : Put(p, v)

Spec == Init /\ [][Next]_store
===============================================================================

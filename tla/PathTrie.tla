------------------------------- MODULE PathTrie --------------------------------
(***************************************************************************)
(* FileSystemTrie (src/src/filesystem_trie.h): a tree of path components     *)
(* with a value at some of its nodes.  The package databases and the ignored *)
(* files are kept in such tries.                                             *)
(*                                                                         *)
(* A path is the sequence of its components; a node is identified with the  *)
(* path that leads to it.                                                    *)
(***************************************************************************)
EXTENDS Naturals, Sequences, FiniteSets

CONSTANTS
    Part,       \* the path components
    Path,       \* the paths there are, with all their prefixes
    Value,
    NoValue     \* std::nullopt, nullptr

Prefixes(p) == {SubSeq(p, 1, n) : n \in 0 .. Len(p)}

ASSUME TrieAssumption ==
    /\ Path \subseteq Seq(Part)
    /\ <<>> \in Path
    /\ \A p \in Path : Prefixes(p) \subseteq Path
    /\ NoValue \notin Value
    /\ IsFiniteSet(Path)

Trie == [nodes : SUBSET Path, value : [Path -> Value \cup {NoValue}], size_ : Nat]

\* The root node only.
EmptyTrie ==
    [nodes |-> {<<>>}, value |-> [p \in Path |-> NoValue], size_ |-> 0]

\* Mutant: a path that has a value keeps it.
MutantKeepsFirst(t, p, v) ==
    [nodes |-> t.nodes \cup Prefixes(p),
     value |-> IF t.value[p] # NoValue THEN t.value ELSE [t.value EXCEPT ![p] = v],
     size_ |-> IF Prefixes(p) \subseteq t.nodes THEN t.size_ ELSE t.size_ + 1]

\* The nodes on the way are made, the value replaces an older one, and the size
\* grows when a node was new; `inserted' is not set for a path on an older way.
insert(t, p, v) ==
    [nodes |-> t.nodes \cup Prefixes(p),
     value |-> [t.value EXCEPT ![p] = v],
     size_ |-> IF Prefixes(p) \subseteq t.nodes THEN t.size_ ELSE t.size_ + 1]

find(t, p) == IF p \in t.nodes THEN t.value[p] ELSE NoValue

\* Where the walk along p ends: the deepest node on it.
LastNode(t, p) ==
    CHOOSE q \in Prefixes(p) \cap t.nodes :
        \A r \in Prefixes(p) \cap t.nodes : Len(r) <= Len(q)

\* Mutant: the value of the longest prefix that is no longer than a component.
MutantFirstMatching(t, p) == t.value[SubSeq(p, 1, IF Len(p) = 0 THEN 0 ELSE 1)]

\* The value of the node where the walk ends, which need not have one.
find_last_matching(t, p) == t.value[LastNode(t, p)]

-------------------------------------------------------------------------------
(* The iterator, and the copy constructor that inserts what it yields. *)

Children(t, p) == {q \in t.nodes : Len(q) = Len(p) + 1 /\ p \in Prefixes(q)}

\* Mutant: the iterator ends its way at a node that has a value.
MutantStopsAtValue(t, stack, n) ==
    (stack \ {n}) \cup (IF t.value[n] # NoValue THEN {} ELSE Children(t, n))

\* advance(): a node leaves the stack and its children, in any order, enter it.
Advanced(t, stack, n) == (stack \ {n}) \cup Children(t, n)

Yielded(t, copy, n) ==
    IF t.value[n] # NoValue THEN insert(copy, n, t.value[n]) ELSE copy

-------------------------------------------------------------------------------
(* Reference definitions, by the paths that have a value. *)

Valued(t) == {p \in Path : find(t, p) # NoValue}

\* The value of the longest prefix of p that was inserted.
LongestValue(t, p) ==
    IF Prefixes(p) \cap Valued(t) = {} THEN NoValue
    ELSE t.value[CHOOSE q \in Prefixes(p) \cap Valued(t) :
                    \A r \in Prefixes(p) \cap Valued(t) : Len(r) <= Len(q)]

\* Another inserted path goes on longer with p than any inserted prefix of p does.
Gap(t, p) ==
    \E q \in Prefixes(p) : \E r \in Valued(t) :
        /\ q \in Prefixes(r)
        /\ \A s \in Prefixes(p) \cap Valued(t) : Len(s) < Len(q)
===============================================================================

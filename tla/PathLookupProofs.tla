--------------------------- MODULE PathLookupProofs ----------------------------
(***************************************************************************)
(* Proofs about PathTrie and PathLookup, for any paths, packages and links   *)
(* of the root directory.                                                    *)
(*                                                                         *)
(* What find_last_matching answers depends on the shape of the trie          *)
(* (WellFormed): every node is on the way to a value. insert keeps it, and    *)
(* changes the dictionary at one path only.                                  *)
(***************************************************************************)
EXTENDS PathLookup, FiniteSetTheorems, SequenceTheorems, TLAPS

-------------------------------------------------------------------------------
\* A set of numbers below a bound has a greatest one.
LEMMA Greatest ==
    ASSUME NEW n \in Nat, NEW T \in SUBSET (0 .. n), T # {}
    PROVE  \E x \in T : \A y \in T : y <= x
<1> DEFINE D == {k \in 0 .. n : \E x \in T : k <= x}
           c == Cardinality(D)
<1>1. D \subseteq 0 .. n /\ D # {}
  <2>1. PICK x \in T : x \in 0 .. n
    OBVIOUS
  <2>2. x \in D
    BY <2>1
  <2> QED
    BY <2>2
<1>2. \A x \in D : 0 .. x \subseteq D
  OBVIOUS
<1>3. \A x \in D : \E y \in T : x <= y
  OBVIOUS
<1>4. T \subseteq D
  OBVIOUS
<1> HIDE DEF D
<1>5. IsFiniteSet(D)
  <2>1. IsFiniteSet(0 .. n)
    BY FS_Interval
  <2> QED
    BY <1>1, <2>1, FS_Subset
<1>6. c \in Nat
  BY <1>5, FS_CardinalityType
<1>7. \A x \in D : x <= c - 1
  <2> TAKE x \in D
  <2>1. x \in Nat
    BY <1>1
  <2>2. Cardinality(0 .. x) = x + 1
    BY <2>1, FS_Interval
  <2>3. Cardinality(0 .. x) <= c
    BY <1>2, <1>5, FS_Subset
  <2> HIDE DEF c
  <2> QED
    BY <2>1, <2>2, <2>3, <1>6
<1> HIDE DEF c
<1>8. c - 1 \in D
  <2> SUFFICES ASSUME c - 1 \notin D PROVE FALSE
    OBVIOUS
  <2>1. \A x \in D : x \in 0 .. c - 2
    BY <1>1, <1>6, <1>7
  <2>2. c >= 2 /\ c - 2 \in Int
    <3>1. PICK x \in D : x \in 0 .. c - 2
      BY <1>1, <2>1
    <3> QED
      BY <1>6, <3>1
  <2> DEFINE m == c - 2
  <2>3. m \in Nat /\ c = m + 2 /\ D \subseteq 0 .. m
    BY <2>1, <2>2, <1>6
  <2> HIDE DEF m
  <2>4. IsFiniteSet(0 .. m) /\ Cardinality(0 .. m) = m + 1
    BY <2>3, FS_Interval
  <2>5. c <= Cardinality(0 .. m)
    BY <2>3, <2>4, FS_Subset DEF c
  <2> QED
    BY <2>3, <2>4, <2>5
<1>9. PICK y \in T : c - 1 <= y
  BY <1>3, <1>8
<1>10. \A z \in T : z <= y
  BY <1>4, <1>7, <1>9, <1>6
<1> QED
  BY <1>10

\* And a set of numbers has a least one.
LEMMA Least ==
    ASSUME NEW n \in Nat, NEW T \in SUBSET (0 .. n), T # {}
    PROVE  \E x \in T : \A y \in T : x <= y
<1> DEFINE U == {k \in 0 .. n : n - k \in T}
<1>1. U \in SUBSET (0 .. n)
  OBVIOUS
<1>2. PICK t \in T : t \in 0 .. n
  OBVIOUS
<1>3. n - t \in U
  BY <1>2
<1>4. \A y \in T : y \in 0 .. n /\ n - y \in U
  OBVIOUS
<1>5. \A u \in U : u \in 0 .. n /\ n - u \in T
  OBVIOUS
<1> HIDE DEF U
<1>6. PICK u \in U : \A v \in U : v <= u
  BY <1>1, <1>3, Greatest
<1>7. \A y \in T : n - u <= y
  BY <1>4, <1>5, <1>6
<1> QED
  BY <1>5, <1>7

-------------------------------------------------------------------------------
\* Taking the first n components of a path.
LEMMA FirstParts ==
    ASSUME NEW p \in Seq(Part), NEW n \in 0 .. Len(p)
    PROVE  /\ SubSeq(p, 1, n) \in Seq(Part)
           /\ Len(SubSeq(p, 1, n)) = n
           /\ \A i \in 1 .. n : SubSeq(p, 1, n)[i] = p[i]
<1>1. Len(p) \in Nat /\ \A i \in 1 .. Len(p) : p[i] \in Part
  BY LenProperties, ElementOfSeq
<1>2. n \in Nat /\ \A i \in 1 .. n : p[i] \in Part
  BY <1>1
<1>3. /\ SubSeq(p, 1, n) \in Seq(Part)
      /\ Len(SubSeq(p, 1, n)) = IF 1 <= n THEN n - 1 + 1 ELSE 0
      /\ \A i \in 1 .. n - 1 + 1 : SubSeq(p, 1, n)[i] = p[1 + i - 1]
  BY <1>2, SubSeqProperties
<1> QED
  BY <1>2, <1>3

\* The prefixes of a path: one of each length up to its own.
LEMMA PrefixFacts ==
    ASSUME NEW p \in Seq(Part)
    PROVE  /\ p \in Prefixes(p)
           /\ <<>> \in Prefixes(p)
           /\ Len(p) \in Nat
           /\ \A q \in Prefixes(p) :
                 q \in Seq(Part) /\ Len(q) \in 0 .. Len(p) /\ q = SubSeq(p, 1, Len(q))
           /\ \A q, r \in Prefixes(p) : Len(q) = Len(r) => q = r
<1>1. Len(p) \in Nat
  BY LenProperties
<1>2. SubSeq(p, 1, Len(p)) = p /\ SubSeq(p, 1, 0) = <<>>
  BY SubSeqFull, SubSeqEmpty
<1>3. p \in Prefixes(p) /\ <<>> \in Prefixes(p)
  <2>1. Len(p) \in 0 .. Len(p) /\ 0 \in 0 .. Len(p)
    BY <1>1
  <2>2. SubSeq(p, 1, Len(p)) \in Prefixes(p) /\ SubSeq(p, 1, 0) \in Prefixes(p)
    BY <2>1 DEF Prefixes
  <2> QED
    BY <1>2, <2>2
<1>4. \A q \in Prefixes(p) :
        q \in Seq(Part) /\ Len(q) \in 0 .. Len(p) /\ q = SubSeq(p, 1, Len(q))
  BY FirstParts DEF Prefixes
<1>5. \A q, r \in Prefixes(p) : Len(q) = Len(r) => q = r
  BY <1>4
<1> QED
  BY <1>1, <1>3, <1>4, <1>5

\* A prefix of a prefix is a prefix.
LEMMA PrefixTransitive ==
    ASSUME NEW p \in Seq(Part), NEW q \in Prefixes(p), NEW r \in Prefixes(q)
    PROVE  r \in Prefixes(p)
<1>1. /\ Len(p) \in Nat /\ Len(q) \in 0 .. Len(p) /\ q = SubSeq(p, 1, Len(q))
      /\ q \in Seq(Part)
  BY PrefixFacts
<1>2. /\ Len(r) \in 0 .. Len(q) /\ r = SubSeq(q, 1, Len(r)) /\ r \in Seq(Part)
  BY <1>1, PrefixFacts
<1>3. \A i \in 1 .. Len(r) : r[i] = q[i]
  BY <1>1, <1>2, FirstParts
<1>4. \A i \in 1 .. Len(q) : q[i] = p[i]
  BY <1>1, FirstParts
<1> DEFINE t == SubSeq(p, 1, Len(r))
<1>5. Len(r) \in 0 .. Len(p)
  BY <1>1, <1>2
<1>6. t \in Seq(Part) /\ Len(t) = Len(r) /\ \A i \in 1 .. Len(r) : t[i] = p[i]
  BY <1>5, FirstParts
<1>7. t \in Prefixes(p)
  BY <1>5 DEF Prefixes
<1> HIDE DEF t
<1>8. \A i \in 1 .. Len(r) : r[i] = t[i]
  BY <1>1, <1>2, <1>3, <1>4, <1>6
<1>9. r = t
  BY <1>2, <1>6, <1>8, SeqEqual
<1> QED
  BY <1>7, <1>9

-------------------------------------------------------------------------------
\* The shape of a trie that was filled by insert: the ways to its nodes are nodes,
\* values are at nodes, and each node is on the way to a value.
WellFormed(t) ==
    /\ t \in Trie
    /\ <<>> \in t.nodes
    /\ \A q \in t.nodes : Prefixes(q) \subseteq t.nodes
    /\ \A q \in Path \ t.nodes : t.value[q] = NoValue
    /\ \A q \in t.nodes \ {<<>>} : \E r \in Path : t.value[r] # NoValue /\ q \in Prefixes(r)

LEMMA EmptyWellFormed == WellFormed(EmptyTrie)
<1>1. Prefixes(<<>>) = {<<>>}
  <2>1. <<>> \in Seq(Part) /\ Len(<<>>) = 0
    BY EmptySeq
  <2> DEFINE e == <<>>
  <2>2. e \in Seq(Part) /\ Len(e) = 0
    BY <2>1
  <2> HIDE DEF e
  <2>3. \A q, r \in Prefixes(e) : Len(q) = Len(r) => q = r
    BY <2>2, PrefixFacts
  <2>4. e \in Prefixes(e) /\ \A q \in Prefixes(e) : Len(q) \in 0 .. Len(e)
    BY <2>2, PrefixFacts
  <2>5. Prefixes(e) = {e}
    BY <2>2, <2>3, <2>4
  <2> QED
    BY <2>5 DEF e
<1> QED
  BY <1>1, TrieAssumption DEF WellFormed, EmptyTrie, Trie

\* insert keeps the shape.
LEMMA InsertKeepsShape ==
    ASSUME NEW t, WellFormed(t), NEW p \in Path, NEW v \in Value
    PROVE  WellFormed(insert(t, p, v))
<1> DEFINE u == insert(t, p, v)
<1>1. p \in Seq(Part) /\ p \in Prefixes(p) /\ Prefixes(p) \subseteq Path
  BY TrieAssumption, PrefixFacts
<1>2. u.nodes = t.nodes \cup Prefixes(p) /\ u.value = [t.value EXCEPT ![p] = v]
  BY DEF insert
<1>3. u \in Trie
  BY <1>1 DEF WellFormed, Trie, insert
<1>4. u.value[p] = v /\ \A q \in Path \ {p} : u.value[q] = t.value[q]
  BY <1>2 DEF WellFormed, Trie
<1> HIDE DEF u
<1>5. \A q \in u.nodes : Prefixes(q) \subseteq u.nodes
  BY <1>1, <1>2, PrefixTransitive DEF WellFormed
<1>6. \A q \in Path \ u.nodes : u.value[q] = NoValue
  BY <1>1, <1>2, <1>4 DEF WellFormed
<1>7. \A q \in u.nodes \ {<<>>} : \E r \in Path : u.value[r] # NoValue /\ q \in Prefixes(r)
  <2>1. v # NoValue
    BY TrieAssumption
  <2> QED
    BY <1>2, <1>4, <2>1 DEF WellFormed
<1> QED
  BY <1>2, <1>3, <1>5, <1>6, <1>7 DEF WellFormed, u

\* insert puts a value at one path.
LEMMA InsertPuts ==
    ASSUME NEW t, WellFormed(t), NEW p \in Path, NEW v \in Value
    PROVE  \A q \in Path : find(insert(t, p, v), q) = IF q = p THEN v ELSE find(t, q)
<1>1. p \in Prefixes(p)
  BY TrieAssumption, PrefixFacts
<1> QED
  BY <1>1 DEF find, insert, WellFormed, Trie

\* The walk along a path has an end.
LEMMA WalkEnds ==
    ASSUME NEW p \in Path, NEW S \in SUBSET Prefixes(p), S # {}
    PROVE  \E q \in S : \A r \in S : Len(r) <= Len(q)
<1>1. p \in Seq(Part)
  BY TrieAssumption
<1>2. Len(p) \in Nat /\ \A q \in S : Len(q) \in 0 .. Len(p)
  BY <1>1, PrefixFacts
<1> DEFINE T == {k \in 0 .. Len(p) : \E q \in S : Len(q) = k}
<1>3. T \in SUBSET (0 .. Len(p)) /\ T # {}
  BY <1>2
<1>4. PICK x \in T : \A y \in T : y <= x
  <2> HIDE DEF T
  <2> QED
    BY <1>2, <1>3, Greatest
<1> QED
  BY <1>2, <1>4

\* find_last_matching in a trie of this shape.
LEMMA LastMatch ==
    ASSUME NEW t, WellFormed(t), NEW p \in Path
    PROVE  find_last_matching(t, p) = IF Gap(t, p) THEN NoValue ELSE LongestValue(t, p)
<1> DEFINE N == Prefixes(p) \cap t.nodes
           V == Prefixes(p) \cap Valued(t)
           q == LastNode(t, p)
<1>1. p \in Seq(Part) /\ <<>> \in Prefixes(p)
  BY TrieAssumption, PrefixFacts
<1>2. N # {}
  BY <1>1 DEF WellFormed
<1>3. q \in N /\ \A r \in N : Len(r) <= Len(q)
  <2>1. \E x \in N : \A r \in N : Len(r) <= Len(x)
    BY <1>2, WalkEnds
  <2> QED
    BY <2>1 DEF LastNode
<1>4. V \subseteq N
  BY DEF Valued, find
<1>5. Valued(t) = {r \in Path : t.value[r] # NoValue}
  BY DEF WellFormed, Valued, find
<1>6. \A r \in N : Len(r) \in Nat
  BY <1>1, PrefixFacts
<1>7. find_last_matching(t, p) = t.value[q]
  BY DEF find_last_matching
<1>8. N \subseteq Path
  BY DEF WellFormed, Trie
<1> HIDE DEF q
<1>9. CASE q \in Valued(t)
  <2>1. q \in V
    BY <1>3, <1>9
  <2>2. \A r \in V : (\A s \in V : Len(s) <= Len(r)) => r = q
    BY <1>1, <1>3, <1>4, <1>6, <2>1, PrefixFacts
  <2>3. LongestValue(t, p) = t.value[q]
    <3>1. \E x \in V : \A s \in V : Len(s) <= Len(x)
      BY <1>3, <1>4, <2>1
    <3> DEFINE w == CHOOSE x \in V : \A s \in V : Len(s) <= Len(x)
    <3>2. w = q
      BY <2>2, <3>1
    <3> QED
      BY <2>1, <3>2 DEF LongestValue
  <2>4. ~Gap(t, p)
    <3> SUFFICES ASSUME NEW x \in Prefixes(p), NEW r \in Valued(t), x \in Prefixes(r),
                        Len(q) < Len(x)
                 PROVE  FALSE
      BY <2>1 DEF Gap
    <3>1. x \in t.nodes
      BY DEF WellFormed, Valued, find
    <3>2. x \in N
      BY <3>1
    <3> QED
      BY <1>3, <1>6, <3>2
  <2> QED
    BY <1>7, <2>3, <2>4
<1>10. CASE q \notin Valued(t)
  <2>1. t.value[q] = NoValue
    BY <1>3, <1>5, <1>8, <1>10
  <2>2. CASE V = {}
    BY <1>7, <2>1, <2>2 DEF LongestValue
  <2>3. CASE V # {}
    <3>1. \A s \in V : Len(s) < Len(q)
      <4> TAKE s \in V
      <4>1. s \in N /\ s # q
        BY <1>4, <1>10
      <4>2. Len(s) # Len(q)
        BY <1>1, <1>3, <4>1, PrefixFacts
      <4> QED
        BY <1>3, <1>6, <4>1, <4>2
    <3>2. q # <<>>
      <4>1. PICK s \in V : Len(s) \in Nat
        BY <1>4, <1>6, <2>3
      <4> QED
        BY <3>1, <4>1, EmptySeq
    <3>3. PICK r \in Valued(t) : q \in Prefixes(r)
      BY <1>3, <1>5, <3>2 DEF WellFormed
    <3>4. Gap(t, p)
      BY <1>3, <3>1, <3>3 DEF Gap
    <3> QED
      BY <1>7, <2>1, <3>4
  <2> QED
    BY <2>2, <2>3
<1> QED
  BY <1>9, <1>10

-------------------------------------------------------------------------------
\* The types that hold of every step; the trie has its shape.
Types ==
    /\ list \in [Value -> Lists]
    /\ pc \in PCs
    /\ todo \subseteq Value
    /\ pkg \in Value \cup {NoValue}
    /\ lines \subseteq Path
    /\ WellFormed(trie)
    /\ copy \in Trie
    /\ stack \subseteq Path
    /\ symlinks_ \in RootLinks \cup {<<>>}
    /\ gone \in BOOLEAN
    /\ path \in Path
    /\ wl \subseteq Seq(Part)
    /\ result \subseteq Seq(Part)
    /\ owner \in Value \cup {NoValue}

\* The lines are those of the package that is read, and a package is at the lines
\* of its list only.
Reading ==
    /\ pc = "packages" => lines = {}
    /\ pc = "lines" => pkg \in Value /\ lines \subseteq list[pkg]
    /\ \A p \in Path : find(trie, p) # NoValue => p \in list[find(trie, p)]

\* The links are tried in some order.
Ordered ==
    pc = "resolve" => symlinks_ \in RootLinks /\ \E n \in Nat : order \in [1 .. n -> DOMAIN symlinks_]

\* The names that were collected are names of the file.
Named ==
    /\ AlternatesAreTheFile
    /\ pc = "answered" /\ owner # NoValue =>
        \E p \in Path : File(p) = File(path) /\ find(trie, p) = owner

IInv == Types /\ Reading /\ Ordered /\ Named

\* The initial states.
LEMMA InitIInv == Init => IInv
<1> SUFFICES ASSUME Init PROVE IInv
  OBVIOUS
<1> USE DEF Init
<1>1. WellFormed(trie) /\ copy \in Trie
  BY EmptyWellFormed DEF WellFormed
<1>2. Types
  BY <1>1, TrieAssumption DEF Types, PCs
<1>3. \A p \in Path : find(trie, p) = NoValue
  BY DEF find, EmptyTrie
<1> QED
  BY <1>2, <1>3 DEF IInv, Reading, Ordered, Named, AlternatesAreTheFile

\* A path moved from one directory to another is a path, and a candidate is a name
\* of the same file.
LEMMA CandidateFacts ==
    ASSUME NEW p \in Seq(Part), NEW from \in Seq(Part), NEW to \in Seq(Part)
    PROVE  /\ Candidates(p, from, to) \subseteq Seq(Part)
           /\ \A q \in Candidates(p, from, to) : File(q) = File(p)
<1>1. ASSUME Under(p, from) PROVE Rebased(p, from, to) \in Seq(Part)
  <2>1. Len(from) \in Nat /\ Len(p) \in Nat /\ \A i \in 1 .. Len(p) : p[i] \in Part
    BY LenProperties, ElementOfSeq
  <2> DEFINE k == Len(from) + 1
  <2>2. k \in Int /\ \A i \in k .. Len(p) : p[i] \in Part
    BY <2>1
  <2> HIDE DEF k
  <2>3. SubSeq(p, k, Len(p)) \in Seq(Part)
    BY <2>1, <2>2, SubSeqProperties
  <2> QED
    BY <2>3, ConcatProperties DEF Rebased, k
<1> QED
  BY <1>1 DEF Candidates, SameFile

LEMMA AlternateFacts ==
    ASSUME NEW p \in Seq(Part), symlinks_ \in RootLinks,
           NEW n \in Nat, order \in [1 .. n -> DOMAIN symlinks_]
    PROVE  /\ Alternate(p) \subseteq Seq(Part)
           /\ \A q \in Alternate(p) : File(q) = File(p)
<1>1. ASSUME NEW i \in 1 .. n
      PROVE  /\ Tested(p, i) \subseteq Seq(Part)
             /\ \A q \in Tested(p, i) : File(q) = File(p)
  <2>1. order[i] \in Part /\ symlinks_[order[i]] \in Path
    BY LookupAssumption
  <2>2. <<order[i]>> \in Seq(Part) /\ symlinks_[order[i]] \in Seq(Part)
    BY <2>1, TrieAssumption
  <2> QED
    BY <2>2, CandidateFacts DEF Tested
<1> DEFINE hits == {i \in DOMAIN order : Tested(p, i) # {}}
<1>2. CASE hits = {}
  BY <1>2 DEF Alternate
<1>3. CASE hits # {}
  <2>1. hits \in SUBSET (0 .. n) /\ hits \subseteq 1 .. n
    OBVIOUS
  <2> DEFINE first == CHOOSE i \in hits : \A j \in hits : i <= j
  <2>2. \E i \in hits : \A j \in hits : i <= j
    <3> HIDE DEF hits
    <3> QED
      BY <1>3, <2>1, Least
  <2>3. first \in hits
    BY <2>2
  <2>4. Alternate(p) = Tested(p, first)
    BY <1>3 DEF Alternate
  <2> QED
    BY <1>1, <2>1, <2>3, <2>4
<1> QED
  BY <1>2, <1>3

\* The package lists are read.
LEMMA ReadIInv ==
    ASSUME IInv, \/ \E k \in Value : OpenList(k)
                 \/ \E p \in lines : ReadLine(p)
                 \/ CloseList
    PROVE  IInv'
<1> USE DEF IInv, building, copying, query, resolver
<1>1. ASSUME NEW k \in Value, OpenList(k) PROVE IInv'
  <2> USE <1>1 DEF OpenList
  <2>1. list[k] \subseteq Path
    BY LookupAssumption DEF Types
  <2>2. Types'
    BY <2>1 DEF Types, PCs
  <2>3. Reading'
    BY DEF Reading
  <2>4. Ordered' /\ Named'
    BY DEF Ordered, Named, AlternatesAreTheFile, File, Rebased
  <2> QED
    BY <2>2, <2>3, <2>4
<1>2. ASSUME NEW p \in lines, ReadLine(p) PROVE IInv'
  <2> USE <1>2 DEF ReadLine
  <2>1. p \in Path /\ pkg \in Value /\ p \in list[pkg] /\ WellFormed(trie)
    BY DEF Types, Reading
  <2>2. trie' = insert(trie, p, pkg) /\ WellFormed(trie')
    BY <2>1, InsertKeepsShape
  <2>3. \A q \in Path : find(trie', q) = IF q = p THEN pkg ELSE find(trie, q)
    BY <2>1, <2>2, InsertPuts
  <2>4. Types'
    BY <2>2 DEF Types
  <2>5. Reading'
    BY <2>1, <2>3 DEF Reading
  <2>6. Ordered' /\ Named'
    BY DEF Ordered, Named, AlternatesAreTheFile, File, Rebased
  <2> QED
    BY <2>4, <2>5, <2>6
<1>3. ASSUME CloseList PROVE IInv'
  <2> USE <1>3 DEF CloseList
  <2>1. Types'
    BY DEF Types, PCs
  <2>2. Reading'
    BY DEF Reading
  <2>3. Ordered' /\ Named'
    BY DEF Ordered, Named, AlternatesAreTheFile, File, Rebased
  <2> QED
    BY <2>1, <2>2, <2>3
<1> QED
  BY <1>1, <1>2, <1>3

\* The trie is copied.
LEMMA CopyIInv ==
    ASSUME IInv, BeginCopy \/ (\E n \in stack : AdvanceCopy(n)) \/ EndCopy
    PROVE  IInv'
<1> USE DEF IInv, building, copying, query, resolver
<1>1. UNCHANGED <<list, building, query>>
  BY DEF BeginCopy, AdvanceCopy, EndCopy
<1>2. pc' \in {"copy", "copied"}
  BY DEF BeginCopy, AdvanceCopy, EndCopy
<1>3. stack' \subseteq Path
  BY TrieAssumption
  DEF BeginCopy, AdvanceCopy, EndCopy, Advanced, Children, Types, WellFormed, Trie
<1>4. copy' \in Trie
  <2>1. ASSUME NEW n \in stack, AdvanceCopy(n) PROVE copy' \in Trie
    <3>1. n \in Path /\ Prefixes(n) \subseteq Path /\ copy \in Trie
      BY TrieAssumption DEF Types
    <3>2. trie.value[n] \in Value \cup {NoValue}
      BY <3>1 DEF Types, WellFormed, Trie
    <3>3. ASSUME NEW v \in Value PROVE insert(copy, n, v) \in Trie
      BY <3>1 DEF insert, Trie
    <3> QED
      BY <2>1, <3>1, <3>2, <3>3 DEF AdvanceCopy, Yielded
  <2> QED
    BY <2>1, EmptyWellFormed DEF BeginCopy, EndCopy, Types, WellFormed
<1>5. Types'
  BY <1>1, <1>2, <1>3, <1>4 DEF Types, PCs
<1>6. Reading' /\ Ordered'
  BY <1>1, <1>2 DEF Reading, Ordered
<1>7. Named'
  BY <1>1, <1>2 DEF Named, AlternatesAreTheFile, File, Rebased
<1> QED
  BY <1>5, <1>6, <1>7

\* A path is looked up.
LEMMA ResolveIInv ==
    ASSUME IInv, (\E p \in Queries : BeginResolve(p)) \/ (\E p \in wl : Visit(p)) \/ EndResolve
    PROVE  IInv'
<1> USE DEF IInv, building, copying
<1>1. ASSUME NEW p \in Queries, BeginResolve(p) PROVE IInv'
  <2> USE <1>1 DEF BeginResolve
  <2>1. p \in Path /\ p \in Seq(Part)
    BY LookupAssumption, TrieAssumption
  <2>2. Types'
    BY <2>1 DEF Types, PCs
  <2>3. Reading'
    BY DEF Reading
  <2>4. Ordered'
    <3> DEFINE n == Cardinality(DOMAIN symlinks_')
    <3>1. IsFiniteSet(DOMAIN symlinks_')
      BY LookupAssumption
    <3>2. n \in Nat
      BY <3>1, FS_CardinalityType
    <3>3. order' \in [1 .. n -> DOMAIN symlinks_']
      BY DEF Orders
    <3> QED
      BY <3>2, <3>3 DEF Ordered
  <2>5. Named'
    BY DEF Named, AlternatesAreTheFile
  <2> QED
    BY <2>2, <2>3, <2>4, <2>5
<1>2. ASSUME NEW p \in wl, Visit(p) PROVE IInv'
  <2> USE <1>2 DEF Visit, resolver
  <2>1. p \in Seq(Part) /\ File(p) = File(path)
    BY DEF Types, Named, AlternatesAreTheFile
  <2>2. PICK n \in Nat : order \in [1 .. n -> DOMAIN symlinks_]
    BY DEF Ordered
  <2>3. Alternate(p) \subseteq Seq(Part) /\ \A q \in Alternate(p) : File(q) = File(p)
    BY <2>1, <2>2, AlternateFacts DEF Ordered
  <2>4. Types'
    BY <2>1, <2>3 DEF Types
  <2>5. Reading' /\ Ordered'
    BY DEF Reading, Ordered
  <2>6. \A q \in result' \cup wl' : File(q) = File(path)
    BY <2>1, <2>3 DEF Named, AlternatesAreTheFile
  <2>7. \A q : File(q)' = File(q)
    BY DEF File, Rebased
  <2>8. Named'
    BY <2>6, <2>7 DEF Named, AlternatesAreTheFile, File, Rebased
  <2> QED
    BY <2>4, <2>5, <2>8
<1>3. ASSUME EndResolve PROVE IInv'
  <2> USE <1>3 DEF EndResolve, query, resolver
  <2>1. Types'
    BY DEF Types, PCs
  <2>2. Reading' /\ Ordered' /\ Named'
    BY DEF Reading, Ordered, Named, AlternatesAreTheFile, File, Rebased
  <2> QED
    BY <2>1, <2>2
<1> QED
  BY <1>1, <1>2, <1>3

LEMMA LookupIInv == IInv /\ LookupByPath => IInv'
<1> SUFFICES ASSUME IInv, LookupByPath PROVE IInv'
  OBVIOUS
<1> USE DEF IInv, LookupByPath, building, copying, resolver
<1>1. owner' = NoValue \/ \E p \in result : owner' = find(trie, p) /\ owner' # NoValue
  OBVIOUS
<1>2. ASSUME NEW p, find(trie, p) # NoValue
      PROVE  p \in Path /\ find(trie, p) \in Value
  BY <1>2 DEF find, Types, WellFormed, Trie
<1>3. Types'
  BY <1>1, <1>2 DEF Types, PCs
<1>4. Reading' /\ Ordered'
  BY DEF Reading, Ordered
<1>5. owner' # NoValue => \E p \in Path : File(p) = File(path) /\ find(trie, p) = owner'
  BY <1>1, <1>2 DEF Named, AlternatesAreTheFile
<1>6. Named'
  BY <1>5 DEF Named, AlternatesAreTheFile, File, Rebased
<1> QED
  BY <1>3, <1>4, <1>6

LEMMA NextIInv == IInv /\ [Next]_vars => IInv'
<1> SUFFICES ASSUME IInv, [Next]_vars PROVE IInv'
  OBVIOUS
<1>1. CASE UNCHANGED vars
  BY <1>1 DEF vars, building, copying, query, resolver, IInv, Types, Reading, Ordered, Named,
              AlternatesAreTheFile, File, Rebased
<1> QED
  BY <1>1, ReadIInv, CopyIInv, ResolveIInv, LookupIInv DEF Next

THEOREM Invariance == Spec => []IInv
<1> QED
  BY InitIInv, NextIInv, PTL DEF Spec

-------------------------------------------------------------------------------
\* The tries, the iterator and the resolver keep their types.
THEOREM PathLookupTypeCorrect == Spec => []TypeOK
<1>1. IInv => TypeOK
  BY DEF IInv, Types, TypeOK, WellFormed
<1> QED
  BY <1>1, Invariance, PTL

\* find_last_matching gives the longest inserted prefix, but where another inserted
\* path goes on longer (filesystem_trie.h:202).
THEOREM LastMatchingHolds == Spec => []LastMatching
<1>1. IInv => LastMatching
  BY LastMatch DEF IInv, Types, LastMatching
<1> QED
  BY <1>1, Invariance, PTL

\* Every name resolve_symlinks collects is one of the file looked up (util_fs.h:36).
THEOREM NamesOfTheFile == Spec => []AlternatesAreTheFile
<1>1. IInv => AlternatesAreTheFile
  BY DEF IInv, Named
<1> QED
  BY <1>1, Invariance, PTL

\* The package found lists the file under one of its names: a file never gets the
\* package of another one, also when links of the root lead into each other.
OwnerProvides ==
    pc = "answered" /\ owner # NoValue =>
        \E p \in Path : File(p) = File(path) /\ p \in list[owner]

THEOREM OwnersProvide == Spec => []OwnerProvides
<1>1. IInv => OwnerProvides
  BY DEF IInv, Named, Reading, OwnerProvides
<1> QED
  BY <1>1, Invariance, PTL

-------------------------------------------------------------------------------
\* What lies under a directory, by the components.
LEMMA UnderFacts ==
    ASSUME NEW p \in Seq(Part), NEW b \in Seq(Part)
    PROVE  Under(p, b) <=> Len(b) <= Len(p) /\ \A i \in 1 .. Len(b) : p[i] = b[i]
<1>1. Len(p) \in Nat /\ Len(b) \in Nat
  BY LenProperties
<1>2. ASSUME Under(p, b) PROVE Len(b) <= Len(p) /\ \A i \in 1 .. Len(b) : p[i] = b[i]
  <2>1. Len(b) \in 0 .. Len(p) /\ b = SubSeq(p, 1, Len(b))
    BY <1>2, PrefixFacts DEF Under
  <2> QED
    BY <1>1, <2>1, FirstParts
<1>3. ASSUME Len(b) <= Len(p), \A i \in 1 .. Len(b) : p[i] = b[i] PROVE Under(p, b)
  <2> DEFINE n == Len(b)
             t == SubSeq(p, 1, n)
  <2>1. n \in 0 .. Len(p)
    BY <1>1, <1>3
  <2>2. t \in Seq(Part) /\ Len(t) = n /\ \A i \in 1 .. n : t[i] = p[i]
    BY <2>1, FirstParts
  <2>3. t \in Prefixes(p)
    BY <2>1 DEF Prefixes
  <2> HIDE DEF t
  <2>4. t = b
    BY <1>3, <2>2, SeqEqual
  <2> QED
    BY <2>3, <2>4 DEF Under
<1> QED
  BY <1>2, <1>3

\* A path with its first components exchanged, by the components.
LEMMA RebasedFacts ==
    ASSUME NEW p \in Seq(Part), NEW from \in Seq(Part), NEW to \in Seq(Part),
           Len(from) <= Len(p)
    PROVE  /\ Rebased(p, from, to) \in Seq(Part)
           /\ Len(p) \in Nat /\ Len(from) \in Nat /\ Len(to) \in Nat
           /\ Len(Rebased(p, from, to)) = Len(to) + (Len(p) - Len(from))
           /\ \A i \in 1 .. Len(to) : Rebased(p, from, to)[i] = to[i]
           /\ \A i \in 1 .. Len(p) - Len(from) :
                 Rebased(p, from, to)[Len(to) + i] = p[Len(from) + i]
<1>1. /\ Len(from) \in Nat /\ Len(p) \in Nat /\ Len(to) \in Nat
      /\ \A i \in 1 .. Len(p) : p[i] \in Part
  BY LenProperties, ElementOfSeq
<1> DEFINE k == Len(from) + 1
           n == Len(p)
           t == SubSeq(p, k, n)
<1>2. k \in Int /\ n \in Int /\ \A i \in k .. n : p[i] \in Part
  BY <1>1
<1>3. /\ t \in Seq(Part)
      /\ Len(t) = IF k <= n THEN n - k + 1 ELSE 0
      /\ \A i \in 1 .. n - k + 1 : t[i] = p[k + i - 1]
  <2> HIDE DEF k, n
  <2> QED
    BY <1>2, SubSeqProperties
<1>4. /\ Len(t) = Len(p) - Len(from)
      /\ \A i \in 1 .. Len(p) - Len(from) : t[i] = p[Len(from) + i]
  BY <1>1, <1>3
<1> HIDE DEF t
<1>5. /\ to \o t \in Seq(Part)
      /\ Len(to \o t) = Len(to) + Len(t)
      /\ \A i \in 1 .. Len(to) + Len(t) :
            (to \o t)[i] = IF i <= Len(to) THEN to[i] ELSE t[i - Len(to)]
  BY <1>3, ConcatProperties
<1>6. Rebased(p, from, to) = to \o t
  BY DEF Rebased, t
<1>7. ASSUME NEW i \in 1 .. Len(to) PROVE (to \o t)[i] = to[i]
  BY <1>1, <1>4, <1>5
<1>8. ASSUME NEW i \in 1 .. Len(p) - Len(from) PROVE (to \o t)[Len(to) + i] = p[Len(from) + i]
  <2>1. /\ Len(to) + i \in 1 .. Len(to) + Len(t) /\ ~(Len(to) + i <= Len(to))
        /\ (Len(to) + i) - Len(to) = i
    BY <1>1, <1>4
  <2> QED
    BY <1>4, <1>5, <2>1
<1> QED
  BY <1>1, <1>4, <1>5, <1>6, <1>7, <1>8

\* Moving a path to another directory and back again.
LEMMA ThereAndBack ==
    ASSUME NEW p \in Seq(Part), NEW from \in Seq(Part), NEW to \in Seq(Part), Under(p, from)
    PROVE  /\ Rebased(p, from, to) \in Seq(Part)
           /\ Under(Rebased(p, from, to), to)
           /\ Rebased(Rebased(p, from, to), to, from) = p
<1> DEFINE r == Rebased(p, from, to)
           s == Rebased(r, to, from)
<1>1. Len(from) <= Len(p) /\ \A i \in 1 .. Len(from) : p[i] = from[i]
  BY UnderFacts
<1>2. /\ r \in Seq(Part)
      /\ Len(p) \in Nat /\ Len(from) \in Nat /\ Len(to) \in Nat
      /\ Len(r) = Len(to) + (Len(p) - Len(from))
      /\ \A i \in 1 .. Len(to) : r[i] = to[i]
      /\ \A i \in 1 .. Len(p) - Len(from) : r[Len(to) + i] = p[Len(from) + i]
  BY <1>1, RebasedFacts
<1> HIDE DEF r
<1>3. Len(to) <= Len(r) /\ Len(r) - Len(to) = Len(p) - Len(from)
  BY <1>1, <1>2
<1>4. ASSUME NEW q \in Seq(Part), Len(to) <= Len(q)
      PROVE  /\ Rebased(q, to, from) \in Seq(Part)
             /\ Len(Rebased(q, to, from)) = Len(from) + (Len(q) - Len(to))
             /\ \A i \in 1 .. Len(from) : Rebased(q, to, from)[i] = from[i]
             /\ \A i \in 1 .. Len(q) - Len(to) :
                   Rebased(q, to, from)[Len(from) + i] = q[Len(to) + i]
  BY <1>4, RebasedFacts
<1>5. /\ s \in Seq(Part)
      /\ Len(s) = Len(from) + (Len(p) - Len(from))
      /\ \A i \in 1 .. Len(from) : s[i] = from[i]
      /\ \A i \in 1 .. Len(p) - Len(from) : s[Len(from) + i] = r[Len(to) + i]
  <2>1. s \in Seq(Part) /\ Len(s) = Len(from) + (Len(r) - Len(to))
    BY <1>2, <1>3, <1>4
  <2>2. /\ \A i \in 1 .. Len(from) : s[i] = from[i]
        /\ \A i \in 1 .. Len(r) - Len(to) : s[Len(from) + i] = r[Len(to) + i]
    BY <1>2, <1>3, <1>4
  <2> HIDE DEF s
  <2> QED
    BY <1>3, <2>1, <2>2
<1> HIDE DEF s
<1>6. Len(s) = Len(p)
  BY <1>2, <1>5
<1>7. ASSUME NEW i \in 1 .. Len(s) PROVE s[i] = p[i]
  <2>1. CASE i \in 1 .. Len(from)
    BY <1>1, <1>5, <2>1
  <2>2. CASE i \notin 1 .. Len(from)
    <3> DEFINE j == i - Len(from)
    <3>1. j \in 1 .. Len(p) - Len(from) /\ Len(from) + j = i
      BY <1>2, <1>6, <2>2
    <3> HIDE DEF j
    <3>2. s[Len(from) + j] = p[Len(from) + j]
      BY <1>2, <1>5, <3>1
    <3> QED
      BY <3>1, <3>2
  <2> QED
    BY <2>1, <2>2
<1>8. s = p
  BY <1>2, <1>5, <1>6, <1>7, SeqEqual
<1> QED
  BY <1>2, <1>3, <1>8, UnderFacts DEF r, s

\* The first component of a path under a link.
LEMMA UnderLink ==
    ASSUME NEW p \in Seq(Part), NEW m \in Part
    PROVE  /\ <<m>> \in Seq(Part)
           /\ Under(p, <<m>>) <=> Len(p) > 0 /\ p[1] = m
<1>1. <<m>> \in Seq(Part) /\ Len(<<m>>) = 1 /\ <<m>>[1] = m
  OBVIOUS
<1>2. Len(p) \in Nat
  BY LenProperties
<1> DEFINE l == <<m>>
<1>3. l \in Seq(Part) /\ Len(l) = 1 /\ l[1] = m
  BY <1>1
<1> HIDE DEF l
<1>4. Under(p, l) <=> Len(l) <= Len(p) /\ \A i \in 1 .. Len(l) : p[i] = l[i]
  BY <1>3, UnderFacts
<1>5. Under(p, l) <=> Len(p) > 0 /\ p[1] = m
  BY <1>2, <1>3, <1>4
<1> QED
  BY <1>3, <1>5 DEF l

\* The path begins with a link of the root.
ThroughLink(p) == \E m \in DOMAIN symlinks_ : Under(p, <<m>>)

\* The file of a path: the link is followed, or it is no link.
LEMMA FileFacts ==
    ASSUME NEW p \in Seq(Part), symlinks_ \in RootLinks
    PROVE  /\ ~ThroughLink(p) => File(p) = p
           /\ \A m \in DOMAIN symlinks_ :
                 /\ m \in Part /\ <<m>> \in Seq(Part) /\ symlinks_[m] \in Seq(Part)
                 /\ Under(p, <<m>>) => p[1] = m /\ File(p) = Rebased(p, <<m>>, symlinks_[m])
<1>1. \A m \in DOMAIN symlinks_ : m \in Part /\ symlinks_[m] \in Seq(Part)
  BY LookupAssumption, TrieAssumption
<1>2. \A m \in DOMAIN symlinks_ :
         <<m>> \in Seq(Part) /\ (Under(p, <<m>>) <=> Len(p) > 0 /\ p[1] = m)
  BY <1>1, UnderLink
<1> QED
  BY <1>1, <1>2 DEF File, ThroughLink

\* Behind a link its file is in the target, and the way back is unique.
LEMMA LinkedFile ==
    ASSUME symlinks_ \in RootLinks, NEW p \in Seq(Part), NEW m \in DOMAIN symlinks_,
           Under(p, <<m>>)
    PROVE  /\ p[1] = m
           /\ File(p) = Rebased(p, <<m>>, symlinks_[m])
           /\ File(p) \in Seq(Part)
           /\ Under(File(p), symlinks_[m])
           /\ Rebased(File(p), symlinks_[m], <<m>>) = p
<1> DEFINE l == <<m>>
           t == symlinks_[m]
<1>1. /\ l \in Seq(Part) /\ t \in Seq(Part) /\ Under(p, l)
      /\ p[1] = m /\ File(p) = Rebased(p, l, t)
  BY FileFacts
<1> HIDE DEF l, t
<1>2. /\ Rebased(p, l, t) \in Seq(Part)
      /\ Under(Rebased(p, l, t), t)
      /\ Rebased(Rebased(p, l, t), t, l) = p
  BY <1>1, ThereAndBack
<1> QED
  BY <1>1, <1>2 DEF l, t

\* A path in the target of a link is also found through the link.
LEMMA NameThroughLink ==
    ASSUME symlinks_ \in RootLinks, NEW p \in Seq(Part), NEW m \in DOMAIN symlinks_,
           Under(p, symlinks_[m])
    PROVE  /\ Rebased(p, symlinks_[m], <<m>>) \in Seq(Part)
           /\ File(Rebased(p, symlinks_[m], <<m>>)) = p
<1>1. <<m>> \in Seq(Part) /\ symlinks_[m] \in Seq(Part)
  BY FileFacts
<1>2. /\ Rebased(p, symlinks_[m], <<m>>) \in Seq(Part)
      /\ Under(Rebased(p, symlinks_[m], <<m>>), <<m>>)
      /\ Rebased(Rebased(p, symlinks_[m], <<m>>), <<m>>, symlinks_[m]) = p
  BY <1>1, ThereAndBack
<1> QED
  BY <1>2, FileFacts

\* The order of the links leaves none out.
LEMMA OrderFacts ==
    ASSUME symlinks_ \in RootLinks, order \in Orders(DOMAIN symlinks_)
    PROVE  \E n \in Nat :
              /\ order \in [1 .. n -> DOMAIN symlinks_]
              /\ \A i, j \in 1 .. n : order[i] = order[j] => i = j
              /\ \A m \in DOMAIN symlinks_ : \E i \in 1 .. n : order[i] = m
<1> DEFINE D == DOMAIN symlinks_
           n == Cardinality(D)
<1>1. IsFiniteSet(D)
  BY LookupAssumption
<1>2. n \in Nat
  BY <1>1, FS_CardinalityType
<1>3. order \in [1 .. n -> D] /\ \A i, j \in 1 .. n : order[i] = order[j] => i = j
  BY DEF Orders
<1> HIDE DEF n, D
<1>4. order \in Injection(1 .. n, D)
  BY <1>3 DEF Injection, IsInjective
<1>5. IsFiniteSet(1 .. n) /\ Cardinality(1 .. n) = n
  BY <1>2, FS_Interval
<1>6. order \in Surjection(1 .. n, D)
  BY <1>1, <1>4, <1>5, FS_Injection DEF n
<1>7. \A m \in D : \E i \in 1 .. n : order[i] = m
  BY <1>6 DEF Surjection
<1> QED
  BY <1>2, <1>3, <1>7 DEF D

\* When one link only gives a candidate, the loop ends at it.
LEMMA OnlyHit ==
    ASSUME NEW p \in Seq(Part), NEW q \in Seq(Part), NEW i \in Nat, i \in DOMAIN order,
           Tested(p, i) = {q}, \A j \in DOMAIN order : j # i => Tested(p, j) = {}
    PROVE  q \in Alternate(p)
<1> DEFINE hits == {j \in DOMAIN order : Tested(p, j) # {}}
<1>1. hits = {i}
  OBVIOUS
<1>2. (CHOOSE k \in {i} : \A j \in {i} : k <= j) = i
  OBVIOUS
<1>3. Alternate(p) = Tested(p, CHOOSE k \in hits : \A j \in hits : k <= j)
  BY <1>1 DEF Alternate
<1> QED
  BY <1>1, <1>2, <1>3

\* Of two directories that a path is in, one is in the other.
LEMMA Comparable ==
    ASSUME NEW p \in Seq(Part), NEW a \in Seq(Part), NEW b \in Seq(Part),
           Under(p, a), Under(p, b)
    PROVE  Under(a, b) \/ Under(b, a)
<1>1. Len(a) \in Nat /\ Len(b) \in Nat
  BY LenProperties
<1>2. /\ \A i \in 1 .. Len(a) : p[i] = a[i]
      /\ \A i \in 1 .. Len(b) : p[i] = b[i]
  BY UnderFacts
<1>3. CASE Len(a) <= Len(b)
  <2>1. \A i \in 1 .. Len(a) : b[i] = a[i]
    BY <1>1, <1>2, <1>3
  <2> QED
    BY <1>3, <2>1, UnderFacts
<1>4. CASE Len(b) <= Len(a)
  <2>1. \A i \in 1 .. Len(b) : a[i] = b[i]
    BY <1>1, <1>2, <1>4
  <2> QED
    BY <1>4, <2>1, UnderFacts
<1> QED
  BY <1>1, <1>3, <1>4

\* When the links lead apart the loop finds every other name of a file that is there.
LEMMA OtherName ==
    ASSUME symlinks_ \in RootLinks, order \in Orders(DOMAIN symlinks_), ~gone, LinksApart,
           NEW p \in Seq(Part), NEW q \in Seq(Part), File(q) = File(p), q # p
    PROVE  q \in Alternate(p)
<1>1. PICK n \in Nat :
         /\ order \in [1 .. n -> DOMAIN symlinks_]
         /\ \A i, j \in 1 .. n : order[i] = order[j] => i = j
         /\ \A m \in DOMAIN symlinks_ : \E i \in 1 .. n : order[i] = m
  BY OrderFacts
<1>2. \A m \in DOMAIN symlinks_ :
         m \in Part /\ <<m>> \in Seq(Part) /\ symlinks_[m] \in Seq(Part)
  BY FileFacts
<1>3. \A m \in DOMAIN symlinks_ : \A k \in DOMAIN symlinks_ : \A x \in Seq(Part) :
         Under(x, symlinks_[m]) /\ Under(x, symlinks_[k]) => m = k
  BY <1>2, Comparable DEF LinksApart
<1>4. CASE ~ThroughLink(p)
  <2>1. File(p) = p /\ ThroughLink(q)
    BY <1>4, FileFacts
  <2>2. PICK m \in DOMAIN symlinks_ : Under(q, <<m>>)
    BY <2>1 DEF ThroughLink
  <2>3. p = Rebased(q, <<m>>, symlinks_[m])
    BY <2>1, <2>2, FileFacts
  <2>4. Under(p, symlinks_[m]) /\ Rebased(p, symlinks_[m], <<m>>) = q
    BY <1>2, <2>2, <2>3, ThereAndBack
  <2>5. PICK i \in 1 .. n : order[i] = m
    BY <1>1
  <2>6. Tested(p, i) = {q}
    <3>1. Candidates(p, symlinks_[m], <<m>>) = {q}
      BY <2>4 DEF Candidates, SameFile
    <3> QED
      BY <2>5, <3>1 DEF Tested
  <2>7. ASSUME NEW j \in 1 .. n, j # i PROVE Tested(p, j) = {}
    <3> DEFINE k == order[j]
    <3>1. k \in DOMAIN symlinks_ /\ k # m
      BY <1>1, <2>5, <2>7
    <3>2. ~Under(p, symlinks_[k]) /\ ~Under(p, <<k>>)
      BY <1>3, <1>4, <2>4, <3>1 DEF ThroughLink
    <3>3. /\ Candidates(p, symlinks_[k], <<k>>) = {}
          /\ Candidates(p, <<k>>, symlinks_[k]) = {}
      BY <3>2 DEF Candidates
    <3> QED
      BY <3>3 DEF Tested
  <2>8. DOMAIN order = 1 .. n /\ i \in Nat
    BY <1>1
  <2>9. \A j \in DOMAIN order : j # i => Tested(p, j) = {}
    BY <2>7, <2>8
  <2> QED
    BY <2>6, <2>8, <2>9, OnlyHit
<1>5. CASE ThroughLink(p)
  <2>1. PICK m \in DOMAIN symlinks_ : Under(p, <<m>>)
    BY <1>5 DEF ThroughLink
  <2>2. p[1] = m /\ File(p) = Rebased(p, <<m>>, symlinks_[m])
    BY <2>1, LinkedFile
  <2>3. /\ File(p) \in Seq(Part) /\ Under(File(p), symlinks_[m])
        /\ Rebased(File(p), symlinks_[m], <<m>>) = p
    BY <2>1, LinkedFile
  <2>4. ~ThroughLink(q)
    <3> SUFFICES ASSUME NEW k \in DOMAIN symlinks_, Under(q, <<k>>) PROVE FALSE
      BY DEF ThroughLink
    <3>1. Under(File(q), symlinks_[k]) /\ Rebased(File(q), symlinks_[k], <<k>>) = q
      BY LinkedFile
    <3>2. k = m
      BY <1>3, <2>3, <3>1
    <3> QED
      BY <2>3, <3>1, <3>2
  <2>5. File(q) = q /\ File(p) = q
    BY <2>4, FileFacts
  <2>6. \A k \in DOMAIN symlinks_ : Candidates(p, symlinks_[k], <<k>>) = {}
    <3> TAKE k \in DOMAIN symlinks_
    <3>1. Under(p, symlinks_[k]) => File(Rebased(p, symlinks_[k], <<k>>)) = p
      BY NameThroughLink
    <3> QED
      BY <2>5, <3>1 DEF Candidates, SameFile
  <2>7. Candidates(p, <<m>>, symlinks_[m]) = {q}
    BY <2>1, <2>2, <2>5 DEF Candidates, SameFile
  <2>8. PICK i \in 1 .. n : order[i] = m
    BY <1>1
  <2>9. Tested(p, i) = {q}
    BY <2>6, <2>7, <2>8 DEF Tested
  <2>10. ASSUME NEW j \in 1 .. n, j # i PROVE Tested(p, j) = {}
    <3> DEFINE k == order[j]
    <3>1. k \in DOMAIN symlinks_ /\ k # m
      BY <1>1, <2>8, <2>10
    <3>2. ~Under(p, <<k>>)
      BY <2>2, <3>1, FileFacts
    <3>3. Candidates(p, <<k>>, symlinks_[k]) = {}
      BY <3>2 DEF Candidates
    <3> QED
      BY <2>6, <3>1, <3>3 DEF Tested
  <2>11. DOMAIN order = 1 .. n /\ i \in Nat
    BY <1>1
  <2>12. \A j \in DOMAIN order : j # i => Tested(p, j) = {}
    BY <2>10, <2>11
  <2> QED
    BY <2>9, <2>11, <2>12, OnlyHit
<1> QED
  BY <1>4, <1>5

-------------------------------------------------------------------------------
\* While a path is resolved and after, the links are in an order that leaves none
\* out, and what the loop over the links gave for the path itself is among the names
\* or has still to be visited.  No package was found when no name has one.
Looking == pc \in {"resolve", "resolved", "answered"}

Collected ==
    Looking =>
        /\ symlinks_ \in RootLinks /\ order \in Orders(DOMAIN symlinks_)
        /\ path \in result \cup wl
        /\ path \in result => Alternate(path) \subseteq result \cup wl
        /\ pc # "resolve" => wl = {}
        /\ pc = "answered" /\ owner = NoValue => \A p \in result : find(trie, p) = NoValue

\* Every step keeps what the lookup has collected.
LEMMA CollectedStep == IInv /\ Collected /\ [Next]_vars => Collected'
<1> SUFFICES ASSUME IInv, Collected, [Next]_vars PROVE Collected'
  OBVIOUS
<1>1. ASSUME UNCHANGED resolver PROVE \A p : Alternate(p)' = Alternate(p)
  BY <1>1 DEF resolver, Alternate, Tested, Candidates, SameFile, File, Rebased
<1>2. ASSUME \/ \E k \in Value : OpenList(k)
             \/ \E p \in lines : ReadLine(p)
             \/ CloseList \/ BeginCopy
             \/ \E n \in stack : AdvanceCopy(n)
             \/ EndCopy
      PROVE  Collected'
  BY <1>2 DEF OpenList, ReadLine, CloseList, BeginCopy, AdvanceCopy, EndCopy, Collected,
              Looking
<1>3. ASSUME NEW p \in Queries, BeginResolve(p) PROVE Collected'
  BY <1>3 DEF BeginResolve, Collected, Looking
<1>4. ASSUME NEW p \in wl, Visit(p) PROVE Collected'
  <2>1. /\ UNCHANGED resolver /\ pc = "resolve" /\ pc' = "resolve"
        /\ result' = result \cup {p}
        /\ wl' = (wl \ {p}) \cup (IF p \in result THEN {} ELSE Alternate(p))
    BY <1>4 DEF Visit
  <2>2. result' \cup wl' = result \cup wl \cup (IF p \in result THEN {} ELSE Alternate(p))
    BY <2>1
  <2>3. path' = path /\ symlinks_' = symlinks_ /\ order' = order
    BY <2>1 DEF resolver
  <2>4. path \in result' => Alternate(path)' \subseteq result' \cup wl'
    <3>1. Alternate(path)' = Alternate(path)
      BY <1>1, <2>1, <2>3
    <3>2. CASE path \in result
      BY <2>1, <2>2, <3>1, <3>2 DEF Collected, Looking
    <3>3. CASE path \notin result /\ path = p
      BY <2>2, <3>1, <3>3
    <3> QED
      BY <2>1, <3>2, <3>3
  <2> QED
    BY <2>1, <2>2, <2>3, <2>4 DEF Collected, Looking
<1>5. ASSUME EndResolve \/ LookupByPath PROVE Collected'
  <2>1. UNCHANGED <<resolver, wl, result>> /\ Looking /\ wl = {} /\ pc' # "resolve"
    BY <1>5 DEF EndResolve, LookupByPath, query, Looking, Collected
  <2>2. path' = path /\ symlinks_' = symlinks_ /\ order' = order
    BY <2>1 DEF resolver
  <2>3. Alternate(path)' = Alternate(path)
    BY <1>1, <2>1, <2>2
  <2>4. pc' = "answered" /\ owner' = NoValue => \A p \in result : find(trie', p) = NoValue
    BY <1>5 DEF EndResolve, LookupByPath, building
  <2> QED
    BY <2>1, <2>2, <2>3, <2>4 DEF Collected, Looking
<1>6. CASE UNCHANGED vars
  BY <1>1, <1>6 DEF vars, query, building, resolver, Collected, Looking
<1> QED
  BY <1>2, <1>3, <1>4, <1>5, <1>6 DEF Next

LEMMA CollectedInit == Init => Collected
  BY DEF Init, Collected, Looking

\* A lookup finds a package that lists the file under one of its names when there is
\* one, and none otherwise: for any links of "/" that lead to directories apart, and
\* in whatever order the loop tries them (util_fs.h:27-77).
THEOREM OwnerIsFound == Spec => []OwnerFound
<1>1. IInv /\ Collected => OwnerFound
  <2> SUFFICES ASSUME IInv, Collected, pc = "answered", ~gone, LinksApart
               PROVE  OwnerFound
    BY DEF OwnerFound
  <2> DEFINE names == {p \in Path : File(p) = File(path)}
             known == {find(trie, p) : p \in names} \ {NoValue}
  <2>1. CASE owner # NoValue
    <3>1. PICK p \in Path : File(p) = File(path) /\ find(trie, p) = owner
      BY <2>1 DEF IInv, Named
    <3>2. p \in list[owner]
      BY <2>1, <3>1 DEF IInv, Reading
    <3>3. p \in names /\ owner \in known
      BY <2>1, <3>1
    <3> QED
      BY <3>2, <3>3 DEF OwnerFound
  <2>2. CASE owner = NoValue
    <3>1. /\ symlinks_ \in RootLinks /\ order \in Orders(DOMAIN symlinks_)
          /\ path \in result /\ Alternate(path) \subseteq result
          /\ \A p \in result : find(trie, p) = NoValue
      BY <2>2 DEF Collected, Looking
    <3>2. \A q \in names : q \in result
      <4> TAKE q \in names
      <4>1. q \in Seq(Part) /\ path \in Seq(Part) /\ File(q) = File(path)
        BY TrieAssumption DEF IInv, Types
      <4>2. q # path => q \in Alternate(path)
        BY <3>1, <4>1, OtherName
      <4> QED
        BY <3>1, <4>2
    <3>3. known = {}
      BY <3>1, <3>2
    <3> QED
      BY <2>2, <3>3 DEF OwnerFound
  <2> QED
    BY <2>1, <2>2
<1> QED
  BY <1>1, CollectedInit, CollectedStep, Invariance, PTL DEF Spec

\* The lookup gives a file its own package and no other one.
THEOREM LookupsAgree == Spec => []LookupAgrees
<1>1. AlternatesAreTheFile /\ OwnerFound => LookupAgrees
  BY DEF LookupAgrees
<1> QED
  BY <1>1, NamesOfTheFile, OwnerIsFound, PTL

-------------------------------------------------------------------------------
\* The root has no value, and no path was counted twice.
Counted == trie.value[<<>>] = NoValue /\ trie.size_ <= Cardinality(Valued(trie))

\* What the iterator has still to come to: the nodes below those on its stack.
Pending == {q \in trie.nodes : \E n \in stack : n \in Prefixes(q)}

\* The nodes on the stack are not below each other, and the copy holds what the
\* iterator has passed, counted once.
CopyAgrees ==
    pc \in {"copy", "copied"} =>
        /\ stack \subseteq trie.nodes
        /\ \A m, n \in stack : m \in Prefixes(n) => m = n
        /\ \A q \in Path : copy.value[q] = IF q \in Pending THEN NoValue ELSE trie.value[q]
        /\ WellFormed(copy)
        /\ copy.size_ = Cardinality(Valued(copy))
        /\ pc = "copied" => stack = {}

CopyInv == IInv /\ Counted /\ CopyAgrees

\* The paths with a value are finite in number, and insert adds its path to them.
LEMMA InsertCounts ==
    ASSUME NEW t, WellFormed(t), NEW p \in Path, NEW v \in Value
    PROVE  /\ Valued(insert(t, p, v)) = Valued(t) \cup {p}
           /\ IsFiniteSet(Valued(t))
           /\ Cardinality(Valued(t)) \in Nat
           /\ Cardinality(Valued(insert(t, p, v))) =
                 IF p \in Valued(t) THEN Cardinality(Valued(t)) ELSE Cardinality(Valued(t)) + 1
<1>1. \A q \in Path : find(insert(t, p, v), q) = IF q = p THEN v ELSE find(t, q)
  BY InsertPuts
<1>2. Valued(insert(t, p, v)) = Valued(t) \cup {p}
  BY <1>1, TrieAssumption DEF Valued
<1>3. IsFiniteSet(Valued(t))
  <2>1. Valued(t) \subseteq Path
    BY DEF Valued
  <2> QED
    BY <2>1, TrieAssumption, FS_Subset
<1>4. Cardinality(Valued(t)) \in Nat
  BY <1>3, FS_CardinalityType
<1> QED
  BY <1>2, <1>3, <1>4, FS_AddElement

\* In a trie of its shape the paths with a value are those with one at their node.
LEMMA ValuedFacts ==
    ASSUME NEW t, WellFormed(t)
    PROVE  /\ Valued(t) = {p \in Path : t.value[p] # NoValue}
           /\ Valued(t) \subseteq t.nodes
           /\ \A p \in Path : find(t, p) = t.value[p]
  BY DEF WellFormed, Valued, find

\* The list of a package keeps the root without a value and the size in bounds.
LEMMA CountedStep == IInv /\ Counted /\ [Next]_vars => Counted'
<1> SUFFICES ASSUME IInv, Counted, [Next]_vars PROVE Counted'
  OBVIOUS
<1>1. ASSUME NEW p \in lines, ReadLine(p) PROVE Counted'
  <2>1. /\ p \in Path /\ pkg \in Value /\ WellFormed(trie) /\ p # <<>>
        /\ trie' = insert(trie, p, pkg)
    BY <1>1, LookupAssumption DEF ReadLine, IInv, Types, Reading
  <2>2. /\ Cardinality(Valued(trie)) \in Nat
        /\ Cardinality(Valued(trie')) =
              IF p \in Valued(trie) THEN Cardinality(Valued(trie))
                                    ELSE Cardinality(Valued(trie)) + 1
    BY <2>1, InsertCounts
  <2>3. trie.size_ \in Nat /\ trie'.value[<<>>] = trie.value[<<>>]
    BY <2>1, TrieAssumption DEF WellFormed, Trie, insert
  <2>4. p \in Valued(trie) => Prefixes(p) \subseteq trie.nodes
    BY <2>1, ValuedFacts DEF WellFormed
  <2>5. /\ trie'.size_ = trie.size_ \/ trie'.size_ = trie.size_ + 1
        /\ p \in Valued(trie) => trie'.size_ = trie.size_
    BY <2>1, <2>4 DEF insert
  <2> QED
    BY <2>2, <2>3, <2>5 DEF Counted
<1>2. ASSUME UNCHANGED trie PROVE Counted'
  BY <1>2 DEF Counted
<1>3. ASSUME \/ \E k \in Value : OpenList(k)
             \/ CloseList \/ BeginCopy \/ (\E n \in stack : AdvanceCopy(n)) \/ EndCopy
             \/ (\E p \in Queries : BeginResolve(p)) \/ (\E p \in wl : Visit(p))
             \/ EndResolve \/ LookupByPath \/ UNCHANGED vars
      PROVE  UNCHANGED trie
  BY <1>3 DEF OpenList, CloseList, BeginCopy, AdvanceCopy, EndCopy, BeginResolve, Visit,
              EndResolve, LookupByPath, vars, building
<1> QED
  BY <1>1, <1>2, <1>3 DEF Next

\* A node that leaves the stack is passed, and nothing else is: its children stand
\* for the rest of what was below it, and are not below another node of the stack.
LEMMA AdvancePasses ==
    ASSUME WellFormed(trie), stack \subseteq trie.nodes,
           \A m, n \in stack : m \in Prefixes(n) => m = n,
           NEW n \in stack, stack' = Advanced(trie, stack, n), trie' = trie
    PROVE  /\ stack' \subseteq trie.nodes
           /\ \A a, b \in stack' : a \in Prefixes(b) => a = b
           /\ Pending' = Pending \ {n}
           /\ n \in Pending
<1>1. /\ trie.nodes \subseteq Seq(Part)
      /\ \A q \in trie.nodes : Prefixes(q) \subseteq trie.nodes
  BY TrieAssumption DEF WellFormed, Trie
<1> DEFINE C == Children(trie, n)
<1>2. /\ stack' = (stack \ {n}) \cup C
      /\ C \subseteq trie.nodes
      /\ \A c \in C : Len(c) = Len(n) + 1 /\ n \in Prefixes(c)
  BY DEF Advanced, Children
<1>3. \A q \in trie.nodes : /\ Len(q) \in Nat /\ q \in Prefixes(q)
                            /\ \A r \in Prefixes(q) : Len(r) \in Nat /\ Len(r) <= Len(q)
  BY <1>1, PrefixFacts
<1>4. \A q \in trie.nodes : \A r \in Prefixes(q) : Len(r) = Len(q) => r = q
  BY <1>1, PrefixFacts
<1>5. \A q \in trie.nodes : \A r \in Prefixes(q) : \A s \in Prefixes(r) : s \in Prefixes(q)
  BY <1>1, PrefixTransitive
<1>6. \A q \in trie.nodes : \A r, s \in Prefixes(q) : Len(r) <= Len(s) => r \in Prefixes(s)
  <2> SUFFICES ASSUME NEW q \in trie.nodes, NEW r \in Prefixes(q), NEW s \in Prefixes(q),
                      Len(r) <= Len(s)
               PROVE  r \in Prefixes(s)
    OBVIOUS
  <2>1. q \in Seq(Part) /\ r \in trie.nodes /\ s \in trie.nodes
    BY <1>1
  <2>2. r \in Prefixes(s) \/ s \in Prefixes(r)
    BY <1>1, <2>1, Comparable DEF Under
  <2>3. CASE s \in Prefixes(r)
    <3>1. Len(s) = Len(r)
      BY <1>3, <2>1, <2>3
    <3>2. s = r
      BY <1>4, <2>1, <2>3, <3>1
    <3> QED
      BY <1>3, <2>1, <3>2
  <2> QED
    BY <2>2, <2>3
<1>7. n \in trie.nodes /\ Len(n) \in Nat
  BY <1>3
<1> HIDE DEF C
<1>8. stack' \subseteq trie.nodes
  BY <1>2
<1>9. ASSUME NEW a \in stack', NEW b \in stack', a \in Prefixes(b) PROVE a = b
  <2>1. CASE a \in stack \ {n} /\ b \in stack \ {n}
    BY <1>9, <2>1
  <2>2. CASE a \in stack \ {n} /\ b \in C
    <3>1. Len(a) <= Len(n) \/ Len(a) = Len(b)
      BY <1>2, <1>3, <1>7, <1>9, <2>2
    <3>2. CASE Len(a) <= Len(n)
      BY <1>2, <1>6, <1>9, <2>2, <3>2
    <3> QED
      BY <1>4, <1>8, <1>9, <3>1, <3>2
  <2>3. CASE a \in C /\ b \in stack \ {n}
    BY <1>2, <1>5, <1>8, <1>9, <2>3
  <2>4. CASE a \in C /\ b \in C
    BY <1>2, <1>4, <1>9, <2>4
  <2> QED
    BY <1>2, <2>1, <2>2, <2>3, <2>4
<1>10. n \in Pending
  BY <1>3, <1>7 DEF Pending
<1>11. ASSUME NEW q \in Pending, q # n PROVE q \in Pending'
  <2>1. PICK m \in stack : m \in Prefixes(q)
    BY DEF Pending
  <2>2. q \in trie.nodes
    BY DEF Pending
  <2>3. CASE m # n
    BY <1>2, <2>1, <2>2, <2>3 DEF Pending
  <2>4. CASE m = n
    <3> DEFINE k == Len(n) + 1
               c == SubSeq(q, 1, k)
    <3>1. Len(n) < Len(q)
      BY <1>3, <1>4, <1>7, <1>11, <2>1, <2>2, <2>4
    <3>2. q \in Seq(Part) /\ k \in 0 .. Len(q)
      BY <1>1, <1>3, <1>7, <2>2, <3>1
    <3>3. c \in Prefixes(q) /\ Len(c) = k
      <4> HIDE DEF k
      <4> QED
        BY <3>2, FirstParts DEF Prefixes
    <3> HIDE DEF c
    <3>4. c \in trie.nodes /\ n \in Prefixes(c)
      BY <1>1, <1>6, <1>7, <2>1, <2>2, <2>4, <3>3
    <3>5. c \in C
      BY <3>3, <3>4 DEF C, Children
    <3> QED
      BY <1>2, <2>2, <3>3, <3>5 DEF Pending
  <2> QED
    BY <2>3, <2>4
<1>12. ASSUME NEW q \in Pending' PROVE q \in Pending /\ q # n
  <2>1. q \in trie.nodes
    BY DEF Pending
  <2>2. PICK m \in stack' : m \in Prefixes(q)
    BY DEF Pending
  <2>3. CASE m \in stack \ {n}
    BY <1>7, <2>1, <2>2, <2>3 DEF Pending
  <2>4. CASE m \in C
    <3>1. n \in Prefixes(q)
      BY <1>2, <1>5, <2>1, <2>2, <2>4
    <3>2. Len(m) = Len(n) + 1 /\ Len(m) <= Len(q)
      BY <1>2, <1>3, <2>1, <2>2, <2>4
    <3> QED
      BY <1>7, <2>1, <3>1, <3>2 DEF Pending
  <2> QED
    BY <1>2, <2>2, <2>3, <2>4
<1> QED
  BY <1>8, <1>9, <1>10, <1>11, <1>12

\* The copy takes over a node that leaves the stack, and counts it if it has a value.
LEMMA YieldAgrees ==
    ASSUME CopyInv, pc = "copy", NEW n \in stack, AdvanceCopy(n)
    PROVE  CopyAgrees'
<1>1. /\ WellFormed(trie) /\ WellFormed(copy) /\ stack \subseteq trie.nodes
      /\ \A a, b \in stack : a \in Prefixes(b) => a = b
      /\ \A q \in Path : copy.value[q] = IF q \in Pending THEN NoValue ELSE trie.value[q]
      /\ copy.size_ = Cardinality(Valued(copy))
      /\ trie.value[<<>>] = NoValue
  BY DEF CopyInv, IInv, Types, CopyAgrees, Counted
<1>2. /\ stack' = Advanced(trie, stack, n) /\ trie' = trie /\ pc' = "copy"
      /\ copy' = Yielded(trie, copy, n)
  BY DEF AdvanceCopy, building
<1>3. /\ stack' \subseteq trie.nodes
      /\ \A a, b \in stack' : a \in Prefixes(b) => a = b
      /\ Pending' = Pending \ {n}
      /\ n \in Pending
  BY <1>1, <1>2, AdvancePasses
<1>4. n \in Path /\ trie.nodes \subseteq Path /\ trie.value \in [Path -> Value \cup {NoValue}]
  BY <1>1 DEF WellFormed, Trie
<1>5. CASE trie.value[n] = NoValue
  <2>1. copy' = copy
    BY <1>2, <1>5 DEF Yielded
  <2>2. \A q \in Path : copy'.value[q] = IF q \in Pending' THEN NoValue ELSE trie'.value[q]
    BY <1>1, <1>2, <1>3, <1>5, <2>1
  <2> QED
    BY <1>1, <1>2, <1>3, <2>1, <2>2 DEF CopyAgrees
<1>6. CASE trie.value[n] # NoValue
  <2> DEFINE v == trie.value[n]
  <2>1. v \in Value /\ copy' = insert(copy, n, v) /\ n # <<>>
    BY <1>1, <1>2, <1>4, <1>6 DEF Yielded
  <2>2. WellFormed(copy')
    BY <1>1, <1>4, <2>1, InsertKeepsShape
  <2>3. \A q \in Path : copy'.value[q] = IF q \in Pending' THEN NoValue ELSE trie'.value[q]
    <3>1. copy'.value = [copy.value EXCEPT ![n] = v] /\ copy.value \in [Path -> Value \cup {NoValue}]
      BY <1>1, <2>1 DEF insert, WellFormed, Trie
    <3>2. \A q \in Path : copy'.value[q] = IF q = n THEN v ELSE copy.value[q]
      BY <1>4, <3>1
    <3> QED
      BY <1>1, <1>2, <1>3, <3>2
  <2>4. n \notin copy.nodes
    <3> SUFFICES ASSUME n \in copy.nodes PROVE FALSE
      OBVIOUS
    <3>1. PICK r \in Path : copy.value[r] # NoValue /\ n \in Prefixes(r)
      BY <1>1, <2>1 DEF WellFormed
    <3>2. r \notin Pending /\ trie.value[r] # NoValue
      BY <1>1, <3>1
    <3>3. r \in trie.nodes
      BY <1>1, <3>2 DEF WellFormed
    <3> QED
      BY <3>1, <3>2, <3>3 DEF Pending
  <2>5. n \notin Valued(copy) /\ ~(Prefixes(n) \subseteq copy.nodes)
    BY <1>1, <1>4, <2>4, ValuedFacts, TrieAssumption, PrefixFacts
  <2>6. copy'.size_ = copy.size_ + 1
    BY <2>1, <2>5 DEF insert
  <2>7. Cardinality(Valued(copy')) = Cardinality(Valued(copy)) + 1
    BY <1>1, <1>4, <2>1, <2>5, InsertCounts
  <2> QED
    BY <1>1, <1>2, <1>3, <2>2, <2>3, <2>6, <2>7 DEF CopyAgrees
<1> QED
  BY <1>5, <1>6

\* Nothing has a value in the trie that a copy begins with.
LEMMA EmptyFacts ==
    /\ WellFormed(EmptyTrie)
    /\ \A q \in Path : EmptyTrie.value[q] = NoValue
    /\ EmptyTrie.size_ = Cardinality(Valued(EmptyTrie))
<1>1. WellFormed(EmptyTrie)
  BY EmptyWellFormed
<1>2. \A q \in Path : EmptyTrie.value[q] = NoValue
  BY DEF EmptyTrie
<1>3. Valued(EmptyTrie) = {}
  BY <1>1, <1>2, ValuedFacts
<1> QED
  BY <1>1, <1>2, <1>3, FS_EmptySet DEF EmptyTrie

LEMMA CopyInit == Init => CopyInv
<1> SUFFICES ASSUME Init PROVE CopyInv
  OBVIOUS
<1>1. trie = EmptyTrie /\ pc = "packages"
  BY DEF Init
<1>2. Counted
  <2>1. EmptyTrie.size_ = 0
    BY DEF EmptyTrie
  <2> QED
    BY <1>1, <2>1, EmptyFacts, TrieAssumption DEF Counted
<1> QED
  BY <1>1, <1>2, InitIInv DEF CopyInv, CopyAgrees

\* Every step keeps the copy in agreement with the trie.
LEMMA CopyStep == CopyInv /\ [Next]_vars => CopyInv'
<1> SUFFICES ASSUME CopyInv, [Next]_vars PROVE CopyInv'
  OBVIOUS
<1>1. IInv' /\ Counted'
  BY NextIInv, CountedStep DEF CopyInv
<1>2. CASE BeginCopy
  <2>1. stack' = {<<>>} /\ copy' = EmptyTrie /\ trie' = trie /\ pc' = "copy"
    BY <1>2 DEF BeginCopy, building
  <2>2. WellFormed(trie)
    BY DEF CopyInv, IInv, Types
  <2>3. trie.nodes \subseteq Path /\ <<>> \in trie.nodes
    BY <2>2 DEF WellFormed, Trie
  <2>4. Pending' = trie.nodes
    <3>1. \A q \in trie.nodes : <<>> \in Prefixes(q)
      BY <2>3, TrieAssumption, PrefixFacts
    <3> QED
      BY <2>1, <3>1 DEF Pending
  <2>5. \A q \in Path : copy'.value[q] = IF q \in Pending' THEN NoValue ELSE trie'.value[q]
    BY <2>1, <2>2, <2>4, EmptyFacts DEF WellFormed
  <2> QED
    BY <1>1, <2>1, <2>3, <2>5, EmptyFacts DEF CopyInv, CopyAgrees
<1>3. ASSUME NEW n \in stack, AdvanceCopy(n) PROVE CopyInv'
  BY <1>1, <1>3, YieldAgrees DEF CopyInv, AdvanceCopy
<1>4. CASE EndCopy
  <2>1. UNCHANGED <<trie, stack, copy>> /\ pc = "copy" /\ stack = {}
    BY <1>4 DEF EndCopy, building, copying
  <2>2. Pending' = Pending
    BY <2>1 DEF Pending
  <2> QED
    BY <1>1, <2>1, <2>2 DEF CopyInv, CopyAgrees
<1>5. CASE UNCHANGED vars
  <2>1. UNCHANGED <<trie, stack, copy, pc>>
    BY <1>5 DEF vars, building, copying
  <2>2. Pending' = Pending
    BY <2>1 DEF Pending
  <2> QED
    BY <1>1, <2>1, <2>2 DEF CopyInv, CopyAgrees
<1>6. CASE \/ (\E k \in Value : OpenList(k)) \/ (\E p \in lines : ReadLine(p)) \/ CloseList
           \/ (\E p \in Queries : BeginResolve(p)) \/ (\E p \in wl : Visit(p))
           \/ EndResolve \/ LookupByPath
  <2>1. pc' \notin {"copy", "copied"}
    BY <1>6 DEF OpenList, ReadLine, CloseList, BeginResolve, Visit, EndResolve, LookupByPath
  <2> QED
    BY <1>1, <2>1 DEF CopyInv, CopyAgrees
<1> QED
  BY <1>2, <1>3, <1>4, <1>5, <1>6 DEF Next

\* A copy of a trie has the nodes and the values of the original, and counts each
\* path with a value once, where the original may have counted less
\* (filesystem_trie.h:149): for any paths, values and order of insertion.
THEOREM CopiesAreEqual == Spec => []CopyIsEqual
<1>1. CopyInv => CopyIsEqual
  <2> SUFFICES ASSUME CopyInv, pc = "copied"
               PROVE  /\ copy.nodes = trie.nodes
                      /\ copy.value = trie.value
                      /\ copy.size_ = Cardinality(Valued(trie))
                      /\ trie.size_ <= copy.size_
    BY DEF CopyIsEqual
  <2>1. /\ WellFormed(trie) /\ WellFormed(copy)
        /\ \A q \in Path : copy.value[q] = IF q \in Pending THEN NoValue ELSE trie.value[q]
        /\ copy.size_ = Cardinality(Valued(copy)) /\ stack = {}
        /\ trie.size_ <= Cardinality(Valued(trie))
    BY DEF CopyInv, IInv, Types, Counted, CopyAgrees
  <2>2. \A q \in Path : copy.value[q] = trie.value[q]
    BY <2>1 DEF Pending
  <2>3. copy.value = trie.value
    BY <2>1, <2>2 DEF WellFormed, Trie
  <2>4. Valued(copy) = Valued(trie)
    BY <2>1, <2>2, ValuedFacts
  <2>5. copy.nodes = trie.nodes
    <3>1. ASSUME NEW t, NEW u, WellFormed(t), WellFormed(u), t.value = u.value
          PROVE  t.nodes \subseteq u.nodes
      <4> SUFFICES ASSUME NEW q \in t.nodes \ {<<>>} PROVE q \in u.nodes
        BY <3>1 DEF WellFormed
      <4>1. PICK r \in Path : u.value[r] # NoValue /\ q \in Prefixes(r)
        BY <3>1 DEF WellFormed
      <4>2. r \in u.nodes
        BY <3>1, <4>1 DEF WellFormed
      <4> QED
        BY <3>1, <4>1, <4>2 DEF WellFormed
    <3>2. copy.nodes \subseteq trie.nodes /\ trie.nodes \subseteq copy.nodes
      BY <2>1, <2>3, <3>1
    <3> QED
      BY <3>2
  <2> QED
    BY <2>1, <2>3, <2>4, <2>5
<1> QED
  BY <1>1, CopyInit, CopyStep, PTL DEF Spec

-------------------------------------------------------------------------------
\* The trie of nodes implements the dictionary PathStore (filesystem_trie.h:149).
THEOREM TrieStores == Spec => StoresLast
<1>1. Init => contents = [p \in Path |-> NoValue]
  BY DEF Init, contents, EmptyTrie, find
<1>2. IInv /\ [Next]_vars =>
        /\ Dictionary!Next \/ UNCHANGED contents
        /\ (\A p \in lines \ lines' : find(trie', p) = pkg) \/ UNCHANGED vars
  <2> SUFFICES ASSUME IInv, [Next]_vars
               PROVE  /\ Dictionary!Next \/ UNCHANGED contents
                      /\ (\A p \in lines \ lines' : find(trie', p) = pkg) \/ UNCHANGED vars
    OBVIOUS
  <2>1. ASSUME NEW p \in lines, ReadLine(p)
        PROVE  Dictionary!Next /\ \A q \in lines \ lines' : find(trie', q) = pkg
    <3>1. p \in Path /\ pkg \in Value /\ WellFormed(trie) /\ trie' = insert(trie, p, pkg)
      BY <2>1 DEF ReadLine, IInv, Types, Reading
    <3>2. \A q \in Path : find(trie', q) = IF q = p THEN pkg ELSE find(trie, q)
      BY <3>1, InsertPuts
    <3>3. contents' = [contents EXCEPT ![p] = pkg]
      BY <3>2 DEF contents
    <3>4. Dictionary!Next
      BY <3>1, <3>3 DEF Dictionary!Next, Dictionary!Put
    <3>5. lines \ lines' \subseteq {p}
      BY <2>1 DEF ReadLine
    <3> QED
      BY <3>1, <3>2, <3>4, <3>5
  <2>2. ASSUME UNCHANGED trie, lines \subseteq lines'
        PROVE  UNCHANGED contents /\ \A p \in lines \ lines' : find(trie', p) = pkg
    BY <2>2 DEF contents
  <2>3. ASSUME NEW k \in Value, OpenList(k) PROVE UNCHANGED trie /\ lines \subseteq lines'
    BY <2>3 DEF OpenList, IInv, Reading
  <2>4. ASSUME \/ CloseList \/ BeginCopy \/ (\E n \in stack : AdvanceCopy(n)) \/ EndCopy
               \/ (\E p \in Queries : BeginResolve(p)) \/ (\E p \in wl : Visit(p))
               \/ EndResolve \/ LookupByPath \/ UNCHANGED vars
        PROVE  UNCHANGED trie /\ lines \subseteq lines'
    BY <2>4 DEF CloseList, BeginCopy, AdvanceCopy, EndCopy, BeginResolve, Visit, EndResolve,
                LookupByPath, vars, building
  <2> QED
    BY <2>1, <2>2, <2>3, <2>4 DEF Next
<1>3. QED
  BY <1>1, <1>2, Invariance, PTL
     DEF Spec, StoresLast, Dictionary!Spec, Dictionary!Init
===============================================================================

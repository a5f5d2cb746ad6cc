------------------------------ MODULE PathLookup -------------------------------
(***************************************************************************)
(* DpkgDatabase (src/src/dpkg_database.h), filled from the list files of the *)
(* installed packages, and the lookup of a traced path in it through the     *)
(* names SymlinkResolver (src/src/util_fs.h) finds for the file.  The ignored *)
(* files (src/src/ignore_file_map.h) and the files of the R packages are      *)
(* looked up in the same way.                                                *)
(*                                                                         *)
(* The hash tables leave it open in which order the packages are read and   *)
(* the root's links are tried.                                               *)
(***************************************************************************)
EXTENDS PathTrie

CONSTANTS
    Lists,      \* what the list file of a package may contain
    RootLinks,  \* the sets of links in "/" to choose from: functions Part -> Path
    Queries     \* the paths that are looked up

ASSUME LookupAssumption ==
    /\ \A l \in Lists : l \subseteq Path \ {<<>>}
    /\ \A s \in RootLinks :
          /\ DOMAIN s \subseteq Part
          /\ IsFiniteSet(DOMAIN s)
          /\ \A n \in DOMAIN s : s[n] \in Path
    /\ Queries \subseteq Path

VARIABLES
    list,       \* the list file of each package; does not change
    pc,
    todo,       \* the packages whose lists were not read
    pkg,        \* the package whose list is read
    lines,      \* the lines of it that are left
    trie,       \* files_
    copy,       \* a copy of a trie in the making
    stack,      \* of the iterator
    symlinks_,  \* the links of "/" to directories, as the resolver found them
    order,      \* the order they are iterated in
    gone,       \* the file looked up is not on the disk
    path,       \* what is looked up
    wl,         \* of resolve_symlinks
    result,     \* of resolve_symlinks
    owner       \* the package found

building == <<todo, pkg, lines, trie>>
copying == <<copy, stack>>
resolver == <<symlinks_, order, gone, path>>
query == <<resolver, wl, result, owner>>
vars == <<list, pc, building, copying, query>>

PCs == {"packages", "lines", "built", "copy", "copied", "resolve", "resolved",
        "answered", "threw"}

TypeOK ==
    /\ list \in [Value -> Lists]
    /\ pc \in PCs
    /\ todo \subseteq Value
    /\ pkg \in Value \cup {NoValue}
    /\ lines \subseteq Path
    /\ trie \in Trie
    /\ copy \in Trie
    /\ stack \subseteq Path
    /\ symlinks_ \in RootLinks \cup {<<>>}
    /\ gone \in BOOLEAN
    /\ path \in Path
    /\ wl \subseteq Seq(Part)
    /\ result \subseteq Seq(Part)
    /\ owner \in Value \cup {NoValue}

Orders(S) == {o \in [1 .. Cardinality(S) -> S] : \A i, j \in DOMAIN o : o[i] = o[j] => i = j}

Init ==
    /\ list \in [Value -> Lists]
    /\ pc = "packages"
    /\ todo = Value
    /\ pkg = NoValue
    /\ lines = {}
    /\ trie = EmptyTrie
    /\ copy = EmptyTrie
    /\ stack = {}
    /\ symlinks_ = <<>>
    /\ order = <<>>
    /\ gone = FALSE
    /\ path = <<>>
    /\ wl = {}
    /\ result = {}
    /\ owner = NoValue

-------------------------------------------------------------------------------
(* DpkgDatabase::from_path *)

\* The packages in the order of their hash table; one without a list file is
\* left out, one whose file cannot be opened ends it with an exception.
OpenList(k) ==
    /\ pc = "packages"
    /\ k \in todo
    /\ todo' = todo \ {k}
    /\ \/ pc' = "lines" /\ pkg' = k /\ lines' = list[k]
       \/ pc' = "packages" /\ UNCHANGED <<pkg, lines>>
       \/ pc' = "threw" /\ UNCHANGED <<pkg, lines>>
    /\ UNCHANGED <<list, trie, copying, query>>

\* process_package_list_file
ReadLine(p) ==
    /\ pc = "lines"
    /\ p \in lines
    /\ lines' = lines \ {p}
    /\ trie' = insert(trie, p, pkg)
    /\ UNCHANGED <<list, pc, todo, pkg, copying, query>>

CloseList ==
    /\ \/ pc = "lines" /\ lines = {} /\ pc' = "packages"
       \/ pc = "packages" /\ todo = {} /\ pc' = "built"
    /\ UNCHANGED <<list, building, copying, query>>

-------------------------------------------------------------------------------
(* The copy constructor of the trie, used for the IgnoreFileMap in Options. *)

BeginCopy ==
    /\ pc = "built"
    /\ pc' = "copy"
    /\ stack' = {<<>>}
    /\ copy' = EmptyTrie
    /\ UNCHANGED <<list, building, query>>

AdvanceCopy(n) ==
    /\ pc = "copy"
    /\ n \in stack
    /\ stack' = Advanced(trie, stack, n)
    /\ copy' = Yielded(trie, copy, n)
    /\ UNCHANGED <<list, pc, building, query>>

EndCopy ==
    /\ pc = "copy"
    /\ stack = {}
    /\ pc' = "copied"
    /\ UNCHANGED <<list, building, copying, query>>

-------------------------------------------------------------------------------
(* SymlinkResolver *)

Under(p, base) == base \in Prefixes(p)
Rebased(p, from, to) == to \o SubSeq(p, Len(from) + 1, Len(p))

\* The file a path leads to: the links of the root are followed.
File(p) ==
    IF Len(p) > 0 /\ p[1] \in DOMAIN symlinks_
    THEN Rebased(p, <<p[1]>>, symlinks_[p[1]]) ELSE p

\* fs::exists and fs::equivalent: the file is there and is the same one.
SameFile(p, q) == ~gone /\ File(p) = File(q)

\* Mutant: a candidate is not compared with the file.
MutantUnchecked(p, from, to) ==
    IF Under(p, from) THEN {to \o SubSeq(p, Len(from), Len(p))} ELSE {}

\* The lambda `test': the same file under `to' instead of `from'.
Candidates(p, from, to) ==
    {q \in {Rebased(p, from, to)} : Under(p, from) /\ SameFile(q, p)}

\* For the i-th link: through the link, or else from the link to its target.
Tested(p, i) ==
    LET link == <<order[i]>>
        direct == Candidates(p, symlinks_[order[i]], link)
    IN  IF direct # {} THEN direct ELSE Candidates(p, link, symlinks_[order[i]])

\* The loop over symlinks_ breaks at the first link that gives a candidate.
Alternate(p) ==
    LET hits == {i \in DOMAIN order : Tested(p, i) # {}}
    IN  IF hits = {} THEN {}
        ELSE Tested(p, CHOOSE i \in hits : \A j \in hits : i <= j)

\* A resolver is made, populate_symlinks reads the root's links, and p is looked up.
BeginResolve(p) ==
    /\ pc = "built"
    /\ pc' = "resolve"
    /\ symlinks_' \in RootLinks
    /\ order' \in Orders(DOMAIN symlinks_')
    /\ gone' \in BOOLEAN
    /\ path' = p
    /\ wl' = {p}
    /\ result' = {}
    /\ UNCHANGED <<list, building, copying, owner>>

Visit(p) ==
    /\ pc = "resolve"
    /\ p \in wl
    /\ result' = result \cup {p}
    /\ wl' = (wl \ {p}) \cup (IF p \in result THEN {} ELSE Alternate(p))
    /\ UNCHANGED <<list, pc, building, copying, resolver, owner>>

EndResolve ==
    /\ pc = "resolve"
    /\ wl = {}
    /\ pc' = "resolved"
    /\ UNCHANGED <<list, building, copying, query>>

\* The resolvers take the first name, in hash order, that lookup_by_path knows.
LookupByPath ==
    /\ pc = "resolved"
    /\ LET found == {find(trie, p) : p \in result} \ {NoValue}
       IN  owner' \in IF found = {} THEN {NoValue} ELSE found
    /\ pc' = "answered"
    /\ UNCHANGED <<list, building, copying, resolver, wl, result>>

Next ==
    \/ \E k \in Value : OpenList(k)
    \/ \E p \in lines : ReadLine(p)
    \/ CloseList
    \/ BeginCopy
    \/ \E n \in stack : AdvanceCopy(n)
    \/ EndCopy
    \/ \E p \in Queries : BeginResolve(p)
    \/ \E p \in wl : Visit(p)
    \/ EndResolve
    \/ LookupByPath

Spec == Init /\ [][Next]_vars

-------------------------------------------------------------------------------
contents == [p \in Path |-> find(trie, p)]

Dictionary == INSTANCE PathStore WITH store <- contents

\* The trie of nodes is a dictionary: a line read puts the package at its path,
\* whatever was there, and changes no other path (filesystem_trie.h:149), in
\* whatever order the packages and their lines come.
StoresLast ==
    /\ Dictionary!Spec
    /\ [][\A p \in lines \ lines' : find(trie', p) = pkg]_vars

\* find_last_matching never answers for a path that no inserted one leads to, and
\* gives the longest inserted prefix, unless another inserted path goes on longer
\* with this one: then it ends at a node without a value (filesystem_trie.h:202).
LastMatching ==
    \A p \in Path :
        find_last_matching(trie, p) =
            IF Gap(trie, p) THEN NoValue ELSE LongestValue(trie, p)

\* A copy answers as the original does, and it counts every path that has a value:
\* the iterator comes to a prefix before it comes to what goes on from there. The
\* original misses the paths that were inserted after a longer one.
CopyIsEqual ==
    pc = "copied" =>
        /\ copy.nodes = trie.nodes
        /\ copy.value = trie.value
        /\ copy.size_ = Cardinality(Valued(trie))
        /\ trie.size_ <= copy.size_

\* Every name resolve_symlinks collects leads to the file looked up, so that no
\* file gets the package of another (util_fs.h:36).
AlternatesAreTheFile ==
    \A p \in result \cup wl : File(p) = File(path)

\* No two links of the root lead into the same directory.
LinksApart ==
    \A m, n \in DOMAIN symlinks_ :
        m # n => ~Under(symlinks_[m], symlinks_[n])

\* When a package lists the file under either of its names and its list was read,
\* the lookup finds a package that lists one of them, as long as the file is there
\* and the links of the root lead to directories apart: the loop ends at the first
\* link that fits (util_fs.h:64).
OwnerFound ==
    pc = "answered" /\ ~gone /\ LinksApart =>
        LET names == {p \in Path : File(p) = File(path)}
            known == {find(trie, p) : p \in names} \ {NoValue}
        IN  IF known = {} THEN owner = NoValue
            ELSE owner \in known /\ \E p \in names : p \in list[owner]

\* A file gets the package that provides it, and no other one: resolve_symlinks
\* collects names of the same file only, and enough of them (util_fs.h:27-77).
LookupAgrees == AlternatesAreTheFile /\ OwnerFound
===============================================================================

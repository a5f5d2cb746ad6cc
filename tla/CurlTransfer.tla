----------------------------- MODULE CurlTransfer -----------------------------
(***************************************************************************)
(* CURLMultipleTransfer (src/src/curl.h): requests are added, and run()    *)
(* drives them through libcurl's multi interface, `parallel' at first.     *)
(* r4r asks it for the system dependencies of the R packages that need     *)
(* compilation, ten at a time (rpkg_database.h:224-281); a package without *)
(* an answer is left out of the image's Debian packages.                   *)
(*                                                                         *)
(* libcurl and the server are external: each call of curl_multi_perform    *)
(* may finish any of the running transfers, well or not.                   *)
(***************************************************************************)
EXTENDS Integers, FiniteSets, Sequences

CONSTANTS
    Key,        \* the keys of the requests, one per package
    parallel    \* parallel_, 10 in get_system_dependencies

ASSUME ConstantsAssumption ==
    /\ IsFiniteSet(Key)
    /\ parallel \in Nat \ {0}

VARIABLES
    pc,         \* where the caller, or run(), is
    added,      \* the keys add() was called for
    pending_,   \* the queue of requests that were not started
    requests_,  \* the keys of the transfers libcurl has
    finished,   \* those of them with a message not read yet
    is_running, \* what curl_multi_perform said was still running
    results,    \* the keys run() has a result for
    asked       \* history: the keys that were in a curl_multi_perform

vars == <<pc, added, pending_, requests_, finished, is_running, results, asked>>

-------------------------------------------------------------------------------
PCs == {"adding", "filling", "loop", "messages", "returned", "threw"}

TypeOK ==
    /\ pc \in PCs
    /\ added \subseteq Key
    /\ pending_ \in Seq(Key)
    /\ requests_ \subseteq Key
    /\ finished \subseteq requests_
    /\ is_running \in Nat
    /\ results \subseteq Key
    /\ asked \subseteq Key

Init ==
    /\ pc = "adding"
    /\ added = {}
    /\ pending_ = <<>>
    /\ requests_ = {}
    /\ finished = {}
    /\ is_running = 1
    /\ results = {}
    /\ asked = {}

queued == {pending_[i] : i \in 1 .. Len(pending_)}

\* The caller asks for each package of a set once.
add(k) ==
    /\ pc = "adding"
    /\ k \notin added
    /\ added' = added \cup {k}
    /\ pending_' = Append(pending_, k)
    /\ UNCHANGED <<pc, requests_, finished, is_running, results, asked>>

run ==
    /\ pc = "adding"
    /\ pc' = "filling"
    /\ UNCHANGED <<added, pending_, requests_, finished, is_running, results, asked>>

\* Mutant: the request stays in the queue.
MutantNoPop ==
    /\ requests_' = requests_ \cup {Head(pending_)}
    /\ UNCHANGED pending_

\* add_transfer of the front of the queue
StartFront ==
    /\ requests_' = requests_ \cup {Head(pending_)}
    /\ pending_' = Tail(pending_)

\* Mutant: one request is started at first.
MutantFillsOne == requests_ = {} /\ pending_ # <<>>

\* The condition of the first loop of run().
Fills == Cardinality(requests_) < parallel /\ pending_ # <<>>

Fill ==
    /\ pc = "filling"
    /\ IF Fills
       THEN StartFront /\ UNCHANGED pc
       ELSE pc' = "loop" /\ UNCHANGED <<pending_, requests_>>
    /\ UNCHANGED <<added, finished, is_running, results, asked>>

\* Mutant: the loop looks at the queue instead of the requests.
MutantWhilePending == is_running = 0 \/ pending_ = <<>>

\* The condition of the second loop, negated.
LoopEnds == is_running = 0 \/ requests_ = {}

ReturnResults ==
    /\ pc = "loop"
    /\ LoopEnds
    /\ pc' = "returned"
    /\ UNCHANGED <<added, pending_, requests_, finished, is_running, results, asked>>

\* curl_multi_perform: the transfers in D come to their end.
Perform(D) ==
    /\ pc = "loop"
    /\ ~LoopEnds
    /\ D \subseteq requests_
    /\ finished' = D
    /\ is_running' = Cardinality(requests_ \ D)
    /\ asked' = asked \cup requests_
    /\ pc' = "messages"
    /\ UNCHANGED <<added, pending_, requests_, results>>

\* curl_multi_info_read: whatever the message says becomes the result.
ReadMessage(k) ==
    /\ pc = "messages"
    /\ k \in finished
    /\ results' = results \cup {k}
    /\ finished' = finished \ {k}
    /\ requests_' = requests_ \ {k}
    /\ UNCHANGED <<pc, added, pending_, is_running, asked>>

\* One pending request is started, however many have ended, and curl_multi_wait
\* returns after a second at the latest.
Refill ==
    /\ pc = "messages"
    /\ finished = {}
    /\ IF pending_ # <<>> THEN StartFront ELSE UNCHANGED <<pending_, requests_>>
    /\ pc' = "loop"
    /\ UNCHANGED <<added, finished, is_running, results, asked>>

\* curl_easy_init fails in add_transfer; the request is lost with the exception.
NoHandle ==
    /\ \/ pc = "filling" /\ Fills
       \/ pc = "messages" /\ finished = {} /\ pending_ # <<>>
    /\ pending_' = Tail(pending_)
    /\ pc' = "threw"
    /\ UNCHANGED <<added, requests_, finished, is_running, results, asked>>

Round == Fill \/ ReturnResults \/ (\E k \in Key : ReadMessage(k)) \/ Refill

Next ==
    \/ \E k \in Key : add(k)
    \/ run
    \/ Round
    \/ \E D \in SUBSET requests_ : Perform(D)
    \/ NoHandle

Spec == Init /\ [][Next]_vars

\* The thread runs, and no transfer lasts for ever: run() sets no timeout, so
\* this is what it needs of the servers.
FairSpec ==
    /\ Spec
    /\ WF_vars(Round)
    /\ WF_vars(\E D \in SUBSET requests_ : Perform(D))
    /\ \A k \in Key : SF_vars(\E D \in SUBSET requests_ : k \in D /\ Perform(D))

-------------------------------------------------------------------------------
\* Every key that was added is in exactly one place: it waits in the queue, once,
\* or is with libcurl, or has its result (pop, emplace and erase of run(),
\* curl.h:86-117). Only an exception loses one.
EachKeyOnce ==
    /\ pc # "threw" => added = queued \cup requests_ \cup results
    /\ queued \cap requests_ = {}
    /\ queued \cap results = {}
    /\ requests_ \cap results = {}
    /\ \A i, j \in 1 .. Len(pending_) : pending_[i] = pending_[j] => i = j

\* When run() returns there is a result for each transfer that libcurl worked on,
\* although the loop goes by a count that is older than the last messages and the
\* last refill (curl.h:96-117).
OnlyUnaskedAreLost == pc = "returned" => asked \subseteq results

\* With at most `parallel' requests no result is missing: the first loop of run()
\* (curl.h:86-90) hands all of them to libcurl.
FewAreAnswered ==
    pc = "returned" /\ Cardinality(added) <= parallel => results = added

\* run() comes to an end, with results or with an exception, if each transfer
\* ends some time.
RunReturns == pc = "filling" ~> pc \in {"returned", "threw"}
===============================================================================

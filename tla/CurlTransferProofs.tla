-------------------------- MODULE CurlTransferProofs --------------------------
(***************************************************************************)
(* Proofs about CurlTransfer, for any finite set of keys and any limit.    *)
(***************************************************************************)
EXTENDS CurlTransfer, FiniteSetTheorems, TLAPS

-------------------------------------------------------------------------------
\* What is in a sequence, and that nothing is there twice
ElementsOf(s) == {s[i] : i \in 1 .. Len(s)}
NoRepetition(s) == \A i, j \in 1 .. Len(s) : s[i] = s[j] => i = j

LEMMA AppendNew ==
    ASSUME NEW S, NEW s \in Seq(S), NEW e \in S, NoRepetition(s), e \notin ElementsOf(s)
    PROVE  /\ Append(s, e) \in Seq(S)
           /\ ElementsOf(Append(s, e)) = ElementsOf(s) \cup {e}
           /\ NoRepetition(Append(s, e))
BY DEF ElementsOf, NoRepetition

LEMMA PopFront ==
    ASSUME NEW S, NEW s \in Seq(S), s # <<>>, NoRepetition(s)
    PROVE  /\ Tail(s) \in Seq(S)
           /\ Head(s) \in S
           /\ ElementsOf(s) = ElementsOf(Tail(s)) \cup {Head(s)}
           /\ Head(s) \notin ElementsOf(Tail(s))
           /\ NoRepetition(Tail(s))
<1>1. Head(s) = s[1] /\ Len(s) \in Nat /\ Len(s) >= 1
  OBVIOUS
<1>2. Tail(s) \in Seq(S) /\ Len(Tail(s)) = Len(s) - 1
  OBVIOUS
<1>3. \A i \in 1 .. Len(Tail(s)) : Tail(s)[i] = s[i + 1]
  OBVIOUS
<1>4. ElementsOf(s) \subseteq ElementsOf(Tail(s)) \cup {Head(s)}
  <2> SUFFICES ASSUME NEW i \in 1 .. Len(s), s[i] # Head(s)
               PROVE  s[i] \in ElementsOf(Tail(s))
    BY DEF ElementsOf
  <2>1. i - 1 \in 1 .. Len(Tail(s)) /\ s[i] = Tail(s)[i - 1]
    BY <1>1, <1>2, <1>3
  <2> QED BY <2>1 DEF ElementsOf
<1>5. ElementsOf(Tail(s)) \cup {Head(s)} \subseteq ElementsOf(s)
  BY <1>1, <1>2, <1>3 DEF ElementsOf
<1>6. Head(s) \notin ElementsOf(Tail(s)) /\ NoRepetition(Tail(s))
  BY <1>1, <1>2, <1>3 DEF ElementsOf, NoRepetition
<1> QED BY <1>1, <1>2, <1>4, <1>5, <1>6

-------------------------------------------------------------------------------
\* A step of Next, by the functions it is in
LEMMA StepCases ==
    ASSUME Next
    PROVE  \/ \E k \in Key : add(k)
           \/ run \/ Fill \/ ReturnResults
           \/ \E k \in Key : ReadMessage(k)
           \/ Refill \/ NoHandle
           \/ \E D \in SUBSET requests_ : Perform(D)
BY DEF Next, Round

\* The types, and that each key is in one place: Fill and Refill take the head
\* of a queue that has no key twice.
Placed == TypeOK /\ EachKeyOnce

LEMMA StartFrontPlaces ==
    ASSUME Placed, StartFront, pending_ # <<>>
    PROVE  /\ pending_' \in Seq(Key)
           /\ requests_' \subseteq Key
           /\ requests_ \subseteq requests_'
           /\ queued' \cup requests_' = queued \cup requests_
           /\ queued' \cap requests_' = {}
           /\ queued' \subseteq queued
           /\ requests_' \cap results = {}
           /\ NoRepetition(pending_)'
<1>1. pending_ \in Seq(Key) /\ NoRepetition(pending_) /\ queued = ElementsOf(pending_)
  BY DEF Placed, TypeOK, EachKeyOnce, NoRepetition, queued, ElementsOf
<1>2. /\ Tail(pending_) \in Seq(Key)
      /\ Head(pending_) \in Key
      /\ ElementsOf(pending_) = ElementsOf(Tail(pending_)) \cup {Head(pending_)}
      /\ Head(pending_) \notin ElementsOf(Tail(pending_))
      /\ NoRepetition(Tail(pending_))
  BY <1>1, PopFront
<1>3. queued' = ElementsOf(Tail(pending_)) /\ NoRepetition(pending_)'
  BY <1>2 DEF StartFront, queued, ElementsOf, NoRepetition
<1>4. requests_' = requests_ \cup {Head(pending_)} /\ pending_' = Tail(pending_)
  BY DEF StartFront
<1> QED BY <1>1, <1>2, <1>3, <1>4 DEF Placed, TypeOK, EachKeyOnce

LEMMA PerformPlaces ==
    ASSUME Placed, NEW D \in SUBSET requests_, Perform(D)
    PROVE  Placed'
<1>1. IsFiniteSet(requests_ \ D)
  <2>1. (requests_ \ D) \subseteq Key
    BY DEF Placed, TypeOK
  <2> QED BY <2>1, FS_Subset, ConstantsAssumption
<1>2. Cardinality(requests_ \ D) \in Nat
  BY <1>1, FS_CardinalityType
<1>3. TypeOK'
  BY <1>2 DEF Placed, TypeOK, Perform, PCs
<1>4. EachKeyOnce'
  BY DEF Placed, EachKeyOnce, Perform, queued
<1> QED BY <1>3, <1>4 DEF Placed

LEMMA PlacedStep == Placed /\ [Next]_vars => Placed'
<1> SUFFICES ASSUME Placed, [Next]_vars
             PROVE  Placed'
  OBVIOUS
<1>0. EachKeyOnce <=>
        /\ pc # "threw" => added = queued \cup requests_ \cup results
        /\ queued \cap requests_ = {}
        /\ queued \cap results = {}
        /\ requests_ \cap results = {}
        /\ NoRepetition(pending_)
  BY DEF EachKeyOnce, NoRepetition
<1>0p. (pc' # "threw" => added' = queued' \cup requests_' \cup results')
        /\ queued' \cap requests_' = {}
        /\ queued' \cap results' = {}
        /\ requests_' \cap results' = {}
        /\ NoRepetition(pending_)' => EachKeyOnce'
  BY DEF EachKeyOnce, NoRepetition
<1>1. ASSUME NEW k \in Key, add(k) PROVE Placed'
  <2>1. pending_ \in Seq(Key) /\ NoRepetition(pending_) /\ k \notin ElementsOf(pending_)
    BY <1>1 DEF Placed, TypeOK, EachKeyOnce, NoRepetition, queued, ElementsOf, add
  <2>2. /\ pending_' \in Seq(Key)
        /\ ElementsOf(pending_') = ElementsOf(pending_) \cup {k}
        /\ NoRepetition(pending_')
    BY <1>1, <2>1, AppendNew DEF add
  <2>3. queued' = queued \cup {k} /\ NoRepetition(pending_)'
    BY <2>2 DEF queued, ElementsOf, NoRepetition
  <2>4. k \notin requests_ /\ k \notin results /\ pc # "threw"
    BY <1>1 DEF Placed, EachKeyOnce, add
  <2>5. EachKeyOnce'
    BY <1>0, <1>0p, <1>1, <2>3, <2>4 DEF Placed, add
  <2>6. TypeOK'
    BY <1>1, <2>2 DEF Placed, TypeOK, add
  <2> QED BY <2>5, <2>6 DEF Placed
<1>2. CASE run
  BY <1>2 DEF Placed, TypeOK, PCs, EachKeyOnce, queued, run
<1>3. CASE Fill
  <2>1. CASE Fills
    <3>1. StartFront /\ pending_ # <<>> /\ UNCHANGED <<pc, added, finished, is_running, results, asked>>
      BY <1>3, <2>1 DEF Fill, Fills
    <3>2. TypeOK'
      BY <3>1, StartFrontPlaces DEF Placed, TypeOK
    <3>3. EachKeyOnce'
      BY <1>0, <1>0p, <3>1, StartFrontPlaces DEF Placed
    <3> QED BY <3>2, <3>3 DEF Placed
  <2>2. CASE ~Fills
    BY <1>3, <2>2 DEF Placed, TypeOK, PCs, EachKeyOnce, queued, Fill
  <2> QED BY <2>1, <2>2
<1>4. CASE ReturnResults
  BY <1>4 DEF Placed, TypeOK, PCs, EachKeyOnce, queued, ReturnResults
<1>5. ASSUME NEW k \in Key, ReadMessage(k) PROVE Placed'
  <2>1. k \in requests_ /\ queued' = queued /\ NoRepetition(pending_)' = NoRepetition(pending_)
    BY <1>5 DEF Placed, TypeOK, ReadMessage, queued, NoRepetition
  <2>2. EachKeyOnce'
    BY <1>0, <1>0p, <1>5, <2>1 DEF Placed, ReadMessage
  <2>3. TypeOK'
    BY <1>5 DEF Placed, TypeOK, ReadMessage
  <2> QED BY <2>2, <2>3 DEF Placed
<1>6. CASE Refill
  <2>1. CASE pending_ # <<>>
    <3>1. StartFront /\ pc' = "loop" /\ pc = "messages"
          /\ UNCHANGED <<added, finished, is_running, results, asked>>
      BY <1>6, <2>1 DEF Refill
    <3>2. TypeOK'
      BY <2>1, <3>1, StartFrontPlaces DEF Placed, TypeOK, PCs
    <3>3. EachKeyOnce'
      BY <1>0, <1>0p, <2>1, <3>1, StartFrontPlaces DEF Placed
    <3> QED BY <3>2, <3>3 DEF Placed
  <2>2. CASE pending_ = <<>>
    BY <1>6, <2>2 DEF Placed, TypeOK, PCs, EachKeyOnce, queued, Refill
  <2> QED BY <2>1, <2>2
<1>7. CASE NoHandle
  <2>1. pending_ # <<>> /\ pending_' = Tail(pending_) /\ pc' = "threw"
        /\ UNCHANGED <<added, requests_, finished, is_running, results, asked>>
    BY <1>7 DEF NoHandle, Fills
  <2>2. pending_ \in Seq(Key) /\ NoRepetition(pending_) /\ queued = ElementsOf(pending_)
    BY <1>0 DEF Placed, TypeOK, queued, ElementsOf
  <2>3. /\ Tail(pending_) \in Seq(Key)
        /\ ElementsOf(Tail(pending_)) \subseteq ElementsOf(pending_)
        /\ NoRepetition(Tail(pending_))
    BY <2>1, <2>2, PopFront
  <2>4. queued' = ElementsOf(Tail(pending_)) /\ NoRepetition(pending_)'
    BY <2>1, <2>3 DEF queued, ElementsOf, NoRepetition
  <2>5. TypeOK'
    BY <2>1, <2>3 DEF Placed, TypeOK, PCs
  <2>6. EachKeyOnce'
    BY <1>0, <1>0p, <2>1, <2>2, <2>3, <2>4 DEF Placed
  <2> QED BY <2>5, <2>6 DEF Placed
<1>8. CASE UNCHANGED vars
  BY <1>8 DEF Placed, TypeOK, EachKeyOnce, queued, vars
<1> QED BY <1>1, <1>2, <1>3, <1>4, <1>5, <1>6, <1>7, <1>8, PerformPlaces, StepCases

LEMMA PlacedInit == Init => Placed
BY DEF Init, Placed, TypeOK, PCs, EachKeyOnce, queued

LEMMA AlwaysPlaced == Spec => []Placed
BY PlacedInit, PlacedStep, PTL DEF Spec

\* The requests, the queue and the results keep their types, for any keys and
\* any limit.
THEOREM CurlTransferTypeCorrect == Spec => []TypeOK
BY AlwaysPlaced, PTL DEF Placed

\* No key is lost or requested twice inside run(): it is in the queue, with
\* libcurl, or answered.
THEOREM KeysStayInPlace == Spec => []EachKeyOnce
BY AlwaysPlaced, PTL DEF Placed

-------------------------------------------------------------------------------
\* Each transfer libcurl worked on is still there or has a result; and when
\* nothing ran at the last curl_multi_perform, all of them ended, so that their
\* results are there once the messages have been read.
AskedKept ==
    /\ asked \subseteq requests_ \cup results
    /\ pc \in {"adding", "filling"} => is_running = 1
    /\ pc = "messages" /\ is_running = 0 => requests_ = finished
    /\ pc = "loop" /\ is_running = 0 => asked \subseteq results
    /\ pc = "returned" => asked \subseteq results

LEMMA AskedKeptStep == Placed /\ AskedKept /\ [Next]_vars => AskedKept'
<1> SUFFICES ASSUME Placed, AskedKept, [Next]_vars
             PROVE  AskedKept'
  OBVIOUS
<1>1. ASSUME NEW k \in Key, add(k) PROVE AskedKept'
  BY <1>1 DEF AskedKept, add
<1>2. CASE run
  BY <1>2 DEF AskedKept, run
<1>3. CASE Fill
  BY <1>3 DEF AskedKept, Fill, StartFront
<1>4. CASE ReturnResults
  BY <1>4 DEF AskedKept, ReturnResults, LoopEnds
<1>5. ASSUME NEW k \in Key, ReadMessage(k) PROVE AskedKept'
  BY <1>5 DEF AskedKept, ReadMessage
<1>6. CASE Refill
  BY <1>6 DEF AskedKept, Refill, StartFront
<1>7. CASE NoHandle
  BY <1>7 DEF AskedKept, NoHandle
<1>8. ASSUME NEW D \in SUBSET requests_, Perform(D) PROVE AskedKept'
  <2>1. IsFiniteSet(requests_ \ D)
    <3>1. (requests_ \ D) \subseteq Key
      BY DEF Placed, TypeOK
    <3> QED BY <3>1, FS_Subset, ConstantsAssumption
  <2>2. is_running' = 0 => requests_ \ D = {}
    BY <1>8, <2>1, FS_EmptySet DEF Perform
  <2> QED BY <1>8, <2>2 DEF AskedKept, Perform
<1>9. CASE UNCHANGED vars
  BY <1>9 DEF AskedKept, vars
<1> QED BY <1>1, <1>2, <1>3, <1>4, <1>5, <1>6, <1>7, <1>8, <1>9, StepCases

LEMMA AlwaysAskedKept == Spec => []AskedKept
<1>1. Init => AskedKept
  BY DEF Init, AskedKept
<1> QED BY <1>1, AskedKeptStep, AlwaysPlaced, PTL DEF Spec

\* When run() returns, what has no result was never in a curl_multi_perform.
THEOREM AskedAreAnswered == Spec => []OnlyUnaskedAreLost
<1>1. AskedKept => OnlyUnaskedAreLost
  BY DEF AskedKept, OnlyUnaskedAreLost
<1> QED BY <1>1, AlwaysAskedKept, PTL

-------------------------------------------------------------------------------
\* With no more keys than the limit nothing waits after the first loop, and
\* whatever is left when the loop ends was in a curl_multi_perform.
Few == Cardinality(added) <= parallel

FewStarted ==
    /\ Few /\ pc \in {"loop", "messages", "returned"} => pending_ = <<>>
    /\ Few /\ pc = "messages" => requests_ \subseteq asked
    /\ Few /\ pc = "loop" /\ is_running = 0 => requests_ \subseteq asked
    /\ Few /\ pc = "returned" => requests_ \subseteq asked

\* The first loop ends with an empty queue: the requests it started are fewer
\* than the keys as long as one waits.
LEMMA FewAllFilled ==
    ASSUME Placed, Few, pc = "filling", ~Fills
    PROVE  pending_ = <<>>
<1> SUFFICES ASSUME pending_ # <<>>
             PROVE  FALSE
  OBVIOUS
<1>1. pending_ \in Seq(Key) /\ requests_ \subseteq Key /\ added \subseteq Key
  BY DEF Placed, TypeOK
<1>2. Head(pending_) \in queued
  BY <1>1 DEF queued
<1>3. requests_ \subseteq added /\ requests_ # added
  BY <1>2 DEF Placed, EachKeyOnce
<1>4. IsFiniteSet(added) /\ IsFiniteSet(requests_)
  BY <1>1, FS_Subset, ConstantsAssumption
<1>5. Cardinality(added) \in Nat /\ Cardinality(requests_) \in Nat
  BY <1>4, FS_CardinalityType
<1>6. Cardinality(requests_) < Cardinality(added)
  BY <1>3, <1>4, <1>5, FS_Subset
<1> QED BY <1>5, <1>6, ConstantsAssumption DEF Few, Fills

LEMMA FewStartedStep ==
    Placed /\ AskedKept /\ FewStarted /\ [Next]_vars => FewStarted'
<1> SUFFICES ASSUME Placed, AskedKept, FewStarted, [Next]_vars
             PROVE  FewStarted'
  OBVIOUS
<1>1. ASSUME NEW k \in Key, add(k) PROVE FewStarted'
  BY <1>1 DEF FewStarted, add
<1>2. CASE run
  BY <1>2 DEF FewStarted, run
<1>3. CASE Fill
  <2>1. CASE Fills
    BY <1>3, <2>1 DEF FewStarted, Fill
  <2>2. CASE ~Fills
    <3>1. Few => pending_ = <<>>
      BY <1>3, <2>2, FewAllFilled DEF Fill
    <3>2. is_running = 1
      BY <1>3 DEF AskedKept, Fill
    <3> QED BY <1>3, <2>2, <3>1, <3>2 DEF FewStarted, Few, Fill
  <2> QED BY <2>1, <2>2
<1>4. CASE ReturnResults
  BY <1>4 DEF FewStarted, Few, ReturnResults, LoopEnds
<1>5. ASSUME NEW k \in Key, ReadMessage(k) PROVE FewStarted'
  BY <1>5 DEF FewStarted, Few, ReadMessage
<1>6. CASE Refill
  BY <1>6 DEF FewStarted, Few, Refill
<1>7. CASE NoHandle
  BY <1>7 DEF FewStarted, NoHandle
<1>8. ASSUME NEW D \in SUBSET requests_, Perform(D) PROVE FewStarted'
  BY <1>8 DEF FewStarted, Few, Perform
<1>9. CASE UNCHANGED vars
  BY <1>9 DEF FewStarted, Few, vars
<1> QED BY <1>1, <1>2, <1>3, <1>4, <1>5, <1>6, <1>7, <1>8, <1>9, StepCases

\* With at most `parallel' requests run() returns a result for each of them.
THEOREM NoneLostWithinTheLimit == Spec => []FewAreAnswered
<1>1. Init => FewStarted
  BY DEF Init, FewStarted
<1>2. ASSUME Placed, AskedKept, FewStarted
      PROVE  FewAreAnswered
  <2> SUFFICES ASSUME pc = "returned", Few
               PROVE  results = added
    BY DEF FewAreAnswered, Few
  <2>1. queued = {}
    <3>1. pending_ = <<>>
      BY <1>2 DEF FewStarted
    <3> QED BY <3>1 DEF queued
  <2>2. added = requests_ \cup results /\ requests_ \cap results = {}
    BY <1>2, <2>1 DEF Placed, EachKeyOnce
  <2>3. requests_ \subseteq asked /\ asked \subseteq results
    BY <1>2 DEF FewStarted, AskedKept
  <2> QED BY <2>2, <2>3
<1> QED BY <1>1, <1>2, FewStartedStep, AlwaysPlaced, AlwaysAskedKept, PTL DEF Spec

===============================================================================

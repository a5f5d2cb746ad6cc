--------------------------- MODULE InstallPlanProofs ---------------------------
(***************************************************************************)
(* Proofs about InstallPlan, for any finite set of packages, and about       *)
(* DockerBuild, whose image the planned installation is a layer of.        *)
(***************************************************************************)
EXTENDS InstallPlan, DockerBuild, FiniteSetTheorems, SequenceTheorems, TLAPS

-------------------------------------------------------------------------------
\* Appending to a sequence adds its last element and keeps the others.
LEMMA Push ==
    ASSUME NEW S, NEW s \in Seq(S), NEW e \in S
    PROVE  /\ Append(s, e) \in Seq(S)
           /\ Len(s) \in Nat
           /\ Len(Append(s, e)) = Len(s) + 1
           /\ Append(s, e)[Len(s) + 1] = e
           /\ \A i \in 1 .. Len(s) : Append(s, e)[i] = s[i]
  OBVIOUS

\* All but the last element of a sequence.
LEMMA Pop ==
    ASSUME NEW S, NEW s \in Seq(S), s # <<>>
    PROVE  /\ SubSeq(s, 1, Len(s) - 1) \in Seq(S)
           /\ Len(s) \in Nat \ {0}
           /\ Len(SubSeq(s, 1, Len(s) - 1)) = Len(s) - 1
           /\ s[Len(s)] \in S
           /\ \A i \in 1 .. Len(s) - 1 : SubSeq(s, 1, Len(s) - 1)[i] = s[i]
  <1>1. Len(s) \in Nat \ {0}
    BY EmptySeq
  <1>2. \A i \in 1 .. Len(s) : s[i] \in S
    BY ElementOfSeq
  <1>3. \A i \in 1 .. Len(s) - 1 : s[i] \in S
    BY <1>1, <1>2
  <1> DEFINE n == Len(s) - 1
  <1>4. n \in Nat /\ n + 1 = Len(s)
    BY <1>1
  <1> HIDE DEF n
  <1>5. /\ SubSeq(s, 1, n) \in Seq(S)
        /\ Len(SubSeq(s, 1, n)) = IF 1 <= n THEN n - 1 + 1 ELSE 0
        /\ \A i \in 1 .. n - 1 + 1 : SubSeq(s, 1, n)[i] = s[1 + i - 1]
    <2>1. \A i \in 1 .. n : s[i] \in S
      BY <1>3 DEF n
    <2> QED
      BY <1>4, <2>1, SubSeqProperties
  <1>6. /\ SubSeq(s, 1, n) \in Seq(S)
        /\ Len(SubSeq(s, 1, n)) = n
        /\ \A i \in 1 .. n : SubSeq(s, 1, n)[i] = s[i]
    BY <1>4, <1>5
  <1> QED
    BY <1>1, <1>2, <1>6 DEF n

\* The package of the innermost visit, and the calls below it.
LEMMA TopType ==
    ASSUME TypeOK, stack # <<>>
    PROVE  /\ top \in Pkg
           /\ Len(stack) \in Nat \ {0}
           /\ SubSeq(stack, 1, Len(stack) - 1) \in Seq(Pkg)
           /\ Len(SubSeq(stack, 1, Len(stack) - 1)) = Len(stack) - 1
           /\ \A i \in 1 .. Len(stack) - 1 :
                 SubSeq(stack, 1, Len(stack) - 1)[i] = stack[i]
  <1>1. stack \in Seq(Pkg)
    BY DEF TypeOK
  <1> QED
    BY <1>1, Pop DEF top

\* Every step keeps the types.
LEMMA TypeStep == TypeOK /\ [Next]_vars => TypeOK'
  <1> SUFFICES ASSUME TypeOK, [Next]_vars PROVE TypeOK'
    OBVIOUS
  <1> USE ConstantsAssumption DEF TypeOK, PCs, NoLevel, planned
  <1>1. CASE UNCHANGED vars
    BY <1>1 DEF vars, inputVars, planVars, scriptVars
  <1>2. CASE PlanStep
    <2>1. ASSUME NEW p \in Pkg, VisitWanted(p) \/ VisitDependency(p) PROVE TypeOK'
      <3>1. Append(stack, p) \in Seq(Pkg)
        BY Push
      <3> QED
        <4>1. /\ stack' \in Seq(Pkg)
              /\ in_stack' \subseteq Pkg
              /\ todo' \in [Pkg -> SUBSET Pkg]
              /\ level' \in [Pkg -> Nat]
              /\ UNCHANGED <<inputVars, pc, levels, max_level, scriptVars>>
          <5>1. Visit(p) /\ UNCHANGED <<inputVars, pc, levels, max_level, scriptVars>>
            BY <2>1 DEF VisitWanted, VisitDependency
          <5>2. stack' = Append(stack, p) /\ in_stack' = in_stack \cup {p}
            BY <5>1 DEF Visit
          <5>3. /\ todo' = [todo EXCEPT ![p] = deps[p]]
                /\ level' = [level EXCEPT ![p] = 0]
            BY <5>1 DEF Visit
          <5> QED
            BY <3>1, <5>1, <5>2, <5>3
        <4> QED
          BY <4>1 DEF inputVars, scriptVars
    <2>2. ASSUME NEW p \in Pkg, CycleDetected(p) PROVE TypeOK'
      BY <2>2 DEF CycleDetected, inputVars, planVars, scriptVars
    <2>3. ASSUME NEW p \in Pkg, CountDependency(p) PROVE TypeOK'
      <3>1. top \in Pkg /\ larger(level[top], levels[p] + 1) \in Nat
        BY <2>3, TopType DEF CountDependency, larger
      <3> QED
        BY <2>3, <3>1 DEF CountDependency, inputVars, scriptVars
    <2>4. CASE ReturnFromVisit
      <3>1. /\ top \in Pkg
            /\ larger(max_level, level[top]) \in Nat
            /\ SubSeq(stack, 1, Len(stack) - 1) \in Seq(Pkg)
        BY <2>4, TopType DEF ReturnFromVisit, larger
      <3> QED
        BY <2>4, <3>1 DEF ReturnFromVisit, inputVars, scriptVars
    <2>5. CASE PlanReady
      BY <2>5 DEF PlanReady, step, inputVars, planVars
    <2> QED
      BY <1>2, <2>1, <2>2, <2>3, <2>4, <2>5 DEF PlanStep
  <1>3. CASE ScriptStep
    BY <1>3 DEF ScriptStep, StartBatch, NextLevel, ScriptEnds, Wait, Verify, step,
       inputVars, planVars, scriptVars
  <1>4. ASSUME NEW p \in Pkg, JobStep(p) PROVE TypeOK'
    <2>1. /\ UNCHANGED <<inputVars, pc, planVars, current, left>>
          /\ job' \in [Pkg -> {"none", "running", "succeeded", "failed"}]
          /\ lib' \in [Pkg -> {"none", "expected", "other"}]
      <3>1. CASE JobFails(p)
        BY <3>1 DEF JobFails
      <3>2. ASSUME NEW v \in {"expected", "other"}, JobSucceeds(p, v)
            PROVE  /\ UNCHANGED <<inputVars, pc, planVars, current, left>>
                   /\ job' \in [Pkg -> {"none", "running", "succeeded", "failed"}]
                   /\ lib' \in [Pkg -> {"none", "expected", "other"}]
        BY <3>2 DEF JobSucceeds
      <3> QED
        BY <1>4, <3>1, <3>2 DEF JobStep
    <2> QED
      BY <2>1 DEF inputVars, planVars
  <1> QED
    BY <1>1, <1>2, <1>3, <1>4 DEF Next

\* The initial state is well typed.
LEMMA TypeInit == Init => TypeOK
  BY DEF Init, TypeOK, PCs, NoLevel

\* The variables keep their types, for any packages and any dependencies.
THEOREM InstallPlanTypeCorrect == Spec => []TypeOK
  BY TypeInit, TypeStep, PTL DEF Spec

-------------------------------------------------------------------------------
\* The set in_stack holds the packages of the open visits; nobody is visited
\* twice at a time.
StackAgrees ==
    /\ in_stack = {stack[i] : i \in 1 .. Len(stack)}
    /\ \A i, j \in 1 .. Len(stack) : stack[i] = stack[j] => i = j

\* A package that has a level is above all its dependencies, and one with an open
\* visit above those it has looked at.
LevelsRise ==
    /\ \A p \in Pkg : planned(p) =>
          \A d \in deps[p] : planned(d) /\ levels[d] < levels[p]
    /\ \A p \in in_stack :
          /\ ~planned(p)
          /\ \A d \in deps[p] \ todo[p] : planned(d) /\ levels[d] < level[p]

\* The packages asked for are in the plan, and no level is above max_level.
PlanIsComplete ==
    /\ pc \notin {"planning", "threw"} => \A p \in wanted : planned(p)
    /\ \A p \in Pkg : levels[p] <= max_level

PlanInv == TypeOK /\ StackAgrees /\ LevelsRise /\ PlanIsComplete

\* A call of dfs_visit for a package that has no level and no open visit.
LEMMA VisitAgrees ==
    ASSUME PlanInv, NEW p \in Pkg, p \notin in_stack, ~planned(p), Visit(p),
           UNCHANGED <<inputVars, pc, levels, max_level>>
    PROVE  StackAgrees' /\ LevelsRise' /\ PlanIsComplete'
  <1> USE DEF PlanInv, TypeOK
  <1>1. /\ Len(stack') = Len(stack) + 1
        /\ stack'[Len(stack) + 1] = p
        /\ \A i \in 1 .. Len(stack) : stack'[i] = stack[i]
        /\ Len(stack) \in Nat
    BY Push DEF Visit
  <1>2. in_stack' = {stack'[i] : i \in 1 .. Len(stack')}
    BY <1>1 DEF Visit, StackAgrees
  <1>3. ASSUME NEW i \in 1 .. Len(stack'), NEW j \in 1 .. Len(stack'), stack'[i] = stack'[j]
        PROVE  i = j
    <2>1. \A k \in 1 .. Len(stack) : stack[k] # p
      BY DEF StackAgrees
    <2>2. i \in 1 .. Len(stack) \/ i = Len(stack) + 1
      BY <1>1
    <2>3. j \in 1 .. Len(stack) \/ j = Len(stack) + 1
      BY <1>1
    <2> HIDE DEF PlanInv, TypeOK
    <2>4. CASE i \in 1 .. Len(stack) /\ j \in 1 .. Len(stack)
      BY <1>1, <1>3, <2>4 DEF StackAgrees, PlanInv
    <2> QED
      BY <1>1, <1>3, <2>1, <2>2, <2>3, <2>4
  <1>4. LevelsRise'
    BY DEF LevelsRise, Visit, inputVars, planned
  <1>5. PlanIsComplete'
    BY DEF PlanIsComplete, inputVars, planned
  <1> QED
    BY <1>2, <1>3, <1>4, <1>5 DEF StackAgrees

\* Every step keeps the invariant of the planning.
LEMMA PlanStepAgrees == PlanInv /\ [Next]_vars => PlanInv'
  <1> SUFFICES ASSUME PlanInv, [Next]_vars PROVE PlanInv'
    OBVIOUS
  <1>0. TypeOK'
    BY TypeStep DEF PlanInv
  <1>1. CASE /\ UNCHANGED <<inputVars, planVars>>
             /\ pc' = pc \/ pc' = "threw" \/ pc \notin {"planning", "threw"}
    <2>1. /\ UNCHANGED <<deps, wanted, stack, in_stack, todo, level, levels, max_level>>
          /\ pc' \notin {"planning", "threw"} => pc \notin {"planning", "threw"}
      BY <1>1 DEF inputVars, planVars
    <2>2. StackAgrees' /\ LevelsRise'
      BY <2>1 DEF PlanInv, StackAgrees, LevelsRise, planned
    <2>3. PlanIsComplete'
      BY <1>1, <2>1 DEF PlanInv, PlanIsComplete, planned
    <2> QED
      BY <1>0, <2>2, <2>3 DEF PlanInv
  <1>2. ASSUME NEW p \in Pkg, VisitWanted(p) PROVE PlanInv'
    <2>1. p \notin in_stack
      BY <1>2 DEF VisitWanted, PlanInv, StackAgrees
    <2> QED
      BY <1>0, <1>2, <2>1, VisitAgrees DEF VisitWanted, PlanInv
  <1>3. ASSUME NEW p \in Pkg, VisitDependency(p) PROVE PlanInv'
    BY <1>0, <1>3, VisitAgrees DEF VisitDependency, PlanInv
  <1>4. ASSUME NEW d \in Pkg, CountDependency(d) PROVE PlanInv'
    <2>1. top \in Pkg /\ top' = top
      BY <1>4, TopType DEF CountDependency, PlanInv, top
    <2>2. larger(level[top], levels[d] + 1) >= level[top]
          /\ larger(level[top], levels[d] + 1) > levels[d]
          /\ larger(level[top], levels[d] + 1) \in Nat
      BY <1>4, <2>1 DEF CountDependency, larger, PlanInv, TypeOK, planned, NoLevel
    <2>3. LevelsRise'
      BY <1>4, <2>1, <2>2
         DEF CountDependency, PlanInv, LevelsRise, inputVars, planned, TypeOK, NoLevel
    <2> QED
      BY <1>0, <1>4, <2>3
         DEF CountDependency, PlanInv, StackAgrees, PlanIsComplete, inputVars, planned
  <1>5. CASE ReturnFromVisit
    <2>1. /\ top \in in_stack
          /\ top \in Pkg
          /\ top = stack[Len(stack)]
      BY <1>5, TopType DEF ReturnFromVisit, PlanInv, StackAgrees, top
    <2>2. /\ levels' = [levels EXCEPT ![top] = level[top]]
          /\ in_stack' = in_stack \ {top}
          /\ todo[top] = {}
          /\ UNCHANGED <<inputVars, todo, level, pc>>
          /\ max_level' >= max_level
          /\ max_level' >= level[top]
          /\ max_level' \in Nat
      BY <1>5, <2>1 DEF ReturnFromVisit, larger, PlanInv, TypeOK
    <2>3. StackAgrees'
      <3>1. /\ stack' = SubSeq(stack, 1, Len(stack) - 1)
            /\ Len(stack') = Len(stack) - 1
            /\ \A i \in 1 .. Len(stack) - 1 : stack'[i] = stack[i]
            /\ Len(stack) \in Nat \ {0}
        BY <1>5, TopType DEF ReturnFromVisit, PlanInv
      <3>2. in_stack' = {stack'[i] : i \in 1 .. Len(stack')}
        BY <2>1, <2>2, <3>1 DEF PlanInv, StackAgrees
      <3>3. \A i \in 1 .. Len(stack') : i \in 1 .. Len(stack) /\ stack'[i] = stack[i]
        BY <3>1
      <3>4. \A i, j \in 1 .. Len(stack) : stack[i] = stack[j] => i = j
        BY DEF PlanInv, StackAgrees
      <3>5. \A i, j \in 1 .. Len(stack') : stack'[i] = stack'[j] => i = j
        BY <3>3, <3>4
      <3> QED
        BY <3>2, <3>5 DEF StackAgrees
    <2>4. LevelsRise'
      <3>1. \A d \in deps[top] : planned(d) /\ levels[d] < level[top] /\ d # top
        BY <2>1, <2>2 DEF PlanInv, LevelsRise
      <3>2. ~planned(top) /\ level[top] \in Nat
        BY <2>1 DEF PlanInv, LevelsRise, TypeOK
      <3> QED
        BY <2>1, <2>2, <3>1, <3>2 DEF PlanInv, LevelsRise, inputVars, planned, TypeOK, NoLevel
    <2>5. PlanIsComplete'
      <3>1. \A p \in Pkg : levels'[p] <= max_level'
        <4>1. \A p \in Pkg : /\ levels[p] <= max_level
                             /\ levels[p] \in Int
                             /\ levels'[p] = IF p = top THEN level[top] ELSE levels[p]
          BY <2>2 DEF PlanInv, PlanIsComplete, TypeOK, NoLevel
        <4>2. max_level \in Nat /\ level[top] \in Nat
          BY <2>1 DEF PlanInv, TypeOK
        <4> QED
          BY <2>2, <4>1, <4>2
      <3>2. pc' \notin {"planning", "threw"} => \A p \in wanted' : planned(p)'
        BY <1>5, <2>2 DEF ReturnFromVisit
      <3> QED
        BY <3>1, <3>2 DEF PlanIsComplete
    <2> QED
      BY <1>0, <2>3, <2>4, <2>5 DEF PlanInv
  <1>6. CASE PlanReady
    BY <1>0, <1>6
       DEF PlanReady, PlanInv, StackAgrees, LevelsRise, PlanIsComplete, inputVars, planVars,
           planned
  <1>7. ASSUME NEW d \in Pkg, CycleDetected(d) PROVE PlanInv'
    BY <1>1, <1>7 DEF CycleDetected
  <1>8. CASE ScriptStep \/ \E p \in Pkg : JobStep(p)
    BY <1>1, <1>8
       DEF ScriptStep, StartBatch, NextLevel, ScriptEnds, Wait, Verify, JobStep, JobSucceeds,
           JobFails
  <1>9. CASE UNCHANGED vars
    BY <1>1, <1>9 DEF vars
  <1> QED
    BY <1>2, <1>3, <1>4, <1>5, <1>6, <1>7, <1>8, <1>9 DEF Next, PlanStep

\* No package has a level, and no visit is open.
LEMMA PlanInit == Init => PlanInv
  <1> SUFFICES ASSUME Init PROVE PlanInv
    OBVIOUS
  <1>1. Len(stack) = 0
    BY DEF Init
  <1> QED
    BY <1>1, TypeInit
       DEF Init, PlanInv, StackAgrees, LevelsRise, PlanIsComplete, planned, NoLevel

\* The plan of get_installation_plan is closed under dependencies and has each
\* package above all it needs, for any dependency graph and any order of visits.
THEOREM PlanOrdered == Spec => []PlanIsOrdered
  <1>1. PlanInv => PlanIsOrdered
    BY DEF PlanInv, LevelsRise, PlanIsComplete, PlanIsOrdered
  <1> QED
    BY <1>1, PlanInit, PlanStepAgrees, PTL DEF Spec

-------------------------------------------------------------------------------
\* A package is one level above some dependency, and an open visit keeps the level
\* of some dependency it has counted.
LevelsTight ==
    /\ \A p \in Pkg : levels[p] > 0 => \E d \in deps[p] : levels[d] + 1 = levels[p]
    /\ \A p \in in_stack : level[p] > 0 =>
          \E d \in deps[p] : planned(d) /\ levels[d] + 1 = level[p]

\* max_level is the level of a package, once any has one.
MaxIsReached ==
    /\ wanted # {}
    /\ (\E p \in Pkg : planned(p)) => \E p \in Pkg : levels[p] = max_level
    /\ (\A p \in Pkg : ~planned(p)) => max_level = 0

\* The open visits are a path of dependencies.
StackIsPath ==
    /\ \A i \in 1 .. Len(stack) - 1 : stack[i + 1] \in deps[stack[i]]
    /\ \A p \in in_stack : todo[p] \subseteq deps[p]

ExactInv == PlanInv /\ LevelsTight /\ MaxIsReached /\ StackIsPath /\ CyclesAreReal

\* A call of dfs_visit for a package that is asked for or that top depends on.
LEMMA VisitExact ==
    ASSUME ExactInv, NEW p \in Pkg, p \notin in_stack, Visit(p),
           stack # <<>> => p \in deps[top],
           UNCHANGED <<inputVars, levels, max_level>>
    PROVE  LevelsTight' /\ MaxIsReached' /\ StackIsPath'
  <1> USE DEF ExactInv
  <1>1. TypeOK
    BY DEF PlanInv
  <1>2. UNCHANGED <<deps, wanted, levels, max_level>>
    BY DEF inputVars
  <1>3. /\ Len(stack') = Len(stack) + 1
        /\ stack'[Len(stack) + 1] = p
        /\ \A i \in 1 .. Len(stack) : stack'[i] = stack[i]
        /\ Len(stack) \in Nat
        /\ Len(stack) # 0 => stack # <<>>
    BY <1>1, Push, EmptySeq DEF Visit, TypeOK
  <1>4. /\ in_stack' = in_stack \cup {p}
        /\ in_stack \subseteq Pkg
        /\ todo' = [todo EXCEPT ![p] = deps[p]]
        /\ level' = [level EXCEPT ![p] = 0]
        /\ todo'[p] = deps[p] /\ level'[p] = 0
        /\ \A q \in in_stack : todo'[q] = todo[q] /\ level'[q] = level[q]
    BY <1>1 DEF Visit, TypeOK
  <1>5. LevelsTight'
    <2>1. \A q \in Pkg : levels'[q] > 0 => \E d \in deps'[q] : levels'[d] + 1 = levels'[q]
      BY <1>2 DEF LevelsTight
    <2>2. ASSUME NEW q \in in_stack', level'[q] > 0
          PROVE  \E d \in deps'[q] : planned(d)' /\ levels'[d] + 1 = level'[q]
      <3>1. q \in in_stack /\ level'[q] = level[q]
        BY <1>4, <2>2
      <3> QED
        BY <1>2, <2>2, <3>1 DEF LevelsTight, planned
    <2> QED
      BY <2>1, <2>2 DEF LevelsTight
  <1>6. MaxIsReached'
    BY <1>2 DEF MaxIsReached, planned
  <1>7. StackIsPath'
    <2>1. ASSUME NEW i \in 1 .. Len(stack') - 1 PROVE stack'[i + 1] \in deps'[stack'[i]]
      <3>1. CASE i = Len(stack)
        BY <1>2, <1>3, <2>1, <3>1 DEF top
      <3>2. CASE i # Len(stack)
        <4>1. i \in 1 .. Len(stack) - 1 /\ i + 1 \in 1 .. Len(stack) /\ i \in 1 .. Len(stack)
          BY <1>3, <2>1, <3>2
        <4> QED
          BY <1>2, <1>3, <4>1 DEF StackIsPath
      <3> QED
        BY <3>1, <3>2
    <2>2. \A q \in in_stack' : todo'[q] \subseteq deps'[q]
      BY <1>2, <1>4 DEF StackIsPath
    <2> QED
      BY <2>1, <2>2 DEF StackIsPath
  <1> QED
    BY <1>5, <1>6, <1>7

\* A dependency with an open visit closes a cycle of the packages above it.
LEMMA CycleIsReal ==
    ASSUME ExactInv, NEW d \in Pkg, CycleDetected(d)
    PROVE  \E S \in (SUBSET Pkg) \ {{}} : \A p \in S : deps[p] \cap S # {}
  <1>1. TypeOK /\ stack # <<>> /\ d \in todo[top] /\ d \in in_stack
    BY DEF CycleDetected, ExactInv, PlanInv
  <1>2. /\ Len(stack) \in Nat \ {0}
        /\ top = stack[Len(stack)]
        /\ \A i \in 1 .. Len(stack) : stack[i] \in Pkg
    BY <1>1, TopType, ElementOfSeq DEF top, TypeOK
  <1>3. PICK k \in 1 .. Len(stack) : stack[k] = d
    BY <1>1 DEF ExactInv, PlanInv, StackAgrees
  <1> DEFINE S == {stack[i] : i \in k .. Len(stack)}
  <1>4. S \in (SUBSET Pkg) \ {{}}
    BY <1>2, <1>3
  <1>5. ASSUME NEW p \in S PROVE deps[p] \cap S # {}
    <2>1. PICK i \in k .. Len(stack) : p = stack[i]
      BY <1>5
    <2>2. CASE i = Len(stack)
      <3>1. top \in in_stack
        BY <1>2 DEF ExactInv, PlanInv, StackAgrees
      <3>2. d \in deps[top]
        BY <1>1, <3>1 DEF ExactInv, StackIsPath
      <3> QED
        BY <1>2, <1>3, <2>1, <2>2, <3>2
    <2>3. CASE i # Len(stack)
      <3>1. i \in 1 .. Len(stack) - 1 /\ i + 1 \in k .. Len(stack)
        BY <1>2, <1>3, <2>1, <2>3
      <3>2. stack[i + 1] \in deps[p]
        BY <2>1, <3>1 DEF ExactInv, StackIsPath
      <3> QED
        BY <3>1, <3>2
    <2> QED
      BY <2>2, <2>3
  <1> QED
    BY <1>4, <1>5

\* Every step keeps the levels tight and the open visits a path.
LEMMA ExactStep == ExactInv /\ [Next]_vars => ExactInv'
  <1> SUFFICES ASSUME ExactInv, [Next]_vars PROVE ExactInv'
    OBVIOUS
  <1>1. PlanInv' /\ PlanInv /\ TypeOK
    BY PlanStepAgrees DEF ExactInv, PlanInv
  <1>2. ASSUME UNCHANGED <<inputVars, planVars>> PROVE LevelsTight' /\ MaxIsReached' /\ StackIsPath'
    BY <1>2 DEF inputVars, planVars, ExactInv, LevelsTight, MaxIsReached, StackIsPath, planned
  <1>3. ASSUME pc' = "planning" \/ pc' # "threw" \/ UNCHANGED <<deps, pc>>
        PROVE  CyclesAreReal'
    BY <1>3 DEF ExactInv, CyclesAreReal
  <1>4. ASSUME NEW p \in Pkg, VisitWanted(p) \/ VisitDependency(p) PROVE ExactInv'
    <2>1. /\ p \notin in_stack
          /\ Visit(p)
          /\ stack # <<>> => p \in todo[top]
          /\ pc' = "planning"
          /\ UNCHANGED <<inputVars, levels, max_level>>
      BY <1>1, <1>4 DEF VisitWanted, VisitDependency, PlanInv, StackAgrees
    <2>2. stack # <<>> => top \in in_stack
      BY <1>1, TopType DEF PlanInv, StackAgrees, top
    <2>3. stack # <<>> => p \in deps[top]
      BY <2>1, <2>2 DEF ExactInv, StackIsPath
    <2> QED
      BY <1>1, <1>3, <2>1, <2>3, VisitExact DEF ExactInv
  <1>5. ASSUME NEW c \in Pkg, CountDependency(c) PROVE ExactInv'
    <2>1. /\ top \in in_stack /\ top \in Pkg
          /\ c \in deps[top] /\ planned(c)
          /\ level' = [level EXCEPT ![top] = larger(@, levels[c] + 1)]
          /\ todo' = [todo EXCEPT ![top] = @ \ {c}]
          /\ pc' = "planning"
          /\ UNCHANGED <<deps, wanted, stack, in_stack, levels, max_level>>
      <3>1. top \in in_stack /\ top \in Pkg
        BY <1>1, <1>5, TopType DEF CountDependency, PlanInv, StackAgrees, top
      <3> QED
        BY <1>5, <3>1 DEF CountDependency, ExactInv, StackIsPath, inputVars
    <2>2. LevelsTight'
      <3>1. ASSUME NEW q \in in_stack, level'[q] > 0
            PROVE  \E d \in deps[q] : planned(d) /\ levels[d] + 1 = level'[q]
        <4>1. CASE q = top /\ level'[q] = levels[c] + 1
          BY <2>1, <4>1
        <4>2. CASE level'[q] = level[q]
          BY <3>1, <4>2 DEF ExactInv, LevelsTight
        <4>3. q \in Pkg
          BY <1>1 DEF TypeOK
        <4> QED
          BY <1>1, <2>1, <4>1, <4>2, <4>3 DEF larger, TypeOK
      <3> QED
        BY <2>1, <3>1 DEF ExactInv, LevelsTight, planned
    <2>3. MaxIsReached'
      BY <2>1 DEF ExactInv, MaxIsReached, planned
    <2>4. StackIsPath'
      <3>1. \A q \in in_stack : todo'[q] \subseteq todo[q]
        BY <1>1, <2>1 DEF TypeOK
      <3> QED
        BY <2>1, <3>1 DEF ExactInv, StackIsPath
    <2> QED
      BY <1>1, <1>3, <2>1, <2>2, <2>3, <2>4 DEF ExactInv
  <1>6. CASE ReturnFromVisit
    <2>1. /\ top \in in_stack /\ top \in Pkg
          /\ levels' = [levels EXCEPT ![top] = level[top]]
          /\ in_stack' = in_stack \ {top}
          /\ in_stack \subseteq Pkg
          /\ max_level' = larger(max_level, level[top])
          /\ pc' = "planning"
          /\ UNCHANGED <<deps, wanted, todo, level>>
          /\ levels \in [Pkg -> Nat \cup {NoLevel}] /\ level \in [Pkg -> Nat]
          /\ deps \in [Pkg -> SUBSET Pkg] /\ max_level \in Nat
      <3>1. top \in in_stack /\ top \in Pkg
        BY <1>1, <1>6, TopType DEF ReturnFromVisit, PlanInv, StackAgrees, top
      <3> QED
        BY <1>1, <1>6, <3>1 DEF ReturnFromVisit, inputVars, TypeOK
    <2>2. /\ levels'[top] = level[top] /\ level[top] \in Nat /\ ~planned(top)
          /\ \A d \in Pkg : planned(d) => d # top /\ levels'[d] = levels[d]
          /\ \A d \in Pkg : d # top => levels'[d] = levels[d]
      BY <1>1, <2>1 DEF PlanInv, LevelsRise
    <2>3. LevelsTight'
      <3>1. ASSUME NEW q \in Pkg, NEW n \in Nat,
                   \E d \in deps[q] : planned(d) /\ levels[d] + 1 = n
            PROVE  \E d \in deps[q] : planned(d)' /\ levels'[d] + 1 = n
        BY <2>1, <2>2, <3>1 DEF planned
      <3>2. ASSUME NEW q \in Pkg, levels'[q] > 0
            PROVE  \E d \in deps[q] : planned(d)' /\ levels'[d] + 1 = levels'[q]
        <4>1. CASE q = top
          <5>1. \E d \in deps[q] : planned(d) /\ levels[d] + 1 = level[q]
            BY <2>1, <2>2, <3>2, <4>1 DEF ExactInv, LevelsTight
          <5> QED
            BY <2>1, <2>2, <3>1, <4>1, <5>1
        <4>2. CASE q # top
          <5>1. levels'[q] = levels[q] /\ planned(q) /\ levels[q] \in Nat
            BY <2>1, <2>2, <3>2, <4>2 DEF planned, NoLevel
          <5>2. \E d \in deps[q] : levels[d] + 1 = levels[q]
            BY <3>2, <5>1 DEF ExactInv, LevelsTight
          <5>3. \A d \in deps[q] : planned(d)
            BY <1>1, <5>1 DEF PlanInv, LevelsRise
          <5> QED
            BY <3>1, <5>1, <5>2, <5>3
        <4> QED
          BY <4>1, <4>2
      <3>3. ASSUME NEW q \in in_stack', level'[q] > 0
            PROVE  \E d \in deps[q] : planned(d)' /\ levels'[d] + 1 = level'[q]
        <4>1. /\ q \in in_stack /\ q \in Pkg /\ level'[q] = level[q] /\ level[q] \in Nat
              /\ \E d \in deps[q] : planned(d) /\ levels[d] + 1 = level[q]
          BY <2>1, <3>3 DEF ExactInv, LevelsTight
        <4> QED
          BY <3>1, <4>1
      <3> QED
        BY <2>1, <3>2, <3>3 DEF LevelsTight
    <2>4. MaxIsReached'
      <3>1. \E p \in Pkg : planned(p)'
        BY <2>1, <2>2 DEF planned, NoLevel
      <3>2. \E p \in Pkg : levels'[p] = max_level'
        <4>1. CASE max_level' = level[top]
          BY <2>1, <2>2, <4>1
        <4>2. CASE max_level' # level[top]
          <5>1. max_level' = max_level /\ max_level # 0
            BY <2>1, <2>2, <4>2 DEF larger
          <5>2. PICK p \in Pkg : levels[p] = max_level
            BY <5>1 DEF ExactInv, MaxIsReached
          <5>3. planned(p)
            BY <2>1, <5>2 DEF planned, NoLevel
          <5> QED
            BY <2>2, <5>1, <5>2, <5>3
        <4> QED
          BY <4>1, <4>2
      <3> QED
        BY <2>1, <3>1, <3>2 DEF ExactInv, MaxIsReached
    <2>5. StackIsPath'
      <3>1. /\ Len(stack') = Len(stack) - 1
            /\ \A i \in 1 .. Len(stack) - 1 : stack'[i] = stack[i]
            /\ Len(stack) \in Nat \ {0}
        BY <1>1, <1>6, TopType DEF ReturnFromVisit
      <3>2. ASSUME NEW i \in 1 .. Len(stack') - 1 PROVE stack'[i + 1] \in deps[stack'[i]]
        <4>1. i \in 1 .. Len(stack) - 1 /\ i + 1 \in 1 .. Len(stack) - 1
          BY <3>1, <3>2
        <4> QED
          BY <3>1, <4>1 DEF ExactInv, StackIsPath
      <3> QED
        BY <2>1, <3>2 DEF ExactInv, StackIsPath
    <2> QED
      BY <1>1, <1>3, <2>1, <2>3, <2>4, <2>5 DEF ExactInv
  <1>7. ASSUME NEW d \in Pkg, CycleDetected(d) PROVE ExactInv'
    <2>1. CyclesAreReal'
      BY <1>7, CycleIsReal DEF CycleDetected, CyclesAreReal, inputVars
    <2> QED
      BY <1>1, <1>2, <1>7, <2>1 DEF CycleDetected, ExactInv
  <1>8. CASE PlanReady
    BY <1>1, <1>2, <1>3, <1>8 DEF PlanReady, ExactInv
  <1>9. CASE ScriptStep \/ \E p \in Pkg : JobStep(p)
    <2>1. UNCHANGED <<inputVars, planVars>> /\ pc' # "threw"
      BY <1>9 DEF ScriptStep, StartBatch, NextLevel, ScriptEnds, Wait, Verify, JobStep,
         JobSucceeds, JobFails
    <2> QED
      BY <1>1, <1>2, <1>3, <2>1 DEF ExactInv
  <1>10. CASE UNCHANGED vars
    BY <1>1, <1>2, <1>3, <1>10 DEF vars, inputVars, ExactInv
  <1> QED
    BY <1>4, <1>5, <1>6, <1>7, <1>8, <1>9, <1>10 DEF Next, PlanStep

\* Before the first visit the levels are tight in the absence of any.
LEMMA ExactInit == Init => ExactInv
  <1> SUFFICES ASSUME Init PROVE ExactInv
    OBVIOUS
  <1>1. Len(stack) = 0 /\ in_stack = {} /\ pc # "threw"
    BY DEF Init
  <1>2. \A p \in Pkg : levels[p] = NoLevel
    BY DEF Init
  <1>3. wanted # {} /\ max_level = 0
    BY DEF Init
  <1>4. LevelsTight
    BY <1>1, <1>2 DEF LevelsTight, NoLevel
  <1>5. MaxIsReached
    BY <1>2, <1>3 DEF MaxIsReached, planned
  <1>6. StackIsPath
    BY <1>1 DEF StackIsPath
  <1> QED
    BY <1>1, <1>4, <1>5, <1>6, PlanInit DEF ExactInv, CyclesAreReal

\* No package waits for more levels than its longest chain of dependencies has, the
\* last level is not empty, and get_installation_plan refuses cyclic dependencies
\* only: for any dependency graph and any order of visits.
THEOREM PlanExact == Spec => []PlanIsExact
  <1>1. ExactInv => PlanIsExact
    <2> SUFFICES ASSUME ExactInv, pc \notin {"planning", "threw"} PROVE PlanIsTight
      BY DEF PlanIsExact, PlanIsTight, ExactInv
    <2>1. PICK w \in wanted : planned(w)
      BY DEF ExactInv, MaxIsReached, PlanInv, PlanIsComplete
    <2>2. w \in Pkg
      BY DEF ExactInv, PlanInv, TypeOK
    <2> QED
      BY <2>1, <2>2 DEF ExactInv, LevelsTight, MaxIsReached, PlanIsTight
  <1> QED
    BY <1>1, ExactInit, ExactStep, PTL DEF Spec

-------------------------------------------------------------------------------
running == {p \in Pkg : job[p] = "running"}
planning == pc \in {"planning", "threw"}

\* Jobs run between system() and wait only, for packages of the current level,
\* and there are no more of them than the limit.
JobsOfLevel ==
    /\ planning => \A p \in Pkg : job[p] = "none"
    /\ \A p \in Pkg : job[p] = "running" => pc = "jobs" /\ planned(p) /\ levels[p] = current
    /\ Cardinality(running) <= MaxParallel

\* What comes with R is there, and so is what is planned on a lower level.
LibraryGrows ==
    /\ \A p \in base : lib[p] # "none"
    /\ ~planning => \A p \in Pkg : planned(p) /\ levels[p] < current => lib[p] # "none"

\* The packages of the current level that are not left have had a job; before
\* the next batch starts they are there.
LevelInHand ==
    /\ pc \in {"batch", "jobs", "verify"} =>
         /\ left \subseteq step(current)
         /\ \A p \in step(current) \ left : job[p] # "none"
    /\ pc = "batch" => \A p \in step(current) \ left : lib[p] # "none"
    /\ pc = "installed" => \A p \in Pkg : planned(p) => lib[p] # "none"

ScriptAgrees == JobsOfLevel /\ LibraryGrows /\ LevelInHand
ScriptInv == PlanInv /\ ScriptAgrees

\* A part of the running jobs is within the limit as well.
LEMMA FewerJobs ==
    ASSUME TypeOK, JobsOfLevel, NEW S, S \subseteq running
    PROVE  Cardinality(S) <= MaxParallel
  <1>1. IsFiniteSet(running)
    BY ConstantsAssumption, FS_Subset DEF running
  <1>2. /\ IsFiniteSet(S)
        /\ Cardinality(S) <= Cardinality(running)
    BY <1>1, FS_Subset
  <1>3. Cardinality(S) \in Nat /\ Cardinality(running) \in Nat
    BY <1>1, <1>2, FS_CardinalityType
  <1> QED
    BY <1>2, <1>3, ConstantsAssumption DEF JobsOfLevel

\* No jobs at all are within the limit.
LEMMA NoJobs ==
    Cardinality({}) <= MaxParallel
  BY FS_EmptySet, ConstantsAssumption

\* The planning starts no job and installs nothing.
LEMMA PlanningKeepsScript ==
    ASSUME ScriptInv, planning, planning', UNCHANGED <<inputVars, scriptVars>>
    PROVE  ScriptAgrees'
  <1>1. UNCHANGED <<base, job, lib>>
    BY DEF inputVars, scriptVars
  <1>2. pc' \notin {"batch", "jobs", "verify", "installed"}
    BY DEF planning
  <1>3. \A p \in Pkg : job'[p] = "none"
    BY <1>1 DEF ScriptInv, ScriptAgrees, JobsOfLevel
  <1>4. JobsOfLevel'
    <2>1. running' = {}
      BY <1>3 DEF running
    <2>2. Cardinality(running') <= MaxParallel
      BY <2>1, NoJobs
    <2> QED
      BY <1>3, <2>2 DEF JobsOfLevel
  <1>5. LibraryGrows'
    BY <1>1 DEF ScriptInv, ScriptAgrees, LibraryGrows
  <1>6. LevelInHand'
    BY <1>2 DEF LevelInHand
  <1> QED
    BY <1>4, <1>5, <1>6 DEF ScriptAgrees

\* The first level is in hand when the plan is ready.
LEMMA ReadyAgrees ==
    ASSUME ScriptInv, PlanReady
    PROVE  ScriptAgrees'
  <1> USE DEF ScriptInv, ScriptAgrees
  <1>1. /\ UNCHANGED <<base, levels, job, lib>>
        /\ pc' = "batch"
        /\ current' = 0
        /\ left' = step(0)
        /\ planning
    BY DEF PlanReady, inputVars, planVars, planning
  <1>2. \A p \in Pkg : job'[p] = "none"
    BY <1>1 DEF JobsOfLevel
  <1>3. running' = {}
    BY <1>2 DEF running
  <1>4. JobsOfLevel'
    <2>1. Cardinality(running') <= MaxParallel
      BY <1>3, NoJobs
    <2> QED
      BY <1>2, <2>1 DEF JobsOfLevel
  <1>5. LibraryGrows'
    BY <1>1 DEF LibraryGrows, PlanInv, TypeOK, planned, NoLevel
  <1>6. LevelInHand'
    BY <1>1 DEF LevelInHand, step
  <1> QED
    BY <1>4, <1>5, <1>6

\* A batch is a part of what is left, and no larger than the limit.
LEMMA BatchAgrees ==
    ASSUME ScriptInv, NEW B \in SUBSET Pkg, StartBatch(B)
    PROVE  ScriptAgrees'
  <1> USE DEF ScriptInv, ScriptAgrees
  <1>1. /\ UNCHANGED <<base, levels, current, lib>>
        /\ pc = "batch" /\ pc' = "jobs"
        /\ B \subseteq left
        /\ left' = left \ B
        /\ job' = [p \in Pkg |-> IF p \in B THEN "running" ELSE job[p]]
    BY DEF StartBatch, IsBatch, inputVars, planVars
  <1>2. /\ left \subseteq step(current)
        /\ \A p \in Pkg : job[p] # "running"
    BY <1>1 DEF LevelInHand, JobsOfLevel
  <1>3. running' = B
    BY <1>1, <1>2 DEF running
  <1>4. Cardinality(B) <= MaxParallel
    <2>1. IsFiniteSet(left)
      BY ConstantsAssumption, FS_Subset DEF PlanInv, TypeOK
    <2>2. Cardinality(left) \in Nat
      BY <2>1, FS_CardinalityType
    <2> QED
      BY <2>2, ConstantsAssumption DEF StartBatch, IsBatch, smaller
  <1>5. \A p \in B : planned(p) /\ levels[p] = current
    BY <1>1, <1>2 DEF step, planned, PlanInv, TypeOK, NoLevel
  <1>6. JobsOfLevel'
    <2>1. ~planning'
      BY <1>1 DEF planning
    <2>2. \A p \in Pkg : job'[p] = "running" => pc' = "jobs" /\ planned(p)' /\ levels'[p] = current'
      BY <1>1, <1>2, <1>5 DEF planned
    <2> QED
      BY <1>3, <1>4, <2>1, <2>2 DEF JobsOfLevel
  <1>7. LibraryGrows'
    BY <1>1 DEF LibraryGrows, planning, planned
  <1>8. LevelInHand'
    <2>1. step(current)' = step(current)
      BY <1>1 DEF step
    <2>2. \A p \in step(current) \ left' : job'[p] # "none"
      BY <1>1 DEF LevelInHand, step
    <2> QED
      BY <1>1, <1>2, <2>1, <2>2 DEF LevelInHand
  <1> QED
    BY <1>6, <1>7, <1>8

\* The script goes to the next level when all packages of this one are there.
LEMMA NextLevelAgrees ==
    ASSUME ScriptInv, NextLevel
    PROVE  ScriptAgrees'
  <1> USE DEF ScriptInv, ScriptAgrees
  <1>1. /\ UNCHANGED <<base, levels, job, lib>>
        /\ pc = "batch" /\ pc' = "batch"
        /\ left = {}
        /\ current' = current + 1
        /\ left' = step(current')
    BY DEF NextLevel, inputVars, planVars
  <1>2. \A p \in Pkg : job[p] # "running"
    BY <1>1 DEF JobsOfLevel
  <1>3. JobsOfLevel'
    <2>1. running' = {}
      BY <1>1, <1>2 DEF running
    <2> QED
      BY <1>1, <1>2, <2>1, NoJobs DEF JobsOfLevel, planning
  <1>4. LibraryGrows'
    <2>1. \A p \in Pkg : planned(p) /\ levels[p] = current => lib[p] # "none"
      BY <1>1 DEF LevelInHand, LibraryGrows, step
    <2>2. \A p \in Pkg : levels[p] \in Int /\ current \in Nat
      BY DEF PlanInv, TypeOK, NoLevel
    <2> QED
      BY <1>1, <2>1, <2>2 DEF LibraryGrows, planning, planned
  <1>5. LevelInHand'
    <2>1. left' = step(current)'
      BY <1>1 DEF step
    <2> QED
      BY <1>1, <2>1 DEF LevelInHand
  <1> QED
    BY <1>3, <1>4, <1>5

\* After the last level every package of the plan is there.
LEMMA EndAgrees ==
    ASSUME ScriptInv, ScriptEnds
    PROVE  ScriptAgrees'
  <1> USE DEF ScriptInv, ScriptAgrees
  <1>1. /\ UNCHANGED <<base, levels, current, left, job, lib>>
        /\ pc = "batch" /\ pc' = "installed"
        /\ left = {}
        /\ current = max_level
    BY DEF ScriptEnds, inputVars, planVars, scriptVars
  <1>2. JobsOfLevel'
    BY <1>1 DEF JobsOfLevel, running, planning
  <1>3. LibraryGrows'
    BY <1>1 DEF LibraryGrows, planning, planned
  <1>4. \A p \in Pkg : planned(p) => lib[p] # "none"
    <2>1. \A p \in Pkg : levels[p] \in Int /\ levels[p] <= current /\ current \in Nat
      BY <1>1 DEF PlanInv, PlanIsComplete, TypeOK, NoLevel
    <2>2. \A p \in Pkg : planned(p) /\ levels[p] = current => lib[p] # "none"
      BY <1>1 DEF LevelInHand, LibraryGrows, step
    <2>3. \A p \in Pkg : planned(p) /\ levels[p] < current => lib[p] # "none"
      BY <1>1 DEF LibraryGrows, planning
    <2> QED
      BY <2>1, <2>2, <2>3
  <1>5. LevelInHand'
    BY <1>1, <1>4 DEF LevelInHand, planned
  <1> QED
    BY <1>2, <1>3, <1>5

\* A batch is over when none of its jobs runs.
LEMMA WaitAgrees ==
    ASSUME ScriptInv, Wait
    PROVE  ScriptAgrees'
  <1> USE DEF ScriptInv, ScriptAgrees
  <1>1. /\ UNCHANGED <<base, levels, current, left, job, lib>>
        /\ pc = "jobs" /\ pc' = "verify"
        /\ \A p \in Pkg : job[p] # "running"
    BY DEF Wait, inputVars, planVars, scriptVars
  <1>2. JobsOfLevel'
    BY <1>1 DEF JobsOfLevel, running, planning
  <1>3. LibraryGrows'
    BY <1>1 DEF LibraryGrows, planning, planned
  <1>4. LevelInHand'
    BY <1>1 DEF LevelInHand, step
  <1> QED
    BY <1>2, <1>3, <1>4

\* The script goes on only if all packages of the batch are there.
LEMMA VerifyAgrees ==
    ASSUME ScriptInv, Verify
    PROVE  ScriptAgrees'
  <1> USE DEF ScriptInv, ScriptAgrees
  <1>1. /\ UNCHANGED <<base, levels, current, left, job, lib>>
        /\ pc = "verify" /\ pc' \in {"failed", "batch"}
        /\ pc' = "batch" => \A p \in batch : lib[p] # "none"
    BY DEF Verify, inputVars, planVars, scriptVars
  <1>2. JobsOfLevel'
    BY <1>1 DEF JobsOfLevel, running, planning
  <1>3. LibraryGrows'
    BY <1>1 DEF LibraryGrows, planning, planned
  <1>4. LevelInHand'
    <2>1. \A p \in step(current) \ left : p \in batch
      BY <1>1 DEF LevelInHand, step, batch
    <2> QED
      BY <1>1, <2>1 DEF LevelInHand, step
  <1> QED
    BY <1>2, <1>3, <1>4

\* A job ends; what was in the library stays there.
LEMMA JobAgrees ==
    ASSUME ScriptInv, NEW q \in Pkg, JobStep(q)
    PROVE  ScriptAgrees'
  <1> USE DEF ScriptInv, ScriptAgrees
  <1>1. /\ UNCHANGED <<base, levels, pc, current, left>>
        /\ pc = "jobs"
        /\ job[q] = "running"
        /\ job'[q] \in {"succeeded", "failed"}
        /\ \A p \in Pkg \ {q} : job'[p] = job[p]
        /\ \A p \in Pkg : lib[p] # "none" => lib'[p] # "none"
    <2>1. CASE JobFails(q)
      BY <2>1 DEF JobFails, inputVars, planVars, PlanInv, TypeOK
    <2>2. ASSUME NEW v \in {"expected", "other"}, JobSucceeds(q, v)
          PROVE  <1>1!:
      BY <2>2 DEF JobSucceeds, inputVars, planVars, PlanInv, TypeOK
    <2> QED
      BY <2>1, <2>2 DEF JobStep
  <1>2. JobsOfLevel'
    <2>1. running' \subseteq running
      BY <1>1 DEF running
    <2>2. Cardinality(running') <= MaxParallel
      BY <2>1, FewerJobs DEF PlanInv
    <2> QED
      BY <1>1, <2>2 DEF JobsOfLevel, planning, planned
  <1>3. LibraryGrows'
    BY <1>1 DEF LibraryGrows, planning, planned, PlanInv, TypeOK
  <1>4. LevelInHand'
    BY <1>1 DEF LevelInHand, step
  <1> QED
    BY <1>2, <1>3, <1>4

\* Every step keeps the invariant of the script.
LEMMA ScriptStepAgrees == ScriptInv /\ [Next]_vars => ScriptInv'
  <1> SUFFICES ASSUME ScriptInv, [Next]_vars PROVE ScriptInv'
    OBVIOUS
  <1>1. PlanInv'
    BY PlanStepAgrees DEF ScriptInv
  <1>2. CASE UNCHANGED vars
    BY <1>1, <1>2
       DEF ScriptInv, ScriptAgrees, JobsOfLevel, LibraryGrows, LevelInHand, running, planning,
           planned, step, vars, inputVars, planVars, scriptVars
  <1>3. CASE PlanStep
    <2>1. CASE PlanReady
      BY <1>1, <2>1, ReadyAgrees DEF ScriptInv
    <2>2. CASE ReturnFromVisit \/ \E p \in Pkg : \/ VisitWanted(p)
                                                 \/ CycleDetected(p)
                                                 \/ VisitDependency(p)
                                                 \/ CountDependency(p)
      <3>1. planning /\ planning' /\ UNCHANGED <<inputVars, scriptVars>>
        BY <2>2 DEF ReturnFromVisit, VisitWanted, CycleDetected, VisitDependency,
           CountDependency, planning
      <3> QED
        BY <1>1, <3>1, PlanningKeepsScript DEF ScriptInv
    <2> QED
      BY <1>1, <1>3, <2>1, <2>2 DEF PlanStep, ScriptInv
  <1>4. CASE ScriptStep
    BY <1>1, <1>4, BatchAgrees, NextLevelAgrees, EndAgrees, WaitAgrees, VerifyAgrees
       DEF ScriptStep, ScriptInv
  <1>5. ASSUME NEW p \in Pkg, JobStep(p) PROVE ScriptInv'
    BY <1>1, <1>5, JobAgrees DEF ScriptInv
  <1> QED
    BY <1>2, <1>3, <1>4, <1>5 DEF Next

\* Nothing runs, and only what comes with R is sure to be there.
LEMMA ScriptInit == Init => ScriptInv
  <1> SUFFICES ASSUME Init PROVE ScriptInv
    OBVIOUS
  <1>1. running = {} /\ planning
    BY DEF Init, running, planning
  <1>2. Cardinality(running) <= MaxParallel
    BY <1>1, NoJobs
  <1>3. JobsOfLevel
    BY <1>2 DEF Init, JobsOfLevel
  <1>4. LibraryGrows
    BY <1>1 DEF Init, LibraryGrows
  <1>5. LevelInHand
    BY DEF Init, LevelInHand
  <1> QED
    BY <1>3, <1>4, <1>5, PlanInit DEF ScriptInv, ScriptAgrees

\* Every job finds what its package needs in the library, and no more jobs run
\* than max_parallel, whatever the dependencies are and however jobs end.
THEOREM JobsAreReady == Spec => []JobsFindDependencies
  <1>1. ScriptInv => JobsFindDependencies
    <2> SUFFICES ASSUME ScriptInv PROVE JobsFindDependencies
      OBVIOUS
    <2> USE DEF ScriptInv, ScriptAgrees
    <2>1. Cardinality({p \in Pkg : job[p] = "running"}) <= MaxParallel
      BY DEF JobsOfLevel, running
    <2>2. ASSUME NEW p \in Pkg, job[p] = "running", NEW d \in deps[p]
          PROVE  lib[d] # "none"
      <3>1. d \in Pkg
        BY DEF PlanInv, TypeOK
      <3>2. ~planning /\ planned(p) /\ levels[p] = current
        BY <2>2 DEF JobsOfLevel, planning
      <3>3. planned(d) /\ levels[d] < current
        BY <2>2, <3>2 DEF PlanInv, LevelsRise
      <3> QED
        BY <3>1, <3>2, <3>3 DEF LibraryGrows
    <2> QED
      BY <2>1, <2>2 DEF JobsFindDependencies
  <1> QED
    BY <1>1, ScriptInit, ScriptStepAgrees, PTL DEF Spec

\* When the script says so, all packages of the plan are in the image.
THEOREM AllInstalled == Spec => []InstalledIsThere
  <1>1. ScriptInv => InstalledIsThere
    BY DEF ScriptInv, ScriptAgrees, LevelInHand, InstalledIsThere
  <1> QED
    BY <1>1, ScriptInit, ScriptStepAgrees, PTL DEF Spec

-------------------------------------------------------------------------------
(***************************************************************************)
(* Why the planning and the script end: each step leaves less to do.       *)
(***************************************************************************)
\* The packages dfs_visit has not come to, and the dependencies it has not looked at.
Unvisited == {p \in Pkg : ~planned(p) /\ p \notin in_stack}
Unseen ==
    {e \in Pkg \X Pkg : \/ e[1] \in Unvisited /\ e[2] \in deps[e[1]]
                        \/ e[1] \in in_stack /\ e[2] \in todo[e[1]]}

PlanLeft == 2 * Cardinality(Unvisited) + Cardinality(in_stack) + Cardinality(Unseen)

\* The packages without a job, the running jobs, the levels above the current one, and
\* what is left of a round of the script.
Jobless == {p \in Pkg : job[p] = "none"}
Phase == CASE pc = "jobs" -> 3 [] pc = "verify" -> 2 [] pc = "batch" -> 1 [] OTHER -> 0
ScriptLeft == 4 * Cardinality(Jobless) + Cardinality(running) + (max_level - current) + Phase

\* No package gets a second job, and the script does not pass the last level.
JobsBehind ==
    /\ current <= max_level
    /\ ~planning => \A p \in Pkg : job[p] # "none" => levels[p] <= current /\ p \notin left

LEMMA JobsBehindStep == ScriptInv /\ JobsBehind /\ [Next]_vars => JobsBehind'
  <1> SUFFICES ASSUME ScriptInv, JobsBehind, [Next]_vars PROVE JobsBehind'
    OBVIOUS
  <1>1. TypeOK /\ TypeOK'
    BY TypeStep DEF ScriptInv, PlanInv
  <1> USE DEF JobsBehind, planning
  <1>2. CASE UNCHANGED vars
    BY <1>2 DEF vars, planVars, scriptVars
  <1>3. ASSUME NEW p \in Pkg, \/ VisitWanted(p) \/ CycleDetected(p) \/ VisitDependency(p)
                              \/ CountDependency(p)
        PROVE  JobsBehind'
    BY <1>3
       DEF VisitWanted, CycleDetected, VisitDependency, CountDependency, planVars, scriptVars
  <1>4. CASE ReturnFromVisit
    <2>1. top \in Pkg /\ level[top] \in Nat
      BY <1>1, <1>4, TopType DEF ReturnFromVisit, TypeOK
    <2>2. max_level' >= max_level
      BY <1>1, <1>4, <2>1 DEF ReturnFromVisit, larger, TypeOK
    <2> QED
      BY <1>1, <1>4, <2>2 DEF ReturnFromVisit, scriptVars, TypeOK
  <1>5. CASE PlanReady
    <2>1. current' = 0 /\ UNCHANGED <<max_level, job>> /\ pc = "planning"
      BY <1>5 DEF PlanReady, planVars
    <2>2. \A p \in Pkg : job[p] = "none"
      BY <2>1 DEF ScriptInv, ScriptAgrees, JobsOfLevel
    <2> QED
      BY <1>1, <2>1, <2>2 DEF TypeOK
  <1>6. ASSUME NEW B \in SUBSET Pkg, StartBatch(B) PROVE JobsBehind'
    <2>1. /\ pc = "batch" /\ pc' = "jobs" /\ left' = left \ B /\ B \subseteq left
          /\ \A p \in Pkg : job'[p] = IF p \in B THEN "running" ELSE job[p]
          /\ UNCHANGED <<current, levels, max_level>>
      BY <1>6 DEF StartBatch, IsBatch, planVars
    <2>2. \A p \in B : levels[p] = current
      BY <2>1 DEF ScriptInv, ScriptAgrees, LevelInHand, step
    <2> QED
      BY <1>1, <2>1, <2>2 DEF TypeOK
  <1>7. CASE NextLevel
    <2>1. /\ pc = "batch" /\ current < max_level /\ current' = current + 1
          /\ left' = step(current + 1)
          /\ UNCHANGED <<job, levels, max_level>>
      BY <1>7 DEF NextLevel, planVars
    <2>2. \A p \in Pkg : job[p] # "none" => levels[p] <= current /\ levels[p] # current + 1
      BY <1>1, <2>1 DEF TypeOK, NoLevel
    <2>3. \A p \in Pkg : job'[p] # "none" => levels'[p] <= current' /\ p \notin left'
      <3> SUFFICES ASSUME NEW p \in Pkg, job[p] # "none"
                   PROVE  levels[p] <= current + 1 /\ p \notin step(current + 1)
        BY <2>1
      <3>1. levels[p] \in Int /\ current \in Int
        BY <1>1 DEF TypeOK, NoLevel
      <3> QED
        BY <2>2, <3>1 DEF step
    <2>4. current' <= max_level'
      BY <1>1, <2>1 DEF TypeOK
    <2> QED
      BY <2>3, <2>4
  <1>8. CASE ScriptEnds \/ Wait \/ Verify
    BY <1>8 DEF ScriptEnds, Wait, Verify, planVars, scriptVars
  <1>9. ASSUME NEW p \in Pkg, JobStep(p) PROVE JobsBehind'
    BY <1>1, <1>9 DEF JobStep, JobFails, JobSucceeds, planVars, TypeOK
  <1> QED
    BY <1>2, <1>3, <1>4, <1>5, <1>6, <1>7, <1>8, <1>9 DEF Next, PlanStep, ScriptStep

LEMMA JobsBehindInit == Init => JobsBehind
  BY DEF Init, JobsBehind, planning

\* What is left is a number.
LEMMA LeftType ==
    ASSUME TypeOK, current <= max_level
    PROVE  /\ IsFiniteSet(Unvisited) /\ Cardinality(Unvisited) \in Nat
           /\ IsFiniteSet(in_stack) /\ Cardinality(in_stack) \in Nat
           /\ IsFiniteSet(Unseen) /\ Cardinality(Unseen) \in Nat
           /\ IsFiniteSet(Jobless) /\ Cardinality(Jobless) \in Nat
           /\ IsFiniteSet(running) /\ Cardinality(running) \in Nat
           /\ Phase \in Nat /\ max_level - current \in Nat
           /\ PlanLeft \in Nat /\ ScriptLeft \in Nat
  <1>1. IsFiniteSet(Pkg) /\ IsFiniteSet(Pkg \X Pkg)
    BY ConstantsAssumption, FS_Product
  <1>2. ASSUME NEW S, NEW T, S \subseteq T, IsFiniteSet(T)
        PROVE  IsFiniteSet(S) /\ Cardinality(S) \in Nat
    BY <1>2, FS_Subset, FS_CardinalityType
  <1>3. /\ Unvisited \subseteq Pkg /\ in_stack \subseteq Pkg /\ Unseen \subseteq Pkg \X Pkg
        /\ Jobless \subseteq Pkg /\ running \subseteq Pkg
    BY DEF TypeOK, Unvisited, Unseen, Jobless, running
  <1>4. /\ IsFiniteSet(Unvisited) /\ Cardinality(Unvisited) \in Nat
        /\ IsFiniteSet(in_stack) /\ Cardinality(in_stack) \in Nat
        /\ IsFiniteSet(Unseen) /\ Cardinality(Unseen) \in Nat
        /\ IsFiniteSet(Jobless) /\ Cardinality(Jobless) \in Nat
        /\ IsFiniteSet(running) /\ Cardinality(running) \in Nat
    BY <1>1, <1>2, <1>3
  <1>5. Phase \in Nat /\ max_level - current \in Nat
    BY DEF TypeOK, Phase
  <1> QED
    BY <1>4, <1>5 DEF PlanLeft, ScriptLeft

\* A call of dfs_visit takes a package from the unvisited ones, with its dependencies.
LEMMA VisitLeavesLess ==
    ASSUME TypeOK, TypeOK', current <= max_level, NEW p \in Pkg, p \notin in_stack,
           ~planned(p), Visit(p), UNCHANGED <<deps, levels>>
    PROVE  PlanLeft' < PlanLeft
  <1>1. /\ in_stack' = in_stack \cup {p}
        /\ \A q \in Pkg : todo'[q] = IF q = p THEN deps[p] ELSE todo[q]
    BY DEF Visit, TypeOK
  <1>2. Unvisited' = Unvisited \ {p} /\ p \in Unvisited
    BY <1>1 DEF Unvisited, planned
  <1>3. Unseen' = Unseen
    <2>1. ASSUME NEW e \in Pkg \X Pkg
          PROVE  (\/ e[1] \in Unvisited' /\ e[2] \in deps[e[1]]
                  \/ e[1] \in in_stack' /\ e[2] \in todo'[e[1]])
                 <=> (\/ e[1] \in Unvisited /\ e[2] \in deps[e[1]]
                      \/ e[1] \in in_stack /\ e[2] \in todo[e[1]])
      <3>1. e[1] \in Pkg
        OBVIOUS
      <3>2. CASE e[1] = p
        BY <1>1, <1>2, <3>2
      <3>3. CASE e[1] # p
        BY <1>1, <1>2, <3>1, <3>3
      <3> QED
        BY <3>2, <3>3
    <2> QED
      BY <2>1 DEF Unseen
  <1>4. /\ IsFiniteSet(Unvisited) /\ Cardinality(Unvisited) \in Nat
        /\ IsFiniteSet(in_stack) /\ Cardinality(in_stack) \in Nat
        /\ Cardinality(Unseen) \in Nat
    BY LeftType
  <1>5. Cardinality(Unvisited') = Cardinality(Unvisited) - 1
    BY <1>2, <1>4, FS_RemoveElement
  <1>6. Cardinality(in_stack') = Cardinality(in_stack) + 1
    BY <1>1, <1>4, FS_AddElement
  <1> QED
    BY <1>3, <1>4, <1>5, <1>6 DEF PlanLeft

\* Every step of the planning leaves less of it, or ends it.
LEMMA PlanLeavesLess ==
    ASSUME PlanInv, TypeOK', current <= max_level, PlanStep
    PROVE  pc = "planning" /\ (pc' # "planning" \/ PlanLeft' < PlanLeft)
  <1>1. TypeOK /\ StackAgrees
    BY DEF PlanInv
  <1>2. /\ IsFiniteSet(in_stack) /\ Cardinality(in_stack) \in Nat
        /\ IsFiniteSet(Unseen) /\ Cardinality(Unseen) \in Nat
        /\ Cardinality(Unvisited) \in Nat
    BY <1>1, LeftType
  <1>3. ASSUME NEW p \in Pkg, VisitWanted(p) PROVE PlanLeft' < PlanLeft
    <2>1. stack = <<>>
      BY <1>3 DEF VisitWanted
    <2>2. p \notin in_stack
      BY <1>1, <2>1 DEF StackAgrees
    <2> QED
      BY <1>1, <1>3, <2>2, VisitLeavesLess DEF VisitWanted, inputVars
  <1>4. ASSUME NEW p \in Pkg, VisitDependency(p) PROVE PlanLeft' < PlanLeft
    BY <1>1, <1>4, VisitLeavesLess DEF VisitDependency, inputVars
  <1>5. ASSUME NEW d \in Pkg, CountDependency(d) PROVE PlanLeft' < PlanLeft
    <2>1. /\ stack # <<>> /\ d \in todo[top]
          /\ todo' = [todo EXCEPT ![top] = @ \ {d}]
          /\ UNCHANGED <<deps, stack, in_stack, levels>>
      BY <1>5 DEF CountDependency, inputVars
    <2>2. top \in Pkg /\ top \in in_stack
      BY <1>1, <2>1, TopType DEF StackAgrees, top
    <2>3. Unvisited' = Unvisited
      BY <2>1 DEF Unvisited, planned
    <2> DEFINE t == top
               e == <<t, d>>
    <2>4. \A q \in Pkg : todo'[q] = IF q = t THEN todo[q] \ {d} ELSE todo[q]
      BY <1>1, <2>1, <2>2 DEF TypeOK
    <2>5. t \in Pkg /\ t \in in_stack /\ d \in todo[t]
      BY <2>1, <2>2
    <2>6. t \notin Unvisited
      BY <2>5 DEF Unvisited
    <2> HIDE DEF t
    <2>7. e \in Unseen
      BY <2>5 DEF Unseen
    <2>8. Unseen' = Unseen \ {e}
      <3>1. ASSUME NEW f \in Pkg \X Pkg PROVE f \in Unseen' <=> f \in Unseen /\ f # e
        <4>1. f[1] \in Pkg /\ f = <<f[1], f[2]>>
          OBVIOUS
        <4>2. f # e <=> ~(f[1] = t /\ f[2] = d)
          BY <4>1
        <4> HIDE DEF e
        <4>3. (f \in Unseen)
              <=> ((f[1] \in Unvisited /\ f[2] \in deps[f[1]])
               \/ (f[1] \in in_stack /\ f[2] \in todo[f[1]]))
          BY DEF Unseen
        <4>4. (f \in Unseen')
              <=> ((f[1] \in Unvisited' /\ f[2] \in deps'[f[1]])
               \/ (f[1] \in in_stack' /\ f[2] \in todo'[f[1]]))
          BY DEF Unseen
        <4>5. (f \in Unseen')
              <=> ((f[1] \in Unvisited /\ f[2] \in deps[f[1]])
               \/ (f[1] \in in_stack /\ f[2] \in todo'[f[1]]))
          BY <2>1, <2>3, <4>4
        <4>6. CASE f[1] = t
          BY <2>4, <2>5, <2>6, <4>2, <4>3, <4>5, <4>6
        <4>7. CASE f[1] # t
          BY <2>4, <4>1, <4>2, <4>3, <4>5, <4>7
        <4> QED
          BY <4>6, <4>7
      <3>2. Unseen \subseteq Pkg \X Pkg /\ Unseen' \subseteq Pkg \X Pkg
        BY DEF Unseen
      <3> QED
        BY <3>1, <3>2
    <2> HIDE DEF e
    <2>9. Cardinality(Unseen') = Cardinality(Unseen) - 1
      BY <1>2, <2>7, <2>8, FS_RemoveElement
    <2> QED
      BY <1>2, <2>1, <2>3, <2>9 DEF PlanLeft
  <1>6. ASSUME ReturnFromVisit PROVE PlanLeft' < PlanLeft
    <2>1. /\ stack # <<>> /\ todo[top] = {} /\ in_stack' = in_stack \ {top}
          /\ levels' = [levels EXCEPT ![top] = level[top]]
          /\ UNCHANGED <<deps, todo>>
      BY <1>6 DEF ReturnFromVisit, inputVars
    <2>2. top \in Pkg /\ top \in in_stack
      BY <1>1, <2>1, TopType DEF StackAgrees, top
    <2> DEFINE t == top
    <2>3. /\ t \in Pkg /\ t \in in_stack /\ todo[t] = {} /\ in_stack' = in_stack \ {t}
          /\ levels'[t] # NoLevel
          /\ \A q \in Pkg \ {t} : levels'[q] = levels[q]
      BY <1>1, <2>1, <2>2 DEF TypeOK, NoLevel
    <2> HIDE DEF t
    <2>4. Unvisited' = Unvisited
      BY <2>3 DEF Unvisited, planned
    <2>5. Unseen' = Unseen
      <3>1. ASSUME NEW f \in Pkg \X Pkg PROVE f \in Unseen' <=> f \in Unseen
        BY <2>1, <2>3, <2>4 DEF Unseen
      <3>2. Unseen \subseteq Pkg \X Pkg /\ Unseen' \subseteq Pkg \X Pkg
        BY DEF Unseen
      <3> QED
        BY <3>1, <3>2
    <2>6. Cardinality(in_stack') = Cardinality(in_stack) - 1
      BY <1>2, <2>3, FS_RemoveElement
    <2> QED
      BY <1>2, <2>4, <2>5, <2>6 DEF PlanLeft
  <1>7. ASSUME NEW p \in Pkg, CycleDetected(p) PROVE pc' # "planning"
    BY <1>7 DEF CycleDetected
  <1>8. ASSUME PlanReady PROVE pc' # "planning"
    BY <1>8 DEF PlanReady
  <1>9. pc = "planning"
    BY DEF PlanStep, VisitWanted, CycleDetected, VisitDependency, CountDependency,
           ReturnFromVisit, PlanReady
  <1> QED
    BY <1>3, <1>4, <1>5, <1>6, <1>7, <1>8, <1>9 DEF PlanStep

\* Every step of the script and of a job leaves less to install.
LEMMA ScriptLeavesLess ==
    ASSUME ScriptInv, JobsBehind, TypeOK', ScriptStep \/ \E p \in Pkg : JobStep(p)
    PROVE  pc # "planning" /\ pc' # "planning" /\ ScriptLeft' < ScriptLeft
  <1>1. TypeOK /\ current <= max_level /\ current \in Nat /\ max_level \in Nat
    BY DEF ScriptInv, PlanInv, JobsBehind, TypeOK
  <1>2. /\ IsFiniteSet(Jobless) /\ Cardinality(Jobless) \in Nat
        /\ IsFiniteSet(running) /\ Cardinality(running) \in Nat
    BY <1>1, LeftType
  <1>3. ASSUME NEW B \in SUBSET Pkg, StartBatch(B)
        PROVE  pc = "batch" /\ pc' = "jobs" /\ ScriptLeft' < ScriptLeft
    <2>1. /\ pc = "batch" /\ pc' = "jobs" /\ left # {} /\ IsBatch(B)
          /\ job' = [p \in Pkg |-> IF p \in B THEN "running" ELSE job[p]]
          /\ UNCHANGED <<current, max_level>>
      BY <1>3 DEF StartBatch, planVars
    <2>2. B \subseteq left /\ IsFiniteSet(B) /\ Cardinality(B) \in Nat /\ B # {}
      <3>1. left \subseteq Pkg /\ IsFiniteSet(left) /\ IsFiniteSet(B)
        BY <1>1, ConstantsAssumption, FS_Subset DEF TypeOK
      <3>2. Cardinality(left) \in Nat /\ Cardinality(left) # 0 /\ Cardinality(B) \in Nat
        BY <2>1, <3>1, FS_CardinalityType, FS_EmptySet
      <3>3. Cardinality(B) # 0
        BY <2>1, <3>2, ConstantsAssumption DEF IsBatch, smaller
      <3> QED
        BY <2>1, <3>1, <3>2, <3>3, FS_EmptySet DEF IsBatch
    <2>3. \A p \in B : job[p] = "none"
      BY <2>1, <2>2 DEF JobsBehind, planning
    <2>4. running = {} /\ running' = B
      BY <2>1 DEF ScriptInv, ScriptAgrees, JobsOfLevel, running
    <2>5. Jobless' = Jobless \ B /\ Jobless \cap B = B
      BY <2>1, <2>3 DEF Jobless
    <2>6. Cardinality(Jobless') = Cardinality(Jobless) - Cardinality(B)
      <3>1. Cardinality(Jobless \ B) = Cardinality(Jobless) - Cardinality(Jobless \cap B)
        BY <1>2, FS_Difference
      <3> QED
        BY <2>5, <3>1
    <2>7. Cardinality(running) = 0 /\ Cardinality(running') = Cardinality(B)
      BY <2>4, FS_EmptySet
    <2>8. Cardinality(B) >= 1
      BY <2>2, FS_EmptySet
    <2>9. Phase = 1 /\ Phase' = 3
      BY <2>1 DEF Phase
    <2> QED
      BY <1>1, <1>2, <2>1, <2>2, <2>6, <2>7, <2>8, <2>9 DEF ScriptLeft
  <1>4. ASSUME NextLevel PROVE pc = "batch" /\ pc' = "batch" /\ ScriptLeft' < ScriptLeft
    <2>1. /\ pc = "batch" /\ pc' = "batch" /\ current' = current + 1
          /\ UNCHANGED <<max_level, job>>
      BY <1>4 DEF NextLevel, planVars
    <2>2. Jobless' = Jobless /\ running' = running /\ Phase = 1 /\ Phase' = 1
      BY <2>1 DEF Jobless, running, Phase
    <2> QED
      BY <1>1, <1>2, <2>1, <2>2 DEF ScriptLeft
  <1>5. ASSUME ScriptEnds \/ Wait \/ Verify
        PROVE  pc # "planning" /\ pc' # "planning" /\ ScriptLeft' < ScriptLeft
    <2>1. /\ UNCHANGED <<current, max_level, job>>
          /\ \/ pc = "batch" /\ pc' = "installed"
             \/ pc = "jobs" /\ pc' = "verify"
             \/ pc = "verify" /\ pc' \in {"failed", "batch"}
      BY <1>5 DEF ScriptEnds, Wait, Verify, planVars, scriptVars
    <2>2. /\ Jobless' = Jobless /\ running' = running
          /\ Phase \in Nat /\ Phase' \in Nat /\ Phase' < Phase
      BY <2>1 DEF Jobless, running, Phase
    <2> QED
      BY <1>1, <1>2, <2>1, <2>2 DEF ScriptLeft
  <1>6. ASSUME NEW p \in Pkg, JobStep(p)
        PROVE  pc # "planning" /\ pc' # "planning" /\ ScriptLeft' < ScriptLeft
    <2>1. /\ pc = "jobs" /\ pc' = "jobs" /\ job[p] = "running"
          /\ UNCHANGED <<current, max_level>>
          /\ \E o \in {"succeeded", "failed"} : job' = [job EXCEPT ![p] = o]
      BY <1>6 DEF JobStep, JobFails, JobSucceeds, planVars
    <2>2. PICK o \in {"succeeded", "failed"} : job' = [job EXCEPT ![p] = o]
      BY <2>1
    <2>3. job'[p] = o /\ \A q \in Pkg \ {p} : job'[q] = job[q]
      BY <1>1, <2>2 DEF TypeOK
    <2>4. Jobless' = Jobless
      BY <2>1, <2>3 DEF Jobless
    <2>5. running' = running \ {p} /\ p \in running
      BY <2>1, <2>3 DEF running
    <2>6. Cardinality(running') = Cardinality(running) - 1
      BY <1>2, <2>5, FS_RemoveElement
    <2>7. Phase = 3 /\ Phase' = 3
      BY <2>1 DEF Phase
    <2> QED
      BY <1>1, <1>2, <2>1, <2>4, <2>6, <2>7 DEF ScriptLeft
  <1> QED
    BY <1>3, <1>4, <1>5, <1>6 DEF ScriptStep

\* A step leaves less to do than there was before it.
Lessens ==
    IF pc = "planning" THEN pc' # "planning" \/ PlanLeft' < PlanLeft
                       ELSE pc' # "planning" /\ ScriptLeft' < ScriptLeft

\* The planning and the script cannot go on for ever, whatever the dependencies are,
\* cyclic ones included, and however the jobs end: each step lessens what is left to do,
\* which is a number (rpkg_database.h, dfs_visit; write_script).
THEOREM InstallationIsBounded ==
    Spec => [](PlanLeft \in Nat /\ ScriptLeft \in Nat) /\ [][Lessens]_vars
  <1> DEFINE I == ScriptInv /\ JobsBehind
  <1>1. Init => I
    BY ScriptInit, JobsBehindInit
  <1>2. I /\ [Next]_vars => I'
    BY ScriptStepAgrees, JobsBehindStep
  <1>3. I => PlanLeft \in Nat /\ ScriptLeft \in Nat
    BY LeftType DEF ScriptInv, PlanInv, JobsBehind
  <1>4. I /\ I' /\ [Next]_vars => [Lessens]_vars
    <2> SUFFICES ASSUME I, I', Next PROVE Lessens
      OBVIOUS
    <2>1. TypeOK' /\ PlanInv /\ current <= max_level
      BY DEF ScriptInv, PlanInv, JobsBehind
    <2>2. CASE PlanStep
      BY <2>1, <2>2, PlanLeavesLess DEF Lessens
    <2>3. CASE ScriptStep \/ \E p \in Pkg : JobStep(p)
      BY <2>1, <2>3, ScriptLeavesLess DEF Lessens
    <2> QED
      BY <2>2, <2>3 DEF Next
  <1> HIDE DEF I
  <1> QED
    BY <1>1, <1>2, <1>3, <1>4, PTL DEF Spec

-------------------------------------------------------------------------------
(***************************************************************************)
(* The image that the script is a layer of: DockerBuild, for any             *)
(* directories, files and owners.                                          *)
(***************************************************************************)
\* The order of the layers in every Dockerfile, and those that this one has.
Rank(l) ==
    CASE l = "locale" -> 1
      [] l = "user" -> 2
      [] l = "debs" -> 3
      [] l = "R" -> 4
      [] l = "pre" -> 5
      [] l = "tar" -> 6
      [] l = "post" -> 7
      [] l = "environment" -> 8
      [] l = "command" -> 9

Ordered ==
    {"locale", "user"} \cup (IF debs THEN {"debs"} ELSE {}) \cup (IF needed # {} THEN {"R"} ELSE {})
        \cup (IF files # {} THEN {"pre", "tar", "post"} ELSE {})
        \cup {"environment", "command"}

\* A sequence of the layers L in their order.
Rising(s, L) ==
    /\ s \in Seq(Layers)
    /\ {s[i] : i \in 1 .. Len(s)} = L
    /\ \A i, j \in 1 .. Len(s) : i < j => Rank(s[i]) < Rank(s[j])

\* Layers are put after lower ones.
LEMMA RisingConcat ==
    ASSUME NEW s, NEW L, Rising(s, L), NEW t, NEW M, Rising(t, M),
           \A l \in L, m \in M : Rank(l) < Rank(m)
    PROVE  Rising(s \o t, L \cup M)
  <1>1. /\ s \o t \in Seq(Layers)
        /\ Len(s) \in Nat /\ Len(t) \in Nat
        /\ Len(s \o t) = Len(s) + Len(t)
        /\ \A i \in 1 .. Len(s) + Len(t) :
              (s \o t)[i] = IF i <= Len(s) THEN s[i] ELSE t[i - Len(s)]
    BY ConcatProperties, LenProperties DEF Rising
  <1> DEFINE u == s \o t
  <1>2. \A i \in 1 .. Len(s) : u[i] = s[i] /\ u[i] \in L
    BY <1>1 DEF Rising
  <1>3. \A i \in 1 .. Len(t) : u[Len(s) + i] = t[i] /\ t[i] \in M
    BY <1>1 DEF Rising
  <1>4. \A i \in 1 .. Len(u) : i \in 1 .. Len(s) \/ \E j \in 1 .. Len(t) : i = Len(s) + j
    <2> TAKE i \in 1 .. Len(u)
    <2>1. CASE i <= Len(s)
      BY <1>1, <2>1
    <2>2. CASE ~(i <= Len(s))
      <3>1. i - Len(s) \in 1 .. Len(t) /\ i = Len(s) + (i - Len(s))
        BY <1>1, <2>2
      <3> QED
        BY <3>1
    <2> QED
      BY <2>1, <2>2
  <1>5. /\ \A i \in 1 .. Len(s) : i \in 1 .. Len(u)
        /\ \A j \in 1 .. Len(t) : Len(s) + j \in 1 .. Len(u)
    BY <1>1
  <1> HIDE DEF u
  <1>6. {u[i] : i \in 1 .. Len(u)} = L \cup M
    <2>1. \A i \in 1 .. Len(u) : u[i] \in L \cup M
      BY <1>2, <1>3, <1>4
    <2>2. \A l \in L : \E i \in 1 .. Len(s) : u[i] = l
      BY <1>2 DEF Rising
    <2>3. \A m \in M : \E i \in 1 .. Len(t) : u[Len(s) + i] = m
      BY <1>3 DEF Rising
    <2>4. \A l \in L \cup M : \E i \in 1 .. Len(u) : u[i] = l
      BY <1>5, <2>2, <2>3
    <2> QED
      BY <2>1, <2>4
  <1>7. ASSUME NEW i \in 1 .. Len(u), NEW j \in 1 .. Len(u), i < j PROVE Rank(u[i]) < Rank(u[j])
    <2>1. CASE i \in 1 .. Len(s) /\ j \in 1 .. Len(s)
      BY <1>2, <1>7, <2>1 DEF Rising
    <2>2. CASE i \in 1 .. Len(s) /\ \E k \in 1 .. Len(t) : j = Len(s) + k
      BY <1>2, <1>3, <2>2
    <2>3. CASE /\ \E k \in 1 .. Len(t) : i = Len(s) + k
               /\ \E k \in 1 .. Len(t) : j = Len(s) + k
      <3>1. PICK k \in 1 .. Len(t) : i = Len(s) + k
        BY <2>3
      <3>2. PICK m \in 1 .. Len(t) : j = Len(s) + m
        BY <2>3
      <3>3. k < m
        BY <1>1, <1>7, <3>1, <3>2
      <3> QED
        BY <1>3, <3>1, <3>2, <3>3 DEF Rising
    <2>4. CASE j \in 1 .. Len(s) /\ \E k \in 1 .. Len(t) : i = Len(s) + k
      BY <1>1, <1>7, <2>4
    <2> QED
      BY <1>4, <2>1, <2>2, <2>3, <2>4
  <1> QED
    BY <1>1, <1>6, <1>7 DEF Rising, u

\* A sequence of one, two or three layers, or of none.
LEMMA RisingFew ==
    /\ Rising(<<>>, {})
    /\ \A a \in Layers : Rising(<<a>>, {a})
    /\ \A a, b \in Layers : Rank(a) < Rank(b) => Rising(<<a, b>>, {a, b})
    /\ \A a, b, c \in Layers :
          Rank(a) < Rank(b) /\ Rank(b) < Rank(c) /\ Rank(a) < Rank(c) =>
              Rising(<<a, b, c>>, {a, b, c})
  <1>1. Rising(<<>>, {})
    BY EmptySeq DEF Rising
  <1>2. ASSUME NEW a \in Layers PROVE Rising(<<a>>, {a})
    <2>1. <<a>> \in Seq(Layers) /\ Len(<<a>>) = 1 /\ <<a>>[1] = a
      OBVIOUS
    <2> QED
      BY <2>1 DEF Rising
  <1>3. ASSUME NEW a \in Layers, NEW b \in Layers, Rank(a) < Rank(b)
        PROVE  Rising(<<a, b>>, {a, b})
    <2> DEFINE s == <<a, b>>
    <2>1. s \in Seq(Layers) /\ Len(s) = 2 /\ s[1] = a /\ s[2] = b
      OBVIOUS
    <2>2. 1 .. 2 = {1, 2}
      OBVIOUS
    <2> HIDE DEF s
    <2>3. \A i, j \in {1, 2} : i < j => Rank(s[i]) < Rank(s[j])
      BY <1>3, <2>1
    <2>4. Rising(s, {a, b})
      BY <2>1, <2>2, <2>3 DEF Rising
    <2> QED
      BY <2>4 DEF s
  <1>4. ASSUME NEW a \in Layers, NEW b \in Layers, NEW c \in Layers,
               Rank(a) < Rank(b), Rank(b) < Rank(c), Rank(a) < Rank(c)
        PROVE  Rising(<<a, b, c>>, {a, b, c})
    <2> DEFINE s == <<a, b, c>>
    <2>1. s \in Seq(Layers) /\ Len(s) = 3 /\ s[1] = a /\ s[2] = b /\ s[3] = c
      OBVIOUS
    <2>2. 1 .. 3 = {1, 2, 3}
      OBVIOUS
    <2> HIDE DEF s
    <2>3. \A i, j \in {1, 2, 3} : i < j => Rank(s[i]) < Rank(s[j])
      BY <1>4, <2>1
    <2>4. Rising(s, {a, b, c})
      BY <2>1, <2>2, <2>3 DEF Rising
    <2> QED
      BY <2>4 DEF s
  <1> QED
    BY <1>1, <1>2, <1>3, <1>4

\* DockerFileBuilderTask::run puts the layers in their order, whichever there are.
LEMMA DockerfileRises == Rising(Dockerfile, Ordered)
  <1> DEFINE A == <<"locale", "user">>
             B == install_deb_packages
             C == install_r_packages
             D == copy_files
             E == <<"environment", "command">>
             b == IF debs THEN {"debs"} ELSE {}
             c == IF needed # {} THEN {"R"} ELSE {}
             d == IF files # {} THEN {"pre", "tar", "post"} ELSE {}
  <1>1. Rising(A, {"locale", "user"}) /\ Rising(E, {"environment", "command"})
    BY RisingFew DEF Rank, Layers
  <1>2. Rising(B, b)
    <2>1. Rising(<<"debs">>, {"debs"}) /\ Rising(<<>>, {})
      BY RisingFew DEF Layers
    <2>2. B = IF debs THEN <<"debs">> ELSE <<>>
      BY DEF install_deb_packages, When
    <2> QED
      BY <2>1, <2>2
  <1>3. Rising(C, c)
    <2>1. Rising(<<"R">>, {"R"}) /\ Rising(<<>>, {})
      BY RisingFew DEF Layers
    <2>2. C = IF needed # {} THEN <<"R">> ELSE <<>>
      BY DEF install_r_packages, When
    <2> QED
      BY <2>1, <2>2
  <1>4. Rising(D, d)
    <2>1. Rising(<<"pre", "tar", "post">>, {"pre", "tar", "post"})
      BY RisingFew DEF Rank, Layers
    <2> QED
      BY <2>1, RisingFew DEF copy_files, When
  <1>5. Dockerfile = (((A \o B) \o C) \o D) \o E
    BY DEF Dockerfile
  <1> HIDE DEF A, B, C, D, E
  <1>6. Rising(A \o B, {"locale", "user"} \cup b)
    <2>1. \A l \in {"locale", "user"}, m \in b : Rank(l) < Rank(m)
      BY DEF Rank
    <2> QED
      BY <1>1, <1>2, <2>1, RisingConcat
  <1>7. Rising((A \o B) \o C, ({"locale", "user"} \cup b) \cup c)
    <2>1. \A l \in {"locale", "user"} \cup b, m \in c : Rank(l) < Rank(m)
      BY DEF Rank
    <2> QED
      BY <1>3, <1>6, <2>1, RisingConcat
  <1>8. Rising(((A \o B) \o C) \o D, (({"locale", "user"} \cup b) \cup c) \cup d)
    <2>1. \A l \in ({"locale", "user"} \cup b) \cup c, m \in d : Rank(l) < Rank(m)
      BY DEF Rank
    <2> QED
      BY <1>4, <1>7, <2>1, RisingConcat
  <1>9. Rising((((A \o B) \o C) \o D) \o E,
               ((({"locale", "user"} \cup b) \cup c) \cup d) \cup {"environment", "command"})
    <2>1. \A l \in (({"locale", "user"} \cup b) \cup c) \cup d, m \in {"environment", "command"} :
             Rank(l) < Rank(m)
      BY DEF Rank
    <2> QED
      BY <1>1, <1>8, <2>1, RisingConcat
  <1> QED
    BY <1>5, <1>9 DEF Ordered

\* What is there has the directories above it.
Closed(o) == \A d \in Dir : o[d] # "none" => \A e \in up[d] : o[e] # "none"

\* mkdir -p leaves what is there, and makes the directories with all above them.
LEMMA MkdirFacts ==
    ASSUME NEW o \in [Dir -> {"none", "root", "user"}], Closed(o),
           NEW ds, ds \subseteq Dir
    PROVE  /\ Mkdir(o, ds) \in [Dir -> {"none", "root", "user"}]
           /\ Closed(Mkdir(o, ds))
           /\ \A d \in Dir : o[d] # "none" => Mkdir(o, ds)[d] = o[d]
           /\ \A e \in ds : \A d \in up[e] : Mkdir(o, ds)[d] # "none"
  <1> DEFINE m == Mkdir(o, ds)
  <1>1. \A d \in Dir :
           m[d] = IF o[d] = "none" /\ \E e \in ds : d \in up[e] THEN "root" ELSE o[d]
    BY DEF Mkdir
  <1>2. m \in [Dir -> {"none", "root", "user"}]
    BY DEF Mkdir
  <1> HIDE DEF m
  <1>3. \A d \in Dir : o[d] # "none" => m[d] = o[d]
    BY <1>1
  <1>4. \A e \in ds : \A d \in up[e] : m[d] # "none"
    BY <1>1, DockerAssumption
  <1>5. ASSUME NEW d \in Dir, m[d] # "none", NEW e \in up[d] PROVE m[e] # "none"
    <2>1. up[d] \subseteq Dir
      BY DockerAssumption
    <2>2. CASE o[d] # "none"
      BY <1>3, <1>5, <2>1, <2>2 DEF Closed
    <2>3. CASE o[d] = "none"
      <3>1. PICK c \in ds : d \in up[c]
        BY <1>1, <1>5, <2>3
      <3>2. e \in up[c]
        BY <1>5, <3>1, DockerAssumption
      <3> QED
        BY <1>4, <3>2
    <2> QED
      BY <2>2, <2>3
  <1> QED
    BY <1>2, <1>3, <1>4, <1>5 DEF m, Closed

\* The image has its type, and what is there the directories above it.
ImageTree == ImageTypeOK /\ Closed(owner)

\* The directories of the files, and those that a layer makes.
LEMMA DirectoryFacts ==
    ASSUME ImageTree
    PROVE  /\ \A S \in SUBSET File : {dir[f] : f \in S} \subseteq Dir
           /\ Home \in Dir /\ cwd \in Dir
           /\ Parents \subseteq Dir
           /\ Closed(owner)
           /\ owner \in [Dir -> {"none", "root", "user"}]
           /\ hostOwner \in [Dir -> {"root", "user"}]
           /\ \A f \in files : up[dir[f]] \subseteq Parents
           /\ \A d \in Parents : \E e \in {dir[f] : f \in files} : d \in up[e]
           /\ \A d \in Parents : up[d] \subseteq Parents
  BY DockerAssumption DEF ImageTree, ImageTypeOK, Parents, Closed

LEMMA ImageTypeInit ==
    ASSUME ImageInit
    PROVE  ImageTree
  <1>1. done \in Seq(Layers)
    BY EmptySeq DEF ImageInit
  <1>2. owner \in [Dir -> {"none", "root", "user"}] /\ Closed(owner)
    BY DockerAssumption DEF ImageInit, Closed
  <1> QED
    BY <1>1, <1>2, DockerAssumption DEF ImageInit, ImageTree, ImageTypeOK

\* What a layer leaves: the tree of directories stays closed.
LEMMA ImageTypeStep ==
    ASSUME ImageTree, [ImageNext]_imageVars
    PROVE  ImageTree'
  <1> DEFINE Owned(o) == o \in [Dir -> {"none", "root", "user"}] /\ Closed(o)
             Sources(g) == g \in [File -> {"none", "base", "package", "host", "program"}]
             Rest == /\ users \subseteq {"ubuntu", "user"}
                     /\ written \subseteq File
             Progress ==
                 /\ status \in {"building", "built", "unavailable", "failed", "ran", "denied"}
                 /\ done \in Seq(Layers)
  <1>1. Owned(owner) /\ Sources(origin) /\ Rest /\ Progress
    BY DEF ImageTree, ImageTypeOK
  <1>2. ASSUME UNCHANGED world, Owned(owner'), Sources(origin'), Rest', Progress'
        PROVE  ImageTree'
    BY <1>2 DEF ImageTree, ImageTypeOK, world, Closed
  <1>3. ASSUME NEW l \in Layers, Layer(l)
        PROVE  UNCHANGED world /\ done' \in Seq(Layers)
    BY <1>3 DEF Layer, ImageTree, ImageTypeOK
  <1>4. ASSUME NEW l \in Layers, Layer(l), NEW b, RunLayer(b)
        PROVE  UNCHANGED world /\ Progress'
    <2>1. status' \in {"building", "built", "failed"}
      BY <1>4 DEF RunLayer, Layer
    <2> QED
      BY <1>3, <1>4, <2>1
  <1>5. CASE set_lang_and_timezone
    BY <1>1, <1>2, <1>4, <1>5 DEF set_lang_and_timezone, Layers, fs
  <1>6. CASE create_user
    <2>1. /\ UNCHANGED world /\ Progress' /\ UNCHANGED <<origin, written>>
          /\ users' = {"user"}
      BY <1>4, <1>6 DEF create_user, Layers
    <2> DEFINE m == Mkdir(owner, {Home})
    <2>2. Owned(m) /\ m[Home] # "none" /\ Home \in Dir
      BY MkdirFacts, DirectoryFacts, DockerAssumption
    <2>3. owner' = [m EXCEPT ![Home] = "user"]
      BY <1>6 DEF create_user
    <2> HIDE DEF m
    <2>4. Owned(owner')
      BY <2>2, <2>3, DockerAssumption DEF Closed
    <2> QED
      BY <1>1, <1>2, <2>1, <2>4
  <1>7. CASE InstallDebs
    <2>1. /\ UNCHANGED world /\ Progress' /\ UNCHANGED <<users, written>>
          /\ Sources(origin')
      BY <1>1, <1>4, <1>7 DEF InstallDebs, Layers
    <2>2. Owned(owner')
      BY <1>7, MkdirFacts, DirectoryFacts DEF InstallDebs, ImageTree, ImageTypeOK
    <2> QED
      BY <1>1, <1>2, <2>1, <2>2
  <1>8. CASE InstallRPackages
    BY <1>1, <1>2, <1>4, <1>8 DEF InstallRPackages, Layers, fs
  <1>9. CASE generate_pre_file_copy_script
    <2>1. UNCHANGED world /\ Progress' /\ UNCHANGED <<origin, users, written>>
      BY <1>4, <1>9 DEF generate_pre_file_copy_script, Layers
    <2>2. Owned(owner')
      BY <1>9, MkdirFacts, DirectoryFacts
         DEF generate_pre_file_copy_script, ImageTree, ImageTypeOK
    <2> QED
      BY <1>1, <1>2, <2>1, <2>2
  <1>10. CASE ExtractArchive
    <2>1. /\ UNCHANGED world /\ Progress' /\ UNCHANGED <<users, written>>
          /\ Sources(origin')
      BY <1>1, <1>4, <1>10 DEF ExtractArchive, Layers
    <2>2. Owned(owner')
      BY <1>10, MkdirFacts, DirectoryFacts DEF ExtractArchive, ImageTree, ImageTypeOK
    <2> QED
      BY <1>1, <1>2, <2>1, <2>2
  <1>11. CASE generate_post_file_copy_script
    <2>1. UNCHANGED world /\ Progress' /\ UNCHANGED <<origin, users, written>>
      BY <1>4, <1>11 DEF generate_post_file_copy_script, Layers
    <2>2. owner' = [d \in Dir |-> IF d \in Parents THEN hostOwner[d] ELSE owner[d]]
      BY <1>11 DEF generate_post_file_copy_script
    <2>3. Owned(owner')
      <3>1. /\ owner' \in [Dir -> {"none", "root", "user"}]
            /\ \A d \in Dir : d \in Parents => owner'[d] # "none"
            /\ \A d \in Dir : d \notin Parents => owner'[d] = owner[d]
        BY <2>2, DirectoryFacts
      <3>2. \A d \in Dir : up[d] \subseteq Dir
        BY DockerAssumption
      <3> QED
        BY <3>1, <3>2, DirectoryFacts DEF Closed
    <2> QED
      BY <1>1, <1>2, <2>1, <2>3
  <1>12. CASE set_environment
    BY <1>1, <1>2, <1>4, <1>12 DEF set_environment, Layers, fs
  <1>13. CASE prepare_command
    <2>1. UNCHANGED world /\ Progress' /\ UNCHANGED <<origin, users, written>>
      <3>1. \E b : RunLayer(b)
        BY <1>13 DEF prepare_command
      <3> QED
        BY <1>4, <1>13, <3>1 DEF prepare_command, Layers
    <2> DEFINE m == Mkdir(owner, {cwd})
    <2>2. Owned(m) /\ m[cwd] # "none" /\ cwd \in Dir
      BY MkdirFacts, DirectoryFacts, DockerAssumption
    <2>3. owner' = [m EXCEPT ![cwd] = "user"]
      BY <1>13 DEF prepare_command, WorkingDirectory
    <2> HIDE DEF m
    <2>4. Owned(owner')
      BY <2>2, <2>3, DockerAssumption DEF Closed
    <2> QED
      BY <1>1, <1>2, <2>1, <2>4
  <1>14. CASE Unavailable
    BY <1>1, <1>2, <1>3, <1>14 DEF Unavailable, Layers, fs
  <1>15. CASE RunContainer
    <2>1. /\ UNCHANGED world /\ UNCHANGED <<done, owner, users>>
          /\ status' \in {"ran", "denied"} /\ written' \subseteq File /\ Sources(origin')
      BY <1>1, <1>15 DEF RunContainer, ImageTree, ImageTypeOK
    <2> QED
      BY <1>1, <1>2, <2>1
  <1>16. CASE UNCHANGED imageVars
    BY <1>1, <1>2, <1>16 DEF imageVars, fs
  <1> QED
    BY <1>5, <1>6, <1>7, <1>8, <1>9, <1>10, <1>11, <1>12, <1>13, <1>14, <1>15, <1>16
       DEF ImageNext, Build

-------------------------------------------------------------------------------
(* What the layers that are built have done *)

Built(l) == \E i \in 1 .. Len(done) : done[i] = l

\* The layers that are built are the first of the Dockerfile.
BuiltPrefix ==
    /\ Len(done) <= Len(Dockerfile)
    /\ \A i \in 1 .. Len(done) : done[i] = Dockerfile[i]

\* The program could write on the host; R packages need R.
HostWorld ==
    /\ \A f \in results : hostOwner[dir[f]] = "user"
    /\ hostOwner[Home] = "user"
    /\ needed # {} => R \in needed
    /\ packaged # {} => debs

\* What is there after a layer, and stays there.
Things ==
    /\ \A f \in baseTools : There(f)
    /\ Built("debs") => \A f \in packaged : There(f)
    /\ Built("R") => \A f \in needed : There(f)
    /\ Built("pre") => \A f \in results : owner[dir[f]] # "none"

\* What each layer leaves for those after it, and for the program.
Effects ==
    /\ Built("user") => ("user" \in users /\ owner[Home] = "user")
    /\ ~Built("user") => ("ubuntu" \in users <=> ubuntu)
    /\ Things
    /\ Built("tar") => /\ \A f \in files : origin[f] = "host"
                      /\ \A d \in Parents : owner[d] # "none"
    /\ Built("post") => \A d \in Parents \ {cwd} : owner[d] = hostOwner[d]
    /\ Built("command") => owner[cwd] = "user"

ImageSoFar == status \in {"building", "built"} => Effects

AllBuilt == status = "built" => \A l \in Ordered : Built(l)

ImageInv ==
    /\ ImageTree
    /\ BuiltPrefix
    /\ HostWorld
    /\ ImageSoFar
    /\ AllBuilt
    /\ BuildFailsForAReason
    /\ DeniedOutsideOnly

\* Before the layer l the layers below it are built, and after it l is, too.
LEMMA LayerFacts ==
    ASSUME ImageTree, BuiltPrefix, NEW l, Layer(l)
    PROVE  /\ l \in Ordered
           /\ \A m \in Ordered : Built(m) <=> Rank(m) < Rank(l)
           /\ \A m : Built(m) => m \in Ordered
           /\ \A m : Built(m)' <=> (Built(m) \/ m = l)
           /\ BuiltPrefix'
           /\ Len(done') = Len(Dockerfile) => \A m \in Ordered : Built(m)'
  <1> DEFINE D == Dockerfile
             n == Len(done) + 1
  <1>1. /\ D \in Seq(Layers)
        /\ {D[i] : i \in 1 .. Len(D)} = Ordered
        /\ \A i, j \in 1 .. Len(D) : i < j => Rank(D[i]) < Rank(D[j])
    BY DockerfileRises DEF Rising
  <1>2. done \in Seq(Layers) /\ Len(done) \in Nat /\ Len(D) \in Nat
    BY <1>1, LenProperties DEF ImageTree, ImageTypeOK
  <1>3. n \in 1 .. Len(D) /\ D[n] = l
    BY <1>2 DEF Layer
  <1>4. l \in Layers /\ l \in Ordered
    <2>1. D[n] \in Layers /\ D[n] \in Ordered
      BY <1>1, <1>3, ElementOfSeq
    <2> QED
      BY <1>3, <2>1
  <1>5. D' = D /\ Ordered' = Ordered
    BY DEF Layer, world, Dockerfile, install_deb_packages,
           install_r_packages, copy_files, When, Ordered
  <1>6. /\ Len(done') = n
        /\ done'[n] = l
        /\ \A i \in 1 .. Len(done) : done'[i] = done[i]
    <2>1. done' = Append(done, l)
      BY DEF Layer
    <2> QED
      BY <1>2, <1>4, <2>1, Push
  <1> HIDE DEF D
  <1>7. \A i \in 1 .. Len(D) : Rank(D[i]) \in Nat
    BY <1>1, ElementOfSeq DEF Rank, Layers
  <1>8. \A i \in 1 .. Len(done) : done[i] = D[i] /\ i \in 1 .. Len(D) /\ i < n
    BY <1>2, <1>3 DEF BuiltPrefix, D
  <1>9. \A m \in Ordered : Built(m) <=> Rank(m) < Rank(l)
    <2> TAKE m \in Ordered
    <2>1. PICK k \in 1 .. Len(D) : D[k] = m
      BY <1>1
    <2>2. CASE k < n
      <3>1. Rank(m) < Rank(l)
        BY <1>1, <1>3, <2>1, <2>2
      <3>2. k \in 1 .. Len(done)
        BY <1>2, <2>1, <2>2
      <3> QED
        BY <1>8, <2>1, <3>1, <3>2 DEF Built
    <2>3. CASE ~(k < n)
      <3>1. Rank(l) <= Rank(m)
        BY <1>1, <1>2, <1>3, <1>7, <2>1, <2>3
      <3>2. ASSUME Built(m) PROVE FALSE
        <4>1. PICK i \in 1 .. Len(done) : done[i] = m
          BY <3>2 DEF Built
        <4>2. Rank(D[i]) < Rank(D[n])
          BY <1>1, <1>3, <1>8, <4>1
        <4> QED
          BY <1>3, <1>7, <1>8, <3>1, <4>1, <4>2
      <3>3. Rank(m) \in Nat /\ Rank(l) \in Nat
        BY <1>3, <1>7, <2>1
      <3> QED
        BY <3>1, <3>2, <3>3
    <2> QED
      BY <2>2, <2>3
  <1>10. \A m : Built(m) => m \in Ordered
    BY <1>1, <1>8 DEF Built
  <1>11. \A m : Built(m)' <=> (Built(m) \/ m = l)
    <2>1. \A i \in 1 .. Len(done') : i \in 1 .. Len(done) \/ i = n
      BY <1>2, <1>6
    <2>2. n \in 1 .. Len(done') /\ \A i \in 1 .. Len(done) : i \in 1 .. Len(done')
      BY <1>2, <1>6
    <2> QED
      BY <1>6, <2>1, <2>2 DEF Built
  <1>12. BuiltPrefix'
    <2>1. \A i \in 1 .. n : i \in 1 .. Len(done) \/ i = n
      BY <1>2
    <2>2. Len(done') <= Len(D) /\ \A i \in 1 .. Len(done') : done'[i] = D[i]
      BY <1>2, <1>3, <1>6, <1>8, <2>1
    <2> QED
      BY <1>5, <2>2 DEF BuiltPrefix, D
  <1>13. ASSUME Len(done') = Len(D), NEW m \in Ordered PROVE Built(m)'
    <2>1. PICK k \in 1 .. Len(D) : D[k] = m
      BY <1>1
    <2>2. k \in 1 .. Len(done')
      BY <1>13, <2>1
    <2>3. done'[k] = D'[k]
      BY <1>12, <2>2 DEF BuiltPrefix, D
    <2> QED
      BY <1>5, <2>1, <2>2, <2>3 DEF Built, D
  <1> QED
    BY <1>4, <1>9, <1>10, <1>11, <1>12, <1>13 DEF D

LEMMA ImageInvInit ==
    ASSUME ImageInit
    PROVE  ImageInv
  <1>1. Len(done) = 0 /\ ~(0 \in 1 .. 0) /\ \A i : i \notin 1 .. 0
    BY DEF ImageInit
  <1>2. \A l : ~Built(l)
    BY <1>1 DEF Built
  <1>3. BuiltPrefix
    BY <1>1, DockerfileRises, LenProperties DEF BuiltPrefix, Rising
  <1>4. "ubuntu" \in users <=> ubuntu
    BY DEF ImageInit
  <1>5. (\A f \in baseTools : There(f)) /\ status = "building"
    BY DockerAssumption DEF ImageInit, There
  <1>6. HostWorld
    BY DEF ImageInit, HostWorld
  <1> QED
    BY <1>2, <1>3, <1>4, <1>5, <1>6, ImageTypeInit
       DEF ImageInv, ImageSoFar, Effects, Things, AllBuilt, BuildFailsForAReason,
           DeniedOutsideOnly

\* The two reasons for which a layer fails.
Reason(l) ==
    \/ l = "user" /\ ~ubuntu
    \/ l = "R" /\ ~(needed \subseteq baseTools \cup packaged)

\* A layer that fails only for a reason, and has its effects if it succeeds.
LEMMA LayerKeeps ==
    ASSUME ImageInv, ImageTree', NEW l, Layer(l),
           NEW succeeds, RunLayer(succeeds), ~succeeds => Reason(l), succeeds => Effects'
    PROVE  ImageInv'
  <1>1. status = "building" /\ UNCHANGED world
    BY DEF Layer
  <1>2. /\ BuiltPrefix'
        /\ Len(done') = Len(Dockerfile) => \A m \in Ordered : Built(m)'
    BY LayerFacts DEF ImageInv
  <1>3. /\ status' \in {"failed", "built", "building"}
        /\ status' = "failed" => Reason(l)
        /\ status' \in {"building", "built"} => Effects'
        /\ status' = "built" => Len(done') = Len(Dockerfile)
    BY <1>1 DEF RunLayer
  <1>4. HostWorld'
    BY <1>1 DEF ImageInv, HostWorld, world
  <1>5. Ordered' = Ordered
    BY <1>1 DEF world, Ordered
  <1>6. done'[Len(done')] = l
    <2>1. done \in Seq(Layers) /\ l \in Layers /\ done' = Append(done, l)
      <3>1. l \in Ordered
        BY LayerFacts DEF ImageInv
      <3> QED
        BY <3>1 DEF Layer, ImageInv, ImageTree, ImageTypeOK, Ordered, Layers
    <2> QED
      BY <2>1, Push, LenProperties
  <1>7. BuildFailsForAReason'
    BY <1>1, <1>3, <1>6 DEF BuildFailsForAReason, Reason, world
  <1> QED
    BY <1>1, <1>2, <1>3, <1>4, <1>5, <1>7
       DEF ImageInv, ImageSoFar, AllBuilt, DeniedOutsideOnly, world

\* What a layer has before it when it is l's turn.
LEMMA BeforeLayer ==
    ASSUME ImageInv, NEW l, Layer(l)
    PROVE  /\ Effects /\ HostWorld
           /\ l \in Ordered
           /\ \A m \in Ordered : Built(m) <=> Rank(m) < Rank(l)
           /\ \A m : Built(m) => m \in Ordered
           /\ \A m : Built(m)' <=> (Built(m) \/ m = l)
           /\ UNCHANGED world
           /\ Parents' = Parents
  BY LayerFacts DEF Layer, ImageInv, ImageSoFar, world, Parents

\* A directory that is there keeps its owner when others are made.
LEMMA MkdirOwner ==
    ASSUME ImageTree, NEW S, S \subseteq Dir,
           owner' = Mkdir(owner, S)
    PROVE  \A d \in Dir : owner[d] # "none" => owner'[d] = owner[d]
  BY MkdirFacts, DirectoryFacts

LEMMA ThingsStay ==
    ASSUME ImageInv, NEW l, Layer(l),
           \A f \in File : There(f) => There(f)',
           \A d \in Dir : owner[d] # "none" => owner'[d] # "none",
           l = "debs" => \A f \in packaged : There(f)',
           l = "R" => \A f \in needed : There(f)',
           l = "pre" => \A f \in results : owner'[dir[f]] # "none"
    PROVE  Things'
  <1>1. /\ Things
        /\ \A m : Built(m)' <=> (Built(m) \/ m = l)
        /\ UNCHANGED <<baseTools, packaged, needed, results>>
    BY BeforeLayer DEF Effects, world
  <1>2. /\ baseTools \subseteq File /\ packaged \subseteq File /\ needed \subseteq File
        /\ \A f \in results : dir[f] \in Dir
    BY DockerAssumption DEF ImageInv, ImageTree, ImageTypeOK
  <1>3. \A f \in baseTools' : There(f)'
    BY <1>1, <1>2 DEF Things
  <1>4. Built("debs")' => \A f \in packaged' : There(f)'
    BY <1>1, <1>2 DEF Things
  <1>5. Built("R")' => \A f \in needed' : There(f)'
    BY <1>1, <1>2 DEF Things
  <1>6. Built("pre")' => \A f \in results' : owner'[dir[f]] # "none"
    BY <1>1, <1>2 DEF Things
  <1> QED
    BY <1>3, <1>4, <1>5, <1>6 DEF Things

\* The effects of a layer that changes no user and no file, and the owner of no directory.
LEMMA OtherLayer ==
    ASSUME ImageInv, NEW l, Layer(l),
           l \notin {"user", "debs", "tar", "post", "command"},
           UNCHANGED <<origin, users>>,
           \A d \in Dir : owner[d] # "none" => owner'[d] = owner[d],
           l = "R" => \A f \in needed : There(f),
           l = "pre" => \A f \in results : owner'[dir[f]] # "none"
    PROVE  (Built("post") => owner' = owner) => Effects'
  <1>1. /\ Effects
        /\ \A m \in {"user", "debs", "tar", "post", "command"} : Built(m)' <=> Built(m)
        /\ UNCHANGED world /\ Parents' = Parents
    BY BeforeLayer
  <1>2. Home \in Dir /\ cwd \in Dir /\ Parents \subseteq Dir
    BY DirectoryFacts DEF ImageInv
  <1>3. Things'
    <2>1. \A f : There(f)' <=> There(f)
      BY DEF There
    <2>2. \A d \in Dir : owner[d] # "none" => owner'[d] # "none"
      OBVIOUS
    <2> QED
      BY <2>1, <2>2, ThingsStay
  <1>4. ASSUME Built("post") => owner' = owner PROVE Effects'
    <2>1. Built("user") => owner'[Home] = "user"
      BY <1>1, <1>2 DEF Effects
    <2>2. Built("tar") => \A d \in Parents : owner'[d] # "none"
      BY <1>1, <1>2 DEF Effects
    <2>3. Built("post") => \A d \in Parents \ {cwd} : owner'[d] = hostOwner[d]
      BY <1>1, <1>4 DEF Effects
    <2>4. Built("command") => owner'[cwd] = "user"
      BY <1>1, <1>2 DEF Effects
    <2> QED
      BY <1>1, <1>3, <2>1, <2>2, <2>3, <2>4 DEF Effects, world
  <1> QED
    BY <1>4

LEMMA ImageInvStep ==
    ASSUME ImageInv, [ImageNext]_imageVars
    PROVE  ImageInv'
  <1>1. ImageTree /\ ImageTree'
    BY ImageTypeStep DEF ImageInv
  <1>2. CASE set_lang_and_timezone
    <2>1. Layer("locale") /\ UNCHANGED <<owner, origin, users>>
      BY <1>2 DEF set_lang_and_timezone, fs
    <2>2. Effects'
      BY <2>1, OtherLayer
    <2> QED
      BY <1>1, <1>2, <2>2, LayerKeeps DEF set_lang_and_timezone
  <1>3. CASE create_user
    <2>1. Layer("user")
      BY <1>3 DEF create_user
    <2>2. /\ ~Built("user") /\ ~Built("debs") /\ ~Built("tar") /\ ~Built("post")
          /\ ~Built("command")
      BY <2>1, BeforeLayer DEF Rank
    <2>3. /\ Built("user")' /\ ~Built("debs")' /\ ~Built("tar")' /\ ~Built("post")'
          /\ ~Built("command")'
      BY <2>1, <2>2, BeforeLayer
    <2>4. users' = {"user"} /\ origin' = origin
      BY <1>3 DEF create_user
    <2>5. /\ owner'[Home] = "user"
          /\ \A d \in Dir : owner[d] # "none" => owner'[d] # "none"
      <3>1. owner' = [Mkdir(owner, {Home}) EXCEPT ![Home] = "user"]
        BY <1>3 DEF create_user
      <3>2. Home \in Dir
        BY <1>1, DirectoryFacts
      <3> QED
        BY <3>1, <3>2 DEF Mkdir
    <2>6. Effects
      BY <2>1, BeforeLayer
    <2>7. Things'
      <3>1. \A f : There(f)' <=> There(f)
        BY <2>4 DEF There
      <3> QED
        BY <2>1, <2>5, <3>1, ThingsStay
    <2>8. Effects'
      BY <2>2, <2>3, <2>4, <2>5, <2>6, <2>7 DEF Effects
    <2>9. ~("ubuntu" \in users) => Reason("user")
      BY <2>2, <2>6 DEF Effects, Reason
    <2> QED
      BY <1>1, <1>3, <2>8, <2>9, LayerKeeps DEF create_user
  <1>4. CASE InstallDebs
    <2>1. /\ Layer("debs") /\ UNCHANGED users
          /\ \A f \in File : origin'[f] = IF f \in packaged THEN "package" ELSE origin[f]
      BY <1>4 DEF InstallDebs
    <2>2. Built("user") /\ ~Built("tar") /\ ~Built("post") /\ ~Built("command")
      BY <2>1, BeforeLayer DEF Rank, Ordered
    <2>3. /\ Built("user")' /\ Built("debs")' /\ ~Built("tar")' /\ ~Built("post")'
          /\ ~Built("command")'
      BY <2>1, <2>2, BeforeLayer
    <2>4. \A d \in Dir : owner[d] # "none" => owner'[d] = owner[d]
      BY <1>1, <1>4, MkdirOwner, DirectoryFacts DEF InstallDebs, ImageTree, ImageTypeOK
    <2>5. Effects /\ Home \in Dir
      BY <1>1, <2>1, BeforeLayer, DirectoryFacts
    <2>6. Things'
      <3>1. packaged \subseteq File
        BY <1>1 DEF ImageTree, ImageTypeOK
      <3>2. /\ \A f \in File : There(f) => There(f)'
            /\ \A f \in packaged : There(f)'
        BY <2>1, <3>1 DEF There
      <3> QED
        BY <2>1, <2>4, <3>2, ThingsStay
    <2>7. Effects'
      BY <2>1, <2>2, <2>3, <2>4, <2>5, <2>6 DEF Effects
    <2> QED
      BY <1>1, <1>4, <2>7, LayerKeeps DEF InstallDebs
  <1>5. CASE InstallRPackages
    <2>1. Layer("R") /\ RunLayer(\A f \in needed : There(f)) /\ UNCHANGED <<owner, origin, users>>
      BY <1>5 DEF InstallRPackages, fs
    <2>2. debs => Built("debs")
      BY <2>1, BeforeLayer DEF Ordered, Rank
    <2>3. \A f \in baseTools \cup packaged : There(f)
      BY <2>1, <2>2, BeforeLayer DEF HostWorld, Effects, Things
    <2>4. ~(\A f \in needed : There(f)) => Reason("R")
      BY <2>3 DEF Reason
    <2>5. (\A f \in needed : There(f)) => Effects'
      BY <2>1, OtherLayer
    <2> QED
      BY <1>1, <2>1, <2>4, <2>5, LayerKeeps
  <1>6. CASE generate_pre_file_copy_script
    <2>1. Layer("pre") /\ UNCHANGED <<origin, users>>
      BY <1>6 DEF generate_pre_file_copy_script
    <2>2. ~Built("post")
      BY <2>1, BeforeLayer DEF Rank
    <2>3. \A d \in Dir : owner[d] # "none" => owner'[d] = owner[d]
      BY <1>1, <1>6, MkdirOwner, DirectoryFacts
         DEF generate_pre_file_copy_script, ImageTree, ImageTypeOK
    <2>4. \A f \in results : owner'[dir[f]] # "none"
      <3> DEFINE S == {dir[f] : f \in results}
      <3>1. S \subseteq Dir /\ \A f \in results : dir[f] \in S /\ dir[f] \in up[dir[f]]
        BY <1>1, DockerAssumption DEF ImageTree, ImageTypeOK
      <3>2. owner' = Mkdir(owner, S)
        BY <1>6 DEF generate_pre_file_copy_script
      <3> HIDE DEF S
      <3> QED
        BY <1>1, <3>1, <3>2, MkdirFacts, DirectoryFacts
    <2>5. Effects'
      BY <2>1, <2>2, <2>3, <2>4, OtherLayer
    <2> QED
      BY <1>1, <1>6, <2>5, LayerKeeps DEF generate_pre_file_copy_script
  <1>7. CASE ExtractArchive
    <2>1. Layer("tar") /\ UNCHANGED users
      BY <1>7 DEF ExtractArchive
    <2>2. Built("user") /\ ~Built("post") /\ ~Built("command")
      BY <2>1, BeforeLayer DEF Rank, Ordered
    <2>3. /\ Built("user")' /\ (Built("debs")' <=> Built("debs"))
          /\ ~Built("post")' /\ ~Built("command")'
      BY <2>1, <2>2, BeforeLayer
    <2>4. owner' = Mkdir(owner, {dir[f] : f \in files})
      BY <1>7 DEF ExtractArchive
    <2>5. /\ \A d \in Dir : owner[d] # "none" => owner'[d] = owner[d]
          /\ \A d \in Parents : owner'[d] # "none"
      <3>1. {dir[f] : f \in files} \subseteq Dir
        BY <1>1, DirectoryFacts DEF ImageTree, ImageTypeOK
      <3> DEFINE S == {dir[f] : f \in files}
      <3>2. \A d \in Parents : \E e \in S : d \in up[e]
        BY <1>1, DirectoryFacts
      <3> HIDE DEF S
      <3>3. \A e \in S : \A d \in up[e] : owner'[d] # "none"
        BY <1>1, <2>4, <3>1, MkdirFacts, DirectoryFacts DEF S
      <3>4. \A d \in Dir : owner[d] # "none" => owner'[d] = owner[d]
        BY <1>1, <2>4, <3>1, MkdirOwner
      <3> QED
        BY <3>2, <3>3, <3>4
    <2>6. \A f \in files : origin'[f] = "host"
      BY <1>1, <1>7 DEF ExtractArchive, ImageTree, ImageTypeOK
    <2>7. /\ Effects /\ Home \in Dir
          /\ UNCHANGED world /\ Parents' = Parents
      BY <1>1, <2>1, BeforeLayer, DirectoryFacts
    <2>8. Things'
      <3>1. \A f \in File : origin'[f] = IF f \in files THEN "host" ELSE origin[f]
        BY <1>7 DEF ExtractArchive
      <3>2. \A f \in File : There(f) => There(f)'
        BY <3>1 DEF There
      <3> QED
        BY <2>1, <2>5, <3>2, ThingsStay
    <2>9. Effects'
      BY <2>1, <2>2, <2>3, <2>5, <2>6, <2>7, <2>8 DEF Effects, world
    <2> QED
      BY <1>1, <1>7, <2>9, LayerKeeps DEF ExtractArchive
  <1>8. CASE generate_post_file_copy_script
    <2>1. Layer("post") /\ UNCHANGED <<origin, users>>
      BY <1>8 DEF generate_post_file_copy_script
    <2>2. Built("user") /\ Built("tar") /\ ~Built("command")
      BY <2>1, BeforeLayer DEF Rank, Ordered
    <2>3. /\ Built("user")' /\ (Built("debs")' <=> Built("debs")) /\ Built("tar")'
          /\ ~Built("command")'
      BY <2>1, <2>2, BeforeLayer
    <2>4. /\ Effects /\ HostWorld
          /\ UNCHANGED world /\ Parents' = Parents
      BY <1>1, <2>1, BeforeLayer
    <2>5. /\ Home \in Dir /\ Parents \subseteq Dir
          /\ hostOwner \in [Dir -> {"root", "user"}]
      BY <1>1, DirectoryFacts
    <2>6. /\ \A d \in Parents : owner'[d] = hostOwner[d]
          /\ \A d \in Dir : d \notin Parents => owner'[d] = owner[d]
      BY <1>8, <2>5 DEF generate_post_file_copy_script
    <2>7. owner'[Home] = "user"
      BY <2>2, <2>4, <2>5, <2>6 DEF Effects, HostWorld
    <2>8. Things'
      <3>1. \A f : There(f)' <=> There(f)
        BY <2>1 DEF There
      <3>2. \A d \in Dir : owner[d] # "none" => owner'[d] # "none"
        BY <2>5, <2>6
      <3> QED
        BY <2>1, <3>1, <3>2, ThingsStay
    <2>9. Effects'
      BY <2>1, <2>2, <2>3, <2>4, <2>5, <2>6, <2>7, <2>8 DEF Effects, world
    <2>10. \A d \in Parents : owner[d] # "none"
      BY <2>2, <2>4 DEF Effects
    <2> QED
      BY <1>1, <1>8, <2>9, <2>10, LayerKeeps DEF generate_post_file_copy_script
  <1>9. CASE set_environment
    <2>1. Layer("environment") /\ UNCHANGED <<owner, origin, users>>
      BY <1>9 DEF set_environment, fs
    <2>2. Effects'
      BY <2>1, OtherLayer
    <2> QED
      BY <1>1, <1>9, <2>2, LayerKeeps DEF set_environment
  <1>10. CASE prepare_command
    <2>1. Layer("command") /\ UNCHANGED <<origin, users>>
      BY <1>10 DEF prepare_command
    <2>2. /\ Built("user")
          /\ needed # {} => Built("R")
      BY <2>1, BeforeLayer DEF Rank, Ordered
    <2>3. /\ Effects /\ HostWorld
          /\ UNCHANGED world /\ Parents' = Parents
          /\ \A m \in {"user", "debs", "tar", "post"} : Built(m)' <=> Built(m)
      BY <1>1, <2>1, BeforeLayer
    <2>4. "user" \in users /\ (needed # {} => There(R))
      BY <2>2, <2>3 DEF Effects, Things, HostWorld
    <2> DEFINE m == Mkdir(owner, {cwd})
    <2>5. /\ m \in [Dir -> {"none", "root", "user"}]
          /\ \A d \in Dir : owner[d] # "none" => m[d] = owner[d]
          /\ Home \in Dir /\ cwd \in Dir /\ Parents \subseteq Dir
          /\ hostOwner \in [Dir -> {"root", "user"}]
      BY <1>1, MkdirFacts, DirectoryFacts
    <2>6. owner' = [m EXCEPT ![cwd] = "user"]
      BY <1>10 DEF prepare_command, WorkingDirectory
    <2> HIDE DEF m
    <2>7. /\ owner'[cwd] = "user"
          /\ \A d \in Dir \ {cwd} : owner[d] # "none" => owner'[d] = owner[d]
      BY <2>5, <2>6
    <2>8. owner'[Home] = "user"
      BY <2>2, <2>3, <2>5, <2>7 DEF Effects
    <2>9. Built("tar") => \A d \in Parents : owner'[d] # "none"
      BY <2>3, <2>5, <2>7 DEF Effects
    <2>10. Built("post") => \A d \in Parents \ {cwd} : owner'[d] = hostOwner[d]
      BY <2>3, <2>5, <2>7 DEF Effects
    <2>11. Things'
      <3>1. \A f : There(f)' <=> There(f)
        BY <2>1 DEF There
      <3>2. \A d \in Dir : owner[d] # "none" => owner'[d] # "none"
        BY <2>5, <2>6
      <3> QED
        BY <2>1, <3>1, <3>2, ThingsStay
    <2>12. Effects'
      BY <2>1, <2>2, <2>3, <2>4, <2>7, <2>8, <2>9, <2>10, <2>11 DEF Effects, world
    <2> QED
      BY <1>1, <1>10, <2>4, <2>12, LayerKeeps DEF prepare_command
  <1>11. CASE Unavailable
    <2>1. PICK l : Layer(l)
      BY <1>11 DEF Unavailable
    <2>2. BuiltPrefix' /\ HostWorld'
      BY <1>1, <2>1, LayerFacts DEF ImageInv, HostWorld, Layer, world
    <2> QED
      BY <1>1, <1>11, <2>2
         DEF Unavailable, ImageInv, ImageSoFar, AllBuilt,
             BuildFailsForAReason, DeniedOutsideOnly
  <1>12. CASE RunContainer
    <2>1. /\ status = "built" /\ status' \in {"ran", "denied"}
          /\ UNCHANGED world /\ UNCHANGED <<done, owner>>
      BY <1>12 DEF RunContainer
    <2>2. Effects /\ HostWorld /\ \A l \in Ordered : Built(l)
      BY <2>1 DEF ImageInv, ImageSoFar, AllBuilt
    <2>3. BuiltPrefix' /\ HostWorld'
      BY <2>1, <2>2
         DEF ImageInv, BuiltPrefix, HostWorld, world, Dockerfile,
             install_deb_packages, install_r_packages, copy_files,
             When
    <2>4. ASSUME status' = "denied"
          PROVE  \E f \in results : dir[f] \notin Parents \cup {cwd, Home}
      <3>1. PICK f \in results : owner[dir[f]] # "user"
        BY <1>12, <2>4 DEF RunContainer, Writable
      <3>2. dir[f] # Home
        BY <2>2, <3>1 DEF Effects, Ordered
      <3>3. dir[f] # cwd
        BY <2>2, <3>1 DEF Effects, Ordered
      <3>4. ASSUME dir[f] \in Parents, dir[f] # cwd PROVE FALSE
        <4>1. files # {}
          BY <3>4 DEF Parents
        <4>2. Built("post")
          BY <2>2, <4>1 DEF Ordered
        <4> QED
          BY <2>2, <3>1, <3>4, <4>2 DEF Effects, HostWorld
      <3> QED
        BY <3>1, <3>2, <3>3, <3>4
    <2>5. DeniedOutsideOnly'
      BY <2>1, <2>4 DEF DeniedOutsideOnly, world, Parents
    <2> QED
      BY <1>1, <2>1, <2>3, <2>5
         DEF ImageInv, ImageSoFar, AllBuilt, BuildFailsForAReason
  <1>13. CASE UNCHANGED imageVars
    <2>1. UNCHANGED <<done, status, owner, origin, users>> /\ UNCHANGED world
      BY <1>13 DEF imageVars, fs
    <2>2. UNCHANGED <<Parents, Ordered, Dockerfile>>
      BY <2>1 DEF world, Parents, Ordered, Dockerfile, install_deb_packages,
                  install_r_packages, copy_files, When
    <2>3. BuiltPrefix' /\ HostWorld'
      BY <2>1, <2>2 DEF ImageInv, BuiltPrefix, HostWorld, world
    <2>4. \A l : Built(l)' <=> Built(l)
      BY <2>1 DEF Built
    <2>5. ImageSoFar'
      BY <2>1, <2>2, <2>4 DEF ImageInv, ImageSoFar, Effects, Things, There, world
    <2>6. AllBuilt' /\ BuildFailsForAReason' /\ DeniedOutsideOnly'
      BY <2>1, <2>2, <2>4
         DEF ImageInv, AllBuilt, BuildFailsForAReason, DeniedOutsideOnly, world
    <2> QED
      BY <1>1, <2>3, <2>5, <2>6 DEF ImageInv
  <1> QED
    BY <1>2, <1>3, <1>4, <1>5, <1>6, <1>7, <1>8, <1>9, <1>10, <1>11, <1>12, <1>13
       DEF ImageNext, Build

\* What each layer leaves for the later ones, whichever layers there are.
LEMMA ImageInvariant == ImageSpec => []ImageInv
  <1>1. ImageInit => ImageInv
    BY ImageInvInit
  <1>2. ImageInv /\ [ImageNext]_imageVars => ImageInv'
    BY ImageInvStep
  <1> QED
    BY <1>1, <1>2, PTL DEF ImageSpec

\* The build fails for want of the user ubuntu, or of what R packages need and neither the
\* base image nor a Debian package has; whichever layers this Dockerfile has, those before
\* make what each of the others needs (tracer.h:397, 479-484, 579, 613, 645).
THEOREM LayersFindTheirNeeds == ImageSpec => []BuildFailsForAReason
  <1>1. ImageInv => BuildFailsForAReason
    BY DEF ImageInv
  <1> QED
    BY <1>1, ImageInvariant, PTL

\* In an image that is built the directory of each result is there, unless no file is
\* copied (tracer.h:499, 512).
THEOREM ResultDirectories == ImageSpec => []ResultsHavePlaces
  <1>1. ASSUME ImageInv, status = "built", files # {}
        PROVE  \A f \in results : owner[dir[f]] # "none"
    <2>1. Things /\ Built("pre")
      BY <1>1 DEF ImageInv, ImageSoFar, Effects, AllBuilt, Ordered
    <2> QED
      BY <2>1 DEF Things
  <1>2. ImageInv => ResultsHavePlaces
    BY <1>1 DEF ResultsHavePlaces
  <1> QED
    BY <1>2, ImageInvariant, PTL

\* In an image that is built a copied file is the one of the host, and each directory
\* above it belongs to whom it belongs on the host, but for the working directory
\* (tracer.h:481, 551, 737).
THEOREM ImageAsHost == ImageSpec => []FilesAsOnHost
  <1>1. ASSUME ImageInv, status = "built"
        PROVE  /\ \A f \in files : origin[f] = "host"
               /\ \A d \in Parents \ {cwd} : owner[d] = hostOwner[d]
    <2>1. Effects /\ \A l \in Ordered : Built(l)
      BY <1>1 DEF ImageInv, ImageSoFar, AllBuilt
    <2>2. CASE files = {}
      BY <2>2 DEF Parents
    <2>3. CASE files # {}
      <3>1. Built("tar") /\ Built("post")
        BY <2>1, <2>3 DEF Ordered
      <3> QED
        BY <2>1, <3>1 DEF Effects
    <2> QED
      BY <2>2, <2>3
  <1>2. ImageInv => FilesAsOnHost
    BY <1>1 DEF FilesAsOnHost
  <1> QED
    BY <1>2, ImageInvariant, PTL

\* The program is denied a result only in a directory that has no copied file in it or
\* below it and is neither the working directory nor the home (tracer.h:499, 512, 551).
THEOREM DeniedOutside == ImageSpec => []DeniedOutsideOnly
  <1>1. ImageInv => DeniedOutsideOnly
    BY DEF ImageInv
  <1> QED
    BY <1>1, ImageInvariant, PTL
===============================================================================

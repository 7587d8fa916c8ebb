-------------------------- MODULE ClosureLibsProofs --------------------------
(***************************************************************************)
(* For every graph: what the two closure loops return is the closure, and  *)
(* the first of them does not return from a library that reaches a cycle.  *)
(***************************************************************************)
EXTENDS ClosureLibs, ToSetLemmas, TLAPS

-----------------------------------------------------------------------------
(* The closure.                                                            *)

LEMMA DepsType ==
    ASSUME libDict \in Graphs, NEW v
    PROVE  DepsOf(v) \subseteq Libs
BY GraphAssumption, ElementsIn DEF DepsOf

\* Reach(v) is closed, holds what v needs, and is in every such set.
LEMMA ReachProperties ==
    ASSUME libDict \in Graphs, NEW v
    PROVE  /\ Reach(v) \subseteq Libs
           /\ DepsOf(v) \subseteq Reach(v)
           /\ ClosedUnderDeps(Reach(v))
           /\ \A S \in SUBSET Libs : DepsOf(v) \subseteq S /\ ClosedUnderDeps(S) => Reach(v) \subseteq S
<1>1. \A u : DepsOf(u) \subseteq Libs
  BY DepsType
<1>2. ClosedUnderDeps(Reach(v))
  <2> SUFFICES ASSUME NEW s \in Reach(v), NEW d \in DepsOf(s) PROVE d \in Reach(v)
    BY DEF ClosedUnderDeps
  <2>1. ASSUME NEW S \in SUBSET Libs, DepsOf(v) \subseteq S, ClosedUnderDeps(S)
        PROVE  d \in S
    <3>1. s \in S
      BY <2>1 DEF Reach
    <3> QED BY <2>1, <3>1 DEF ClosedUnderDeps
  <2> QED BY <2>1, <1>1 DEF Reach
<1> QED BY <1>1, <1>2 DEF Reach

\* What v reaches is what it needs, and what that reaches.
LEMMA ReachUnfolds ==
    ASSUME libDict \in Graphs, NEW v
    PROVE  \A e \in Reach(v) : \E w \in DepsOf(v) : e = w \/ e \in Reach(w)
<1> DEFINE S == {e \in Libs : \E w \in DepsOf(v) : e = w \/ e \in Reach(w)}
<1>1. S \in SUBSET Libs /\ DepsOf(v) \subseteq S
  BY DepsType
<1>2. ClosedUnderDeps(S)
  <2> SUFFICES ASSUME NEW s \in S, NEW d \in DepsOf(s) PROVE d \in S
    BY DEF ClosedUnderDeps
  <2>1. PICK w \in DepsOf(v) : s = w \/ s \in Reach(w)
    OBVIOUS
  <2>2. d \in Reach(w)
    BY <2>1, ReachProperties DEF ClosedUnderDeps
  <2> QED BY <2>1, <2>2, DepsType
<1>3. Reach(v) \subseteq S
  BY <1>1, <1>2, ReachProperties
<1> QED BY <1>3

\* A library that reaches a cycle needs one that does.
LEMMA CycleStep ==
    ASSUME libDict \in Graphs, NEW v, ReachesCycle(v)
    PROVE  \E w \in DepsOf(v) : ReachesCycle(w)
<1>1. PICK d \in Reach(v) \cup {v} : d \in Reach(d)
  BY DEF ReachesCycle
<1>2. d \in Reach(v)
  BY <1>1
<1>3. PICK w \in DepsOf(v) : d = w \/ d \in Reach(w)
  BY <1>2, ReachUnfolds
<1> QED BY <1>1, <1>3 DEF ReachesCycle

-----------------------------------------------------------------------------
(* The invariant of the loops.                                             *)

\* Nothing but what is needed is waiting or collected.
OnlyNeeded ==
    /\ first \cup second \subseteq Reach(lib)
    /\ ToSet(result) \subseteq Reach(lib) \cup {lib}

\* What the libraries collected need is collected too, or waiting.
NothingLeftOut ==
    /\ pc \in {"collect", "done"} =>
        \A v \in ToSet(result) \cup {lib} :
            DepsOf(v) \subseteq ToSet(result) \cup first \cup second
    /\ pc = "done" => first = {} /\ second = {}

\* Above a cycle the first loop always has one more library that is above it.
CycleWaits ==
    loop = "unique" /\ ReachesCycle(lib) /\ pc = "collect" =>
        \E v \in first \cup second : ReachesCycle(v)

CycleEndless == loop = "unique" /\ ReachesCycle(lib) => pc # "done"

LoopInv == TypeOK /\ OnlyNeeded /\ NothingLeftOut /\ CycleWaits /\ CycleEndless

\* A step keeps the graph, the library asked for, and so all that is said of them.
LEMMA SameGraph ==
    ASSUME [Next]_vars
    PROVE  /\ libDict' = libDict /\ lib' = lib /\ loop' = loop
           /\ \A v : DepsOf(v)' = DepsOf(v)
           /\ Reach(lib)' = Reach(lib)
           /\ \A v : ReachesCycle(v)' <=> ReachesCycle(v)
           /\ ReachesCycle(lib)' <=> ReachesCycle(lib)
<1>1. libDict' = libDict /\ lib' = lib /\ loop' = loop
  BY DEF Next, NextRound, Return, Take, vars
<1>2. \A v : DepsOf(v)' = DepsOf(v)
  BY <1>1 DEF DepsOf, ToSet
<1>3. \A v : Reach(v)' = Reach(v)
  BY <1>1 DEF Reach, ClosedUnderDeps, DepsOf, ToSet
<1>4. Reach(lib)' = Reach(lib)
  BY <1>1 DEF Reach, ClosedUnderDeps, DepsOf, ToSet
<1>5. \A v : ReachesCycle(v)' <=> ReachesCycle(v)
  BY <1>3 DEF ReachesCycle
<1>6. ReachesCycle(lib)' <=> ReachesCycle(lib)
  BY <1>1, <1>3, <1>4 DEF ReachesCycle
<1> QED BY <1>1, <1>2, <1>4, <1>5, <1>6

LEMMA LoopInit == Init => LoopInv
<1> SUFFICES ASSUME Init PROVE LoopInv
  OBVIOUS
<1>1. libDict \in Graphs /\ lib \in Libs /\ first = DepsOf(lib) /\ second = {}
  BY DEF Init
<1>2. result \in Seq(Libs) /\ ToSet(result) \subseteq {lib}
  <2>1. result = << >> \/ result = <<lib>>
    BY DEF Init
  <2>2. CASE result = << >>
    BY <2>2 DEF ToSet
  <2>3. CASE result = <<lib>>
    BY <2>3, <1>1 DEF ToSet
  <2> QED BY <2>1, <2>2, <2>3
<1>3. DepsOf(lib) \subseteq Libs /\ DepsOf(lib) \subseteq Reach(lib)
  BY <1>1, DepsType, ReachProperties
<1>4. TypeOK
  BY <1>1, <1>2, <1>3 DEF Init, TypeOK
<1>5. OnlyNeeded
  BY <1>1, <1>2, <1>3 DEF OnlyNeeded
<1>6. NothingLeftOut
  BY <1>1, <1>2 DEF Init, NothingLeftOut
<1>7. CycleWaits /\ CycleEndless
  BY <1>1, CycleStep DEF Init, CycleWaits, CycleEndless
<1> QED BY <1>4, <1>5, <1>6, <1>7 DEF LoopInv

\* What one pass of the inner "for" does to the list and to the next round.
LEMMA TakeEffect ==
    ASSUME TypeOK, NEW v \in Libs, Take(v)
    PROVE  /\ v \in first /\ first' = first \ {v}
           /\ result' \in Seq(Libs)
           /\ ToSet(result') = ToSet(result) \cup {v}
           /\ second \subseteq second' /\ second' \subseteq second \cup DepsOf(v)
           /\ (loop = "unique" \/ v \notin ToSet(result)) => second' = second \cup DepsOf(v)
<1>1. result' \in Seq(Libs) /\ ToSet(result') = ToSet(result) \cup {v}
  <2>1. CASE v \in ToSet(result)
    BY <2>1 DEF Take, Found, TypeOK
  <2>2. CASE v \notin ToSet(result)
    BY <2>2, AppendElements DEF Take, Found, TypeOK
  <2> QED BY <2>1, <2>2
<1> QED BY <1>1 DEF Take, Followed

LEMMA TakeStep ==
    ASSUME LoopInv, NEW v \in Libs, Take(v)
    PROVE  LoopInv'
<1>1. TypeOK /\ OnlyNeeded /\ NothingLeftOut /\ CycleWaits /\ CycleEndless
  BY DEF LoopInv
<1>2. /\ v \in first /\ first' = first \ {v}
      /\ result' \in Seq(Libs)
      /\ ToSet(result') = ToSet(result) \cup {v}
      /\ second \subseteq second' /\ second' \subseteq second \cup DepsOf(v)
      /\ (loop = "unique" \/ v \notin ToSet(result)) => second' = second \cup DepsOf(v)
  BY <1>1, TakeEffect
<1>3. pc = "collect" /\ pc' = "collect"
  BY DEF Take
<1>4. /\ libDict' = libDict /\ lib' = lib /\ loop' = loop
      /\ \A u : DepsOf(u)' = DepsOf(u)
      /\ Reach(lib)' = Reach(lib)
      /\ \A u : ReachesCycle(u)' <=> ReachesCycle(u)
      /\ ReachesCycle(lib)' <=> ReachesCycle(lib)
  BY SameGraph DEF Next
<1>5. libDict \in Graphs
  BY <1>1 DEF TypeOK
<1>6. ToSet(result)' = ToSet(result')
  BY DEF ToSet
<1>7. TypeOK'
  <2>1. second' \subseteq Libs
    BY <1>1, <1>2, <1>5, DepsType DEF TypeOK
  <2> QED BY <1>1, <1>2, <1>3, <1>4, <2>1 DEF TypeOK
<1>8. OnlyNeeded'
  <2>1. v \in Reach(lib) /\ DepsOf(v) \subseteq Reach(lib)
    BY <1>1, <1>2, <1>5, ReachProperties DEF OnlyNeeded, ClosedUnderDeps
  <2>2. first' \cup second' \subseteq Reach(lib)
    BY <1>1, <1>2, <2>1 DEF OnlyNeeded
  <2>3. ToSet(result') \subseteq Reach(lib) \cup {lib}
    BY <1>1, <1>2, <2>1 DEF OnlyNeeded
  <2> QED BY <2>2, <2>3, <1>4, <1>6 DEF OnlyNeeded
<1>9. NothingLeftOut'
  <2>1. ASSUME NEW u \in ToSet(result) \cup {v, lib}
        PROVE  DepsOf(u) \subseteq ToSet(result') \cup first' \cup second'
    <3>1. CASE u = v /\ v \notin ToSet(result)
      BY <3>1, <1>2
    <3>2. CASE u \in ToSet(result) \cup {lib}
      <4>1. DepsOf(u) \subseteq ToSet(result) \cup first \cup second
        BY <3>2, <1>1, <1>3 DEF NothingLeftOut
      <4> QED BY <4>1, <1>2
    <3> QED BY <2>1, <3>1, <3>2
  <2>2. (ToSet(result) \cup {lib})' = ToSet(result) \cup {v, lib}
    BY <1>2, <1>4, <1>6
  <2> QED BY <2>1, <2>2, <1>3, <1>4, <1>6 DEF NothingLeftOut
<1>10. CycleWaits'
  <2> SUFFICES ASSUME loop = "unique", ReachesCycle(lib)
               PROVE  \E w \in first' \cup second' : ReachesCycle(w)
    BY <1>4 DEF CycleWaits
  <2>1. PICK u \in first \cup second : ReachesCycle(u)
    BY <1>1, <1>3 DEF CycleWaits
  <2>2. CASE u = v
    <3>1. PICK w \in DepsOf(v) : ReachesCycle(w)
      BY <2>1, <2>2, <1>5, CycleStep
    <3> QED BY <3>1, <1>2
  <2>3. CASE u # v
    BY <2>1, <2>3, <1>2
  <2> QED BY <2>2, <2>3
<1>11. CycleEndless'
  BY <1>3 DEF CycleEndless
<1> QED BY <1>7, <1>8, <1>9, <1>10, <1>11 DEF LoopInv

LEMMA RoundStep ==
    ASSUME LoopInv, NextRound \/ Return \/ UNCHANGED vars
    PROVE  LoopInv'
<1>1. TypeOK /\ OnlyNeeded /\ NothingLeftOut /\ CycleWaits /\ CycleEndless
  BY DEF LoopInv
<1>2. /\ first' \cup second' = first \cup second /\ result' = result
      /\ pc' = pc \/ (pc = "collect" /\ pc' = "done" /\ first = {} /\ second = {})
      /\ pc' = "done" => first' = {} /\ second' = {}
  BY <1>1 DEF NextRound, Return, vars, NothingLeftOut
<1>3. /\ libDict' = libDict /\ lib' = lib /\ loop' = loop
      /\ \A u : DepsOf(u)' = DepsOf(u)
      /\ Reach(lib)' = Reach(lib)
      /\ \A u : ReachesCycle(u)' <=> ReachesCycle(u)
      /\ ReachesCycle(lib)' <=> ReachesCycle(lib)
  BY SameGraph DEF Next
<1>4. ToSet(result)' = ToSet(result)
  BY <1>2 DEF ToSet
<1>5. TypeOK'
  BY <1>1, <1>2, <1>3 DEF TypeOK
<1>6. OnlyNeeded'
  BY <1>1, <1>2, <1>3, <1>4 DEF OnlyNeeded
<1>7. NothingLeftOut'
  <2>1. pc' \in {"collect", "done"} => pc \in {"collect", "done"}
    BY <1>2
  <2>2. ASSUME pc' \in {"collect", "done"}, NEW v \in ToSet(result) \cup {lib}
        PROVE  DepsOf(v) \subseteq ToSet(result) \cup first' \cup second'
    <3>1. DepsOf(v) \subseteq ToSet(result) \cup first \cup second
      BY <2>1, <2>2, <1>1 DEF NothingLeftOut
    <3> QED BY <3>1, <1>2
  <2> QED BY <2>2, <1>2, <1>3, <1>4 DEF NothingLeftOut
<1>8. CycleWaits'
  BY <1>1, <1>2, <1>3 DEF CycleWaits
<1>9. CycleEndless'
  BY <1>1, <1>2, <1>3 DEF CycleWaits, CycleEndless
<1> QED BY <1>5, <1>6, <1>7, <1>8, <1>9 DEF LoopInv

LEMMA LoopInvariant == Spec => []LoopInv
<1>1. LoopInv /\ [Next]_vars => LoopInv'
  BY TakeStep, RoundStep DEF Next
<1> QED BY LoopInit, <1>1, PTL DEF Spec

-----------------------------------------------------------------------------
\* The list, the two rounds and the graph keep their types, on every graph
\* (_collect_unique_libs, _collect_chain_sub_libs).
THEOREM TypeCorrect == Spec => []TypeOK
BY LoopInvariant, PTL DEF LoopInv

\* On every graph, cyclic or not, and in whatever order list(set()) gives the rounds:
\* when one of the loops returns, it returns the closure of what the library needs.
THEOREM ReturnsTheClosure == Spec => []CollectsClosure
<1>1. LoopInv => CollectsClosure
  <2> SUFFICES ASSUME LoopInv, pc = "done"
               PROVE  ToSet(result) \ {lib} = Reach(lib) \ {lib}
    BY DEF CollectsClosure
  <2>1. libDict \in Graphs /\ lib \in Libs /\ result \in Seq(Libs)
    BY DEF LoopInv, TypeOK
  <2>2. ToSet(result) \subseteq Reach(lib) \cup {lib}
    BY DEF LoopInv, OnlyNeeded
  <2>3. \A v \in ToSet(result) \cup {lib} : DepsOf(v) \subseteq ToSet(result)
    BY DEF LoopInv, NothingLeftOut
  <2>4. Reach(lib) \subseteq ToSet(result)
    <3>1. ClosedUnderDeps(ToSet(result)) /\ DepsOf(lib) \subseteq ToSet(result)
      BY <2>3 DEF ClosedUnderDeps
    <3>2. ToSet(result) \in SUBSET Libs
      BY <2>1, ElementsIn
    <3> QED BY <3>1, <3>2, <2>1, ReachProperties
  <2> QED BY <2>2, <2>4
<1> QED BY <1>1, LoopInvariant, PTL

\* On every graph: the first loop, which has no visited check on what it follows, never
\* returns from a library that reaches a cycle (_collect_unique_libs).
THEOREM NoReturnFromCycle == Spec => []CycleNeverReturns
<1>1. LoopInv => CycleNeverReturns
  BY DEF LoopInv, CycleEndless, CycleNeverReturns
<1> QED BY <1>1, LoopInvariant, PTL
=============================================================================

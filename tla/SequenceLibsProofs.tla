------------------------- MODULE SequenceLibsProofs -------------------------
(***************************************************************************)
(* The sequence of the libraries to create is right for every graph and    *)
(* every request.  WorkInv says what the lists hold at each step and in    *)
(* which order, ListInv that nothing is lost and nothing else is listed.   *)
(***************************************************************************)
EXTENDS SequenceLibs, ToSetLemmas, TLAPS

-----------------------------------------------------------------------------
\* DepsBefore, for the graph g.
Ordered(g, s) ==
    \A i \in DOMAIN s : s[i] \in DOMAIN g /\
        \A d \in ToSet(g[s[i]]) : \E j \in DOMAIN s : j < i /\ s[j] = d

LEMMA OrderedAppend ==
    ASSUME NEW g, NEW s \in Seq(Libs), NEW v \in Libs, v \in DOMAIN g,
           Ordered(g, s), ToSet(g[v]) \subseteq ToSet(s)
    PROVE  Ordered(g, Append(s, v))
<1> DEFINE a == Append(s, v)
<1>1. /\ DOMAIN a = 1..(Len(s) + 1) /\ DOMAIN s = 1..Len(s) /\ Len(s) \in Nat
      /\ \A i \in DOMAIN s : i \in DOMAIN a /\ a[i] = s[i]
      /\ a[Len(s) + 1] = v
  BY AppendElements
<1> HIDE DEF a
<1> SUFFICES ASSUME NEW i \in DOMAIN a
             PROVE  a[i] \in DOMAIN g /\
                    \A d \in ToSet(g[a[i]]) : \E j \in DOMAIN a : j < i /\ a[j] = d
  BY DEF Ordered, a
<1>2. CASE i \in DOMAIN s
  <2>1. a[i] = s[i]
    BY <1>1, <1>2
  <2>2. \A d \in ToSet(g[s[i]]) : \E j \in DOMAIN s : j < i /\ s[j] = d
    BY <1>2 DEF Ordered
  <2> QED
    BY <1>1, <1>2, <2>1, <2>2 DEF Ordered
<1>3. CASE i = Len(s) + 1
  <2>1. a[i] = v
    BY <1>1, <1>3
  <2>2. \A d \in ToSet(g[v]) : \E j \in DOMAIN s : s[j] = d
    BY DEF ToSet
  <2>3. \A j \in DOMAIN s : j < i
    BY <1>1, <1>3
  <2> QED
    BY <1>1, <2>1, <2>2, <2>3
<1> QED
  BY <1>1, <1>2, <1>3

-----------------------------------------------------------------------------
(* Types.                                                                  *)

LEMMA DepsType ==
    ASSUME libDict \in Graphs, NEW v \in DOMAIN libDict
    PROVE  v \in Libs /\ libDict[v] \in Seq(Libs)
BY GraphAssumption

LEMMA TypeInit == Init => TypeOK
<1> SUFFICES ASSUME Init PROVE TypeOK
  OBVIOUS
<1>1. libs \in Seq(Libs)
  BY RequestAssumption DEF Init
<1>2. << >> \in Seq(Libs) /\ kept \in 0..Len(result)
  BY DEF Init
<1> QED
  BY <1>1, <1>2 DEF Init, TypeOK

\* While the library at hand is looked at, what it needs is still to be looked at, or in
\* the result, or the library is put back.
LookInv ==
    pc = "look" =>
        /\ first # << >> /\ Head(first) \in DOMAIN libDict
        /\ \A d \in ToSet(libDict[Head(first)]) :
              need \/ d \in ToSet(nex) \/ d \in ToSet(result)

LEMMA TypeStep == TypeOK /\ LookInv /\ [Next]_vars => TypeOK'
<1> SUFFICES ASSUME TypeOK, LookInv, [Next]_vars PROVE TypeOK'
  OBVIOUS
<1>1. CASE Take
  <2>1. libDict[Head(first)] \in Seq(Libs)
    BY <1>1, DepsType DEF Take, TypeOK
  <2> QED
    BY <1>1, <2>1 DEF Take, TypeOK
<1>2. CASE KeyError
  BY <1>2 DEF KeyError, TypeOK
<1>3. ASSUME NEW nvalue \in Libs, Present(nvalue) PROVE TypeOK'
  BY <1>3, TailElements DEF Present, Looking, TypeOK
<1>4. ASSUME NEW nvalue \in Libs, Missing(nvalue) PROVE TypeOK'
  BY <1>4, TailElements, AppendElements DEF Missing, Looking, TypeOK
<1>5. CASE PutBack
  BY <1>5, TailElements, AppendElements DEF PutBack, Looked, LookInv, TypeOK
<1>6. CASE List
  BY <1>6, TailElements, AppendElements DEF List, Looked, LookInv, TypeOK
<1>7. CASE NextRound \/ EndRounds
  BY <1>7, EmptyElements DEF NextRound, EndRounds, TypeOK
<1>8. CASE Dedupe
  BY <1>8, AppendElements DEF Dedupe, Keep, TypeOK
<1>9. CASE EndDedupe \/ UNCHANGED vars
  BY <1>9 DEF EndDedupe, vars, TypeOK
<1> QED
  BY <1>1, <1>2, <1>3, <1>4, <1>5, <1>6, <1>7, <1>8, <1>9 DEF Next
LEMMA LookStep == TypeOK /\ LookInv /\ [Next]_vars => LookInv'
<1> SUFFICES ASSUME TypeOK, LookInv, [Next]_vars PROVE LookInv'
  OBVIOUS
<1>1. CASE Take
  BY <1>1 DEF Take, LookInv
<1>2. ASSUME NEW nvalue \in Libs, Present(nvalue) PROVE LookInv'
  <2>1. ToSet(nex) = {nvalue} \cup ToSet(nex')
    BY <1>2, TailElements DEF Present, Looking, TypeOK
  <2> QED
    BY <1>2, <2>1 DEF Present, Looking, LookInv
<1>3. ASSUME NEW nvalue \in Libs, Missing(nvalue) PROVE LookInv'
  BY <1>3 DEF Missing, Looking, LookInv
<1>4. CASE pc' # "look"
  BY <1>4 DEF LookInv
<1>5. CASE UNCHANGED vars
  BY <1>5 DEF vars, LookInv
<1> QED
  BY <1>1, <1>2, <1>3, <1>4, <1>5
  DEF Next, KeyError, PutBack, List, NextRound, EndRounds, Dedupe, EndDedupe

-----------------------------------------------------------------------------
(* The order of the lists.                                                 *)

\* When the rounds are over nothing waits; the copy is made after them.
EndInv ==
    /\ pc \in {"collect", "look", "KeyError"} => kept = 0 /\ new_result = << >>
    /\ pc \in {"dedupe", "done"} => first = << >> /\ second = << >>
    /\ pc = "done" => kept = Len(result)

\* The copy holds the elements of the result up to "kept", each once.
CopyInv ==
    /\ ToSet(new_result) = {result[i] : i \in 1..kept}
    /\ \A i, j \in DOMAIN new_result : new_result[i] = new_result[j] => i = j

WorkInv == TypeOK /\ LookInv /\ EndInv /\ CopyInv /\ DependencyFirst

LEMMA OrderedIsDepsBefore ==
    DependencyFirst <=> Ordered(libDict, result) /\ Ordered(libDict, new_result)
BY DEF DependencyFirst, DepsBefore, Ordered

LEMMA EndStep == TypeOK /\ LookInv /\ EndInv /\ [Next]_vars => EndInv'
<1> SUFFICES ASSUME TypeOK, LookInv, EndInv, [Next]_vars PROVE EndInv'
  OBVIOUS
<1>1. CASE Take \/ KeyError \/ PutBack
  BY <1>1 DEF Take, KeyError, PutBack, Looked, EndInv
<1>2. CASE List
  BY <1>2 DEF List, Looked, EndInv
<1>3. ASSUME NEW nvalue \in Libs, Present(nvalue) \/ Missing(nvalue) PROVE EndInv'
  BY <1>3 DEF Present, Missing, Looking, EndInv
<1>4. CASE NextRound \/ EndRounds
  BY <1>4 DEF NextRound, EndRounds, EndInv
<1>5. CASE Dedupe \/ EndDedupe
  BY <1>5 DEF Dedupe, EndDedupe, EndInv
<1>6. CASE UNCHANGED vars
  BY <1>6 DEF vars, EndInv
<1> QED
  BY <1>1, <1>2, <1>3, <1>4, <1>5, <1>6 DEF Next

\* A library listed by List has all it needs before it.
LEMMA ListOrder ==
    ASSUME WorkInv, List
    PROVE  Ordered(libDict, result') /\ result' \in Seq(Libs)
<1>1. /\ Head(first) \in Libs /\ Head(first) \in DOMAIN libDict
      /\ nex = << >> /\ ~need /\ result' = Append(result, Head(first))
  BY DepsType DEF List, Looked, WorkInv, LookInv, TypeOK
<1>2. ToSet(libDict[Head(first)]) \subseteq ToSet(result)
  <2>1. ToSet(nex) = {}
    BY <1>1, EmptyElements
  <2> QED
    BY <1>1, <2>1 DEF List, Looked, WorkInv, LookInv
<1>3. Ordered(libDict, result) /\ result \in Seq(Libs)
  BY OrderedIsDepsBefore DEF WorkInv, TypeOK
<1> QED
  BY <1>1, <1>2, <1>3, OrderedAppend, AppendElements

\* The next element of the copy: it is in it already, or all it needs is.
LEMMA DedupeOrder ==
    ASSUME WorkInv, Dedupe
    PROVE  Ordered(libDict, new_result') /\ CopyInv'
<1> DEFINE r == result[kept + 1]
<1>1. /\ kept + 1 \in DOMAIN result /\ kept \in Nat /\ r \in Libs
      /\ result \in Seq(Libs) /\ new_result \in Seq(Libs)
      /\ Ordered(libDict, result) /\ Ordered(libDict, new_result)
      /\ DOMAIN result = 1..Len(result) /\ Len(result) \in Nat /\ kept < Len(result)
  BY OrderedIsDepsBefore DEF WorkInv, TypeOK, Dedupe
<1>2. {result[i] : i \in 1..(kept + 1)} = {result[i] : i \in 1..kept} \cup {r}
  <2>1. 1..(kept + 1) = (1..kept) \cup {kept + 1}
    BY <1>1
  <2> QED
    BY <2>1
<1>3. r \in DOMAIN libDict /\ ToSet(libDict[r]) \subseteq ToSet(new_result)
  <2>1. r \in DOMAIN libDict
    BY <1>1 DEF Ordered
  <2>2. ASSUME NEW d \in ToSet(libDict[r]) PROVE d \in {result[i] : i \in 1..kept}
    <3>1. PICK j \in DOMAIN result : j < kept + 1 /\ result[j] = d
      BY <1>1 DEF Ordered
    <3>2. j \in 1..kept
      BY <3>1, <1>1
    <3> QED
      BY <3>1, <3>2
  <2> QED
    BY <2>1, <2>2 DEF WorkInv, CopyInv
<1>4. UNCHANGED result /\ kept' = kept + 1 /\ new_result' = Keep(r)
  BY DEF Dedupe
<1> HIDE DEF r
<1>5. CASE r \in ToSet(new_result)
  <2>1. new_result' = new_result
    BY <1>4, <1>5 DEF Keep
  <2>2. r \in {result[i] : i \in 1..kept}
    BY <1>5 DEF WorkInv, CopyInv
  <2>3. {result'[i] : i \in 1..kept'} = {result[i] : i \in 1..kept}
    BY <1>2, <1>4, <2>2
  <2> QED
    BY <1>1, <2>1, <2>3 DEF WorkInv, CopyInv
<1>6. CASE r \notin ToSet(new_result)
  <2>1. new_result' = Append(new_result, r)
    BY <1>4, <1>6 DEF Keep
  <2>2. Ordered(libDict, new_result')
    BY <1>1, <1>3, <2>1, OrderedAppend
  <2>3. ToSet(new_result') = {result'[i] : i \in 1..kept'}
    <3>1. ToSet(new_result') = ToSet(new_result) \cup {r}
      BY <1>1, <2>1, AppendElements
    <3>2. ToSet(new_result) = {result[i] : i \in 1..kept}
      BY DEF WorkInv, CopyInv
    <3>3. {result'[i] : i \in 1..kept'} = {result[i] : i \in 1..kept} \cup {r}
      BY <1>2, <1>4
    <3> QED
      BY <3>1, <3>2, <3>3
  <2>4. /\ DOMAIN new_result' = 1..(Len(new_result) + 1) /\ Len(new_result) \in Nat
        /\ DOMAIN new_result = 1..Len(new_result)
        /\ \A i \in DOMAIN new_result : new_result'[i] = new_result[i]
        /\ new_result'[Len(new_result) + 1] = r
    BY <1>1, <2>1, AppendElements
  <2>5. \A i \in DOMAIN new_result : new_result[i] # r
    BY <1>6 DEF ToSet
  <2>6. \A i, j \in DOMAIN new_result' : new_result'[i] = new_result'[j] => i = j
    BY <2>4, <2>5 DEF WorkInv, CopyInv
  <2> QED
    BY <2>2, <2>3, <2>6 DEF CopyInv
<1> QED
  BY <1>5, <1>6

LEMMA OrderStep == WorkInv /\ [Next]_vars => CopyInv' /\ DependencyFirst'
<1> SUFFICES ASSUME WorkInv, [Next]_vars PROVE CopyInv' /\ DependencyFirst'
  OBVIOUS
<1>1. Ordered(libDict, result) /\ Ordered(libDict, new_result) /\ CopyInv
  BY OrderedIsDepsBefore DEF WorkInv
<1>2. DependencyFirst' <=> Ordered(libDict', result') /\ Ordered(libDict', new_result')
  BY DEF DependencyFirst, DepsBefore, Ordered
<1>3. CASE List
  <2>1. kept = 0 /\ new_result = << >>
    BY <1>3 DEF List, Looked, WorkInv, EndInv
  <2>2. UNCHANGED <<libDict, new_result, kept>>
    BY <1>3 DEF List
  <2>3. CopyInv'
    BY <2>1, <2>2 DEF CopyInv, ToSet
  <2> QED
    BY <1>1, <1>2, <1>3, <2>2, <2>3, ListOrder
<1>4. CASE Dedupe
  <2>1. UNCHANGED <<libDict, result>>
    BY <1>4 DEF Dedupe
  <2> QED
    BY <1>1, <1>2, <1>4, <2>1, DedupeOrder
<1>5. CASE UNCHANGED <<libDict, result, new_result, kept>>
  BY <1>1, <1>2, <1>5 DEF CopyInv
<1> QED
  BY <1>3, <1>4, <1>5 DEF Next, Take, KeyError, PutBack, Present, Missing, NextRound,
                         EndRounds, EndDedupe, vars

LEMMA WorkInvariant == Spec => []WorkInv
<1>1. Init => WorkInv
  <2> SUFFICES ASSUME Init PROVE WorkInv
    OBVIOUS
  <2>1. TypeOK /\ LookInv /\ EndInv
    BY TypeInit DEF Init, LookInv, EndInv
  <2>2. Ordered(libDict, << >>) /\ CopyInv
    BY EmptyElements DEF Init, Ordered, CopyInv, ToSet
  <2> QED
    BY <2>1, <2>2, OrderedIsDepsBefore DEF Init, WorkInv
<1>2. WorkInv /\ [Next]_vars => WorkInv'
  BY TypeStep, LookStep, EndStep, OrderStep DEF WorkInv
<1> QED
  BY <1>1, <1>2, PTL DEF Spec

\* The lists hold names, whatever the graph and the request.
THEOREM TypeCorrect == Spec => []TypeOK
BY WorkInvariant, PTL DEF WorkInv

\* For every graph and every request, cyclic or not: a library is never listed before one
\* that it needs, in the list with duplicates or in the one that is returned.
THEOREM DependenciesFirst == Spec => []DependencyFirst
BY WorkInvariant, PTL DEF WorkInv

-----------------------------------------------------------------------------
(* What the list holds.                                                    *)

\* Nothing but what is needed is ever taken up, and no library asked for is dropped.
HoldInv ==
    /\ ToSet(first) \cup ToSet(second) \cup ToSet(nex) \cup ToSet(result)
          \subseteq Needed
    /\ ToSet(libs) \subseteq ToSet(first) \cup ToSet(second) \cup ToSet(result)

LEMMA NeededProperties ==
    ASSUME TypeOK
    PROVE  /\ ToSet(libs) \subseteq Needed
           /\ \A v \in Needed \cap DOMAIN libDict : ToSet(libDict[v]) \subseteq Needed
           /\ \A S \in SUBSET Libs :
                 (/\ ToSet(libs) \subseteq S
                  /\ \A s \in S \cap DOMAIN libDict : ToSet(libDict[s]) \subseteq S)
                    => Needed \subseteq S
<1>1. ToSet(libs) \subseteq Libs
  BY ElementsIn DEF TypeOK
<1>2. \A v \in DOMAIN libDict : ToSet(libDict[v]) \subseteq Libs
  BY DepsType, ElementsIn DEF TypeOK
<1> QED
  BY <1>1, <1>2 DEF Needed

LEMMA HoldStep == TypeOK /\ LookInv /\ HoldInv /\ [Next]_vars => HoldInv'
<1> SUFFICES ASSUME TypeOK, LookInv, HoldInv, [Next]_vars PROVE HoldInv'
  OBVIOUS
<1>1. UNCHANGED <<libDict, libs>> => Needed' = Needed
  BY DEF Needed
<1>2. CASE Take
  <2>1. Head(first) \in Needed \cap DOMAIN libDict
    BY <1>2, TailElements DEF Take, TypeOK, HoldInv
  <2>2. ToSet(nex') \subseteq Needed
    BY <1>2, <2>1, NeededProperties DEF Take
  <2> QED
    BY <1>1, <1>2, <2>2 DEF Take, HoldInv
<1>3. ASSUME NEW nvalue \in Libs, Present(nvalue) PROVE HoldInv'
  <2>1. ToSet(nex') \subseteq ToSet(nex)
    BY <1>3, TailElements DEF Present, Looking, TypeOK
  <2> QED
    BY <1>1, <1>3, <2>1 DEF Present, HoldInv
<1>4. ASSUME NEW nvalue \in Libs, Missing(nvalue) PROVE HoldInv'
  <2>1. ToSet(nex) = {nvalue} \cup ToSet(nex')
    BY <1>4, TailElements DEF Missing, Looking, TypeOK
  <2>2. ToSet(second') = ToSet(second) \cup {nvalue}
    BY <1>4, AppendElements DEF Missing, TypeOK
  <2> QED
    BY <1>1, <1>4, <2>1, <2>2 DEF Missing, HoldInv
<1>5. CASE PutBack
  <2>1. ToSet(first) = {Head(first)} \cup ToSet(first') /\ Head(first) \in Libs
    BY <1>5, TailElements DEF PutBack, Looked, LookInv, TypeOK
  <2>2. ToSet(second') = ToSet(second) \cup {Head(first)}
    BY <1>5, <2>1, AppendElements DEF PutBack, TypeOK
  <2> QED
    BY <1>1, <1>5, <2>1, <2>2 DEF PutBack, HoldInv
<1>6. CASE List
  <2>1. ToSet(first) = {Head(first)} \cup ToSet(first') /\ Head(first) \in Libs
    BY <1>6, TailElements DEF List, Looked, LookInv, TypeOK
  <2>2. ToSet(result') = ToSet(result) \cup {Head(first)}
    BY <1>6, <2>1, AppendElements DEF List, TypeOK
  <2> QED
    BY <1>1, <1>6, <2>1, <2>2 DEF List, HoldInv
<1>7. CASE NextRound
  BY <1>1, <1>7, EmptyElements DEF NextRound, HoldInv
<1>8. CASE UNCHANGED <<libDict, libs, first, second, nex, result>>
  BY <1>1, <1>8 DEF HoldInv
<1> QED
  BY <1>2, <1>3, <1>4, <1>5, <1>6, <1>7, <1>8
  DEF Next, KeyError, EndRounds, Dedupe, EndDedupe, vars

ListInv == WorkInv /\ HoldInv

LEMMA ListInvariant == Spec => []ListInv
<1>1. Init /\ TypeOK => HoldInv
  BY NeededProperties, EmptyElements DEF Init, HoldInv
<1>2. TypeOK /\ LookInv /\ HoldInv /\ [Next]_vars => HoldInv'
  BY HoldStep
<1>3. WorkInv => TypeOK /\ LookInv
  BY DEF WorkInv
<1> QED
  BY <1>1, <1>2, <1>3, WorkInvariant, TypeInit, PTL DEF Spec, ListInv

\* When the function returns, the copy holds what the result holds.
LEMMA ReturnedElements ==
    ASSUME ListInv, pc = "done"
    PROVE  /\ ToSet(new_result) = ToSet(result)
           /\ first = << >> /\ second = << >>
<1>1. kept = Len(result) /\ DOMAIN result = 1..Len(result)
  BY DEF ListInv, WorkInv, EndInv, TypeOK
<1> QED
  BY <1>1 DEF ListInv, WorkInv, EndInv, CopyInv, ToSet

\* For every graph and every request: a library asked for is always waiting or listed, and
\* the returned list has it.
THEOREM RequestsKept == Spec => []NoRequestLost
<1>1. ListInv => NoRequestLost
  <2> SUFFICES ASSUME ListInv PROVE NoRequestLost
    OBVIOUS
  <2>1. pc = "done" => ToSet(libs) \subseteq ToSet(new_result)
    BY ReturnedElements, EmptyElements DEF ListInv, HoldInv
  <2> QED
    BY <2>1 DEF NoRequestLost, ListInv, HoldInv
<1> QED
  BY <1>1, ListInvariant, PTL

\* For every graph and every request: the returned list holds exactly the libraries asked
\* for and those they need, each once.
THEOREM ReturnsTheNeeded == Spec => []ExactlyTheNeeded
<1>1. ListInv => ExactlyTheNeeded
  <2> SUFFICES ASSUME ListInv, pc = "done"
               PROVE  /\ ToSet(new_result) = Needed
                      /\ \A i, j \in DOMAIN new_result : new_result[i] = new_result[j] => i = j
    BY DEF ExactlyTheNeeded
  <2> DEFINE E == ToSet(new_result)
  <2>1. E = ToSet(result) /\ TypeOK /\ Ordered(libDict, new_result)
    BY ReturnedElements, OrderedIsDepsBefore DEF ListInv, WorkInv
  <2>2. E \subseteq Needed /\ ToSet(libs) \subseteq E
    BY <2>1, ReturnedElements, EmptyElements DEF ListInv, HoldInv
  <2>3. \A s \in E : ToSet(libDict[s]) \subseteq E
    <3> SUFFICES ASSUME NEW s \in E, NEW d \in ToSet(libDict[s]) PROVE d \in E
      OBVIOUS
    <3>1. PICK i \in DOMAIN new_result : s = new_result[i]
      BY DEF ToSet
    <3>2. PICK j \in DOMAIN new_result : new_result[j] = d
      BY <2>1, <3>1 DEF Ordered
    <3> QED
      BY <3>2 DEF ToSet
  <2>4. E \subseteq Libs
    BY <2>1, ElementsIn DEF TypeOK
  <2>5. Needed \subseteq E
    BY <2>1, <2>2, <2>3, <2>4, NeededProperties
  <2> QED
    BY <2>2, <2>5 DEF ListInv, WorkInv, CopyInv
<1> QED
  BY <1>1, ListInvariant, PTL

-----------------------------------------------------------------------------
(* What cannot be put in sequence.                                         *)

\* A library all whose needs are in V before it is itself closes no cycle.
LEMMA OneMore ==
    ASSUME NEW V, NEW v, WithoutCycle(V), v \notin V,
           ToSet(libDict[v]) \subseteq V, \A w \in V : ToSet(libDict[w]) \subseteq V
    PROVE  WithoutCycle(V \cup {v})
<1> SUFFICES ASSUME NEW S \in SUBSET (V \cup {v}), S # {}
             PROVE  \E w \in S : ToSet(libDict[w]) \cap S = {}
  BY DEF WithoutCycle
<1> DEFINE R == S \cap V
<1>1. CASE R = {}
  <2>1. S = {v}
    BY <1>1
  <2> QED
    BY <2>1
<1>2. CASE R # {}
  <2>1. PICK w \in R : ToSet(libDict[w]) \cap R = {}
    BY <1>2 DEF WithoutCycle
  <2>2. ToSet(libDict[w]) \cap S = {}
    BY <2>1
  <2> QED
    BY <2>1, <2>2
<1> QED
  BY <1>1, <1>2

\* What the lists hold is in the graph, and so is what it needs.
LEMMA OrderedClosed ==
    ASSUME NEW s, Ordered(libDict, s)
    PROVE  ToSet(s) \subseteq DOMAIN libDict /\ \A v \in ToSet(s) : ToSet(libDict[v]) \subseteq ToSet(s)
<1>1. ASSUME NEW v \in ToSet(s)
      PROVE  v \in DOMAIN libDict /\ ToSet(libDict[v]) \subseteq ToSet(s)
  <2>1. PICK i \in DOMAIN s : v = s[i]
    BY DEF ToSet
  <2>2. ASSUME NEW d \in ToSet(libDict[v]) PROVE d \in ToSet(s)
    <3>1. PICK j \in DOMAIN s : s[j] = d
      BY <2>1 DEF Ordered
    <3> QED
      BY <3>1 DEF ToSet
  <2> QED
    BY <2>1, <2>2 DEF Ordered
<1> QED
  BY <1>1

LEMMA CycleStep ==
    ASSUME WorkInv, WithoutCycle(ToSet(result)), [Next]_vars
    PROVE  WithoutCycle(ToSet(result))'
<1>1. CASE List
  <2> DEFINE v == Head(first)
  <2>1. v \in Libs /\ nex = << >> /\ ~need /\ result' = Append(result, v) /\ UNCHANGED libDict
    BY <1>1, DepsType DEF List, Looked, WorkInv, LookInv, TypeOK
  <2>2. ToSet(libDict[v]) \subseteq ToSet(result)
    BY <1>1, <2>1, EmptyElements DEF List, Looked, WorkInv, LookInv
  <2>3. Ordered(libDict, result) /\ result \in Seq(Libs)
    BY OrderedIsDepsBefore DEF WorkInv, TypeOK
  <2>4. ToSet(result') = ToSet(result) \cup {v}
    BY <2>1, <2>3, AppendElements
  <2> HIDE DEF v
  <2>5. WithoutCycle(ToSet(result) \cup {v})
    <3>1. CASE v \in ToSet(result)
      <4>1. ToSet(result) \cup {v} = ToSet(result)
        BY <3>1
      <4> QED
        BY <4>1
    <3>2. CASE v \notin ToSet(result)
      BY <3>2, <2>2, <2>3, OrderedClosed, OneMore
    <3> QED
      BY <3>1, <3>2
  <2> QED
    BY <2>1, <2>4, <2>5 DEF WithoutCycle
<1>2. CASE UNCHANGED <<libDict, result>>
  BY <1>2 DEF WithoutCycle
<1> QED
  BY <1>1, <1>2 DEF Next, Take, KeyError, PutBack, Present, Missing, NextRound,
                    EndRounds, Dedupe, EndDedupe, vars

LEMMA CycleInvariant == Spec => [](ListInv /\ ExactlyTheNeeded /\ WithoutCycle(ToSet(result)))
<1>1. Init => WithoutCycle(ToSet(result))
  BY EmptyElements DEF Init, WithoutCycle
<1>2. WorkInv /\ WithoutCycle(ToSet(result)) /\ [Next]_vars => WithoutCycle(ToSet(result))'
  BY CycleStep
<1> QED
  BY <1>1, <1>2, WorkInvariant, ListInvariant, ReturnsTheNeeded, PTL DEF Spec

\* For every graph and every request: the function only returns if all that was asked for and
\* all it needs is in the graph and without a cycle.  On anything else it ends with KeyError
\* or goes round for ever; there is no list with a part of it.
THEOREM ReturnsOnlySequenceable == Spec => [](pc = "done" => Sequenceable)
<1>1. ASSUME ListInv, ExactlyTheNeeded, WithoutCycle(ToSet(result)), pc = "done"
      PROVE  Sequenceable
  <2>1. ToSet(result) = Needed
    BY <1>1, ReturnedElements DEF ExactlyTheNeeded
  <2>2. Ordered(libDict, result)
    BY <1>1, OrderedIsDepsBefore DEF ListInv, WorkInv
  <2> QED
    BY <1>1, <2>1, <2>2, OrderedClosed DEF Sequenceable
<1> QED
  BY <1>1, CycleInvariant, PTL
=============================================================================

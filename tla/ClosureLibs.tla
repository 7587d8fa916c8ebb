----------------------------- MODULE ClosureLibs -----------------------------
(***************************************************************************)
(* The two loops of pmodules/ci_conan.py that collect everything a library *)
(* needs, in no order that matters: Conan._collect_unique_libs, which      *)
(* writes the requires.txt of a circle package and the install list, and   *)
(* Conan._collect_chain_sub_libs, which writes the requires.txt of a       *)
(* template package.  (collect_unique_libs of python/createUtil.py is a    *)
(* copy of the first.)                                                     *)
(*                                                                         *)
(* One step is one pass of the body of the inner "for".  The first loop    *)
(* takes its next round from list(set(second)), in whatever order the set  *)
(* gives it; the second has a list without duplicates.  Both are the set   *)
(* of libraries of the round still to be taken.                            *)
(***************************************************************************)
EXTENDS Naturals, SequencesExt

CONSTANTS
    Libs,       \* library names
    Graphs      \* the graphs considered: name -> sequence of the names it needs

ASSUME GraphAssumption ==
    \A g \in Graphs : DOMAIN g \subseteq Libs /\ \A v \in DOMAIN g : g[v] \in Seq(Libs)

VARIABLES
    loop,       \* which of the two functions: "unique" or "chain"
    libDict,    \* the graph
    lib,        \* the library asked for
    first,      \* libraries of this round still to be taken
    second,     \* libraries of the next round
    result,     \* the libraries collected, in the order they were found
    pc          \* "collect", "done" or "KeyError"

vars == <<loop, libDict, lib, first, second, result, pc>>

DepsOf(v) == IF v \in DOMAIN libDict THEN ToSet(libDict[v]) ELSE {}

Init ==
    /\ loop \in {"unique", "chain"}
    /\ libDict \in Graphs
    /\ lib \in Libs
    /\ result \in IF loop = "unique" THEN {<< >>, <<lib>>} ELSE {<< >>}    \* includeSelf
    /\ first = DepsOf(lib)
    /\ second = {}
    /\ pc = IF lib \in DOMAIN libDict THEN "collect" ELSE "KeyError"

Found(v) == result' = IF v \in ToSet(result) THEN result ELSE Append(result, v)

\* Variant (a bug): every library is taken for one without needs of its own.
Followed_None(v) == {}

\* Variant (a bug): the second loop has no visited check either.
Followed_Again(v) == DepsOf(v)

\* Variant (a bug): the first loop has the visited check of the second.
Followed_Once(v) == IF v \in ToSet(result) THEN {} ELSE DepsOf(v)

\* What v adds to the next round: "unique" follows it each time, "chain" only once.
Followed(v) == IF loop = "chain" /\ v \in ToSet(result) THEN {} ELSE DepsOf(v)

Take(v) ==
    /\ pc = "collect"
    /\ v \in first
    /\ Found(v)
    /\ first' = first \ {v}
    /\ second' = second \cup Followed(v)
    /\ UNCHANGED <<loop, libDict, lib, pc>>

NextRound ==
    /\ pc = "collect" /\ first = {} /\ second # {}
    /\ first' = second
    /\ second' = {}
    /\ UNCHANGED <<loop, libDict, lib, result, pc>>

Return ==
    /\ pc = "collect" /\ first = {} /\ second = {}
    /\ pc' = "done"
    /\ UNCHANGED <<loop, libDict, lib, first, second, result>>

Next == NextRound \/ Return \/ \E v \in Libs : Take(v)

Spec == Init /\ [][Next]_vars
FairSpec == Spec /\ WF_vars(Next)   \* a function that is called is run
-----------------------------------------------------------------------------
\* The libraries of the lists are names, and the two rounds are sets of names.
TypeOK ==
    /\ loop \in {"unique", "chain"}
    /\ libDict \in Graphs
    /\ lib \in Libs
    /\ first \subseteq Libs
    /\ second \subseteq Libs
    /\ result \in Seq(Libs)
    /\ pc \in {"collect", "done", "KeyError"}

ClosedUnderDeps(S) == \A s \in S : DepsOf(s) \subseteq S

\* The least set that holds what v needs and all its members need.
Reach(v) ==
    {d \in Libs : \A S \in SUBSET Libs :
        DepsOf(v) \subseteq S /\ ClosedUnderDeps(S) => d \in S}

ReachesCycle(v) == \E d \in Reach(v) \cup {v} : d \in Reach(d)

\* The list returned holds what the library needs, directly or not, and nothing else:
\* no requirement is left out of requires.txt, whichever of the two loops wrote it and
\* in whatever order list(set()) handed the libraries out.
CollectsClosure ==
    pc = "done" => ToSet(result) \ {lib} = Reach(lib) \ {lib}

\* _collect_unique_libs does not return if the library reaches a cycle of the graph.
CycleNeverReturns ==
    pc = "done" /\ loop = "unique" => ~ReachesCycle(lib)

\* In every other case the two functions return: _collect_chain_sub_libs on any graph,
\* _collect_unique_libs as long as no cycle is reached.
Returns ==
    pc = "collect" /\ (loop = "chain" \/ ~ReachesCycle(lib)) ~> pc = "done"
=============================================================================

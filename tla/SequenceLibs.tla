---------------------------- MODULE SequenceLibs ----------------------------
(***************************************************************************)
(* The worklist of Conan._collect_sequece_libs (pmodules/ci_conan.py, and  *)
(* collect_sequece_libs of python/createUtil.py, the same code): from the  *)
(* library graph of conan/graph/libs.xml and the libraries asked for, the  *)
(* list in which they and all they need are created, removed or installed. *)
(*                                                                         *)
(* One step is one pass of the body of a "for", the inner one included;    *)
(* the lists are the code's.                                               *)
(***************************************************************************)
EXTENDS Naturals, SequencesExt

CONSTANTS
    Libs,       \* library names
    Graphs,     \* the graphs considered: name -> sequence of the names it needs
    Requests    \* the lists of libraries considered

ASSUME GraphAssumption ==
    \A g \in Graphs : DOMAIN g \subseteq Libs /\ \A v \in DOMAIN g : g[v] \in Seq(Libs)
ASSUME RequestAssumption == Requests \subseteq Seq(Libs)

VARIABLES
    libDict,        \* the graph; a name it does not know raises KeyError
    libs,           \* the argument: the libraries asked for
    first, second,  \* this round's list, from the library at hand on, and the next one's
    nex,            \* what the library at hand needs and was not looked at yet
    need,           \* something it needs is not in the result
    result,         \* the sequence so far, with duplicates
    new_result,     \* result without them, up to its element "kept"
    kept,
    pc              \* "collect", "look", "dedupe", "done" or "KeyError"

vars == <<libDict, libs, first, second, nex, need, result, new_result, kept, pc>>


Init ==
    /\ libDict \in Graphs
    /\ libs \in Requests
    /\ first = libs
    /\ second = << >>
    /\ nex = << >>
    /\ need = FALSE
    /\ result = << >>
    /\ new_result = << >>
    /\ kept = 0
    /\ pc = "collect"

\* The next library of the round.
Take ==
    /\ pc = "collect" /\ first # << >>
    /\ Head(first) \in DOMAIN libDict
    /\ nex' = libDict[Head(first)]
    /\ need' = FALSE
    /\ pc' = "look"
    /\ UNCHANGED <<libDict, libs, first, second, result, new_result, kept>>

\* Variant (a bug): an unknown library ends the rounds.
KeyError_EndsRounds ==
    /\ pc = "collect" /\ first # << >>
    /\ Head(first) \notin DOMAIN libDict
    /\ pc' = "dedupe"
    /\ UNCHANGED <<libDict, libs, first, second, nex, need, result, new_result, kept>>

KeyError ==
    /\ pc = "collect" /\ first # << >>
    /\ Head(first) \notin DOMAIN libDict
    /\ pc' = "KeyError"
    /\ UNCHANGED <<libDict, libs, first, second, nex, need, result, new_result, kept>>

Looking(nvalue) == pc = "look" /\ nex # << >> /\ Head(nex) = nvalue

Present(nvalue) ==
    /\ Looking(nvalue)
    /\ nvalue \in ToSet(result)
    /\ nex' = Tail(nex)
    /\ UNCHANGED <<libDict, libs, first, second, need, result, new_result, kept, pc>>

\* Variant (a bug): only the last library looked at decides.
Missing_NotNeeded(nvalue) ==
    /\ Looking(nvalue)
    /\ nvalue \notin ToSet(result)
    /\ second' = Append(second, nvalue)
    /\ need' = (Len(nex) = 1)
    /\ nex' = Tail(nex)
    /\ UNCHANGED <<libDict, libs, first, result, new_result, kept, pc>>

\* Variant (a bug): what is missing is not put in the next round.
Missing_Forgotten(nvalue) ==
    /\ Looking(nvalue)
    /\ nvalue \notin ToSet(result)
    /\ UNCHANGED second
    /\ need' = TRUE
    /\ nex' = Tail(nex)
    /\ UNCHANGED <<libDict, libs, first, result, new_result, kept, pc>>

\* Something the library at hand needs is not in the result: the next round has it.
Missing(nvalue) ==
    /\ Looking(nvalue)
    /\ nvalue \notin ToSet(result)
    /\ second' = Append(second, nvalue)
    /\ need' = TRUE
    /\ nex' = Tail(nex)
    /\ UNCHANGED <<libDict, libs, first, result, new_result, kept, pc>>

Looked == pc = "look" /\ nex = << >>

\* Variant (a bug): the library at hand is not put back.
PutBack_Forgotten ==
    /\ Looked /\ need
    /\ UNCHANGED second
    /\ first' = Tail(first)
    /\ pc' = "collect"
    /\ UNCHANGED <<libDict, libs, nex, need, result, new_result, kept>>

\* The library at hand comes again in the next round, after all it lacks.
PutBack ==
    /\ Looked /\ need
    /\ second' = Append(second, Head(first))
    /\ first' = Tail(first)
    /\ pc' = "collect"
    /\ UNCHANGED <<libDict, libs, nex, need, result, new_result, kept>>

\* Nothing is missing: it is listed.
List ==
    /\ Looked /\ ~need
    /\ result' = Append(result, Head(first))
    /\ first' = Tail(first)
    /\ pc' = "collect"
    /\ UNCHANGED <<libDict, libs, second, nex, need, new_result, kept>>

NextRound ==
    /\ pc = "collect" /\ first = << >> /\ second # << >>
    /\ first' = second
    /\ second' = << >>
    /\ UNCHANGED <<libDict, libs, nex, need, result, new_result, kept, pc>>

EndRounds ==
    /\ pc = "collect" /\ first = << >> /\ second = << >>
    /\ pc' = "dedupe"
    /\ UNCHANGED <<libDict, libs, first, second, nex, need, result, new_result, kept>>

\* Variant (a bug): duplicates are kept.
Keep_All(r) == Append(new_result, r)

Keep(r) == IF r \in ToSet(new_result) THEN new_result ELSE Append(new_result, r)

Dedupe ==
    /\ pc = "dedupe" /\ kept < Len(result)
    /\ new_result' = Keep(result[kept + 1])
    /\ kept' = kept + 1
    /\ UNCHANGED <<libDict, libs, first, second, nex, need, result, pc>>

EndDedupe ==
    /\ pc = "dedupe" /\ kept = Len(result)
    /\ pc' = "done"
    /\ UNCHANGED <<libDict, libs, first, second, nex, need, result, new_result, kept>>

Next ==
    \/ Take \/ KeyError \/ PutBack \/ List
    \/ \E nvalue \in Libs : Present(nvalue) \/ Missing(nvalue)
    \/ NextRound \/ EndRounds \/ Dedupe \/ EndDedupe

Spec == Init /\ [][Next]_vars

-----------------------------------------------------------------------------
\* The lists are lists of names; the copy without duplicates is behind the list it copies.
TypeOK ==
    /\ libDict \in Graphs
    /\ libs \in Seq(Libs)
    /\ first \in Seq(Libs)
    /\ second \in Seq(Libs)
    /\ nex \in Seq(Libs)
    /\ need \in BOOLEAN
    /\ result \in Seq(Libs)
    /\ new_result \in Seq(Libs)
    /\ kept \in 0..Len(result)
    /\ pc \in {"collect", "look", "dedupe", "done", "KeyError"}

\* In the list s, everything a library needs stands before it.
DepsBefore(s) ==
    \A i \in DOMAIN s : s[i] \in DOMAIN libDict /\
        \A d \in ToSet(libDict[s[i]]) : \E j \in DOMAIN s : j < i /\ s[j] = d

\* Dependencies are created before what needs them: at no time, and so not when the
\* list is returned, does a library stand in it before one that it needs.
DependencyFirst == DepsBefore(result) /\ DepsBefore(new_result)

\* A library asked for is never lost between the rounds: it is waiting or listed, and
\* the returned list has it.
NoRequestLost ==
    /\ \A v \in ToSet(libs) :
          v \in ToSet(first) \cup ToSet(second) \cup ToSet(result)
    /\ pc = "done" => ToSet(libs) \subseteq ToSet(new_result)

Needed ==
    {v \in Libs : \A S \in SUBSET Libs :
        (/\ ToSet(libs) \subseteq S
         /\ \A s \in S \cap DOMAIN libDict : ToSet(libDict[s]) \subseteq S) => v \in S}

\* The returned list holds exactly the libraries asked for and those they need, directly
\* or not, each once.
ExactlyTheNeeded ==
    pc = "done" =>
        /\ ToSet(new_result) = Needed
        /\ \A i, j \in DOMAIN new_result : new_result[i] = new_result[j] => i = j

\* None of the libraries in V needs itself through others of them: in each part of V one
\* needs nothing of that part.
WithoutCycle(V) ==
    \A S \in SUBSET V : S # {} => \E v \in S : ToSet(libDict[v]) \cap S = {}

Sequenceable == Needed \subseteq DOMAIN libDict /\ WithoutCycle(Needed)

Acyclic == WithoutCycle(DOMAIN libDict)
=============================================================================

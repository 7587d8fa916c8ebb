---------------------------- MODULE RecipeCreate ----------------------------
(***************************************************************************)
(* conan.py --type patch|subs|whole|project: the packages of the library   *)
(* graph (conan/graph/libs.xml), created from the templates of             *)
(* conan/recipes.  The libraries are put in sequence by the worklist of    *)
(* SequenceLibs, or taken as they stand in a patch file; with -r they are  *)
(* removed first; then each is created, Debug and Release, and with -u     *)
(* uploaded before the next one is created.  A create that fails ends the  *)
(* process; a remove or an upload that fails is not noticed, and such an   *)
(* upload may have published some of the package.                          *)
(***************************************************************************)
EXTENDS SequenceLibs

CONSTANTS
    Options,        \* [remove, upload : BOOLEAN]: -r and -u
    Stores,         \* what the cache or the remote may hold before the run
    MaxFailed       \* bound: how many removes and uploads fail

ASSUME StoreAssumption == Stores \subseteq [Libs -> [{"Debug", "Release"} -> {"none", "recipe", "old"}]]
ASSUME OptionAssumption == Options \subseteq [remove : BOOLEAN, upload : BOOLEAN]
ASSUME FailedAssumption == MaxFailed \in Nat

VARIABLES
    type,       \* "patch" (the list as it is), or "sequence"
    opts,       \* the options of the run
    cache,      \* of each build type: nothing, the recipe without a binary, or a binary that
                \* is new (a create of this run made it) or old (anything else did)
    remote,     \* the same of the remote
    list,       \* the libraries to create
    turn,       \* the place in it
    phase,      \* what the process does
    failed      \* the removes and uploads that failed

run      == <<type, opts>>
stores   == <<cache, remote>>
creation == <<run, stores, list, turn, phase, failed>>

BuildTypes == {"Debug", "Release"}      \* created in this order

-----------------------------------------------------------------------------
(* What a library needs, and what conan finds of it.                       *)

\* The libraries _collect_chain_sub_libs finds, all of which go into requires.txt: those
\* in every set that has what v needs and what its members need.
Chain(v) ==
    LET Closed == {S \in SUBSET Libs :
                      /\ ToSet(libDict[v]) \subseteq S
                      /\ \A s \in S \cap DOMAIN libDict : ToSet(libDict[s]) \subseteq S}
    IN  {d \in Libs : \A S \in Closed : d \in S}

NoBinary == {"none", "recipe"}
OnlyRecipe == [t \in BuildTypes |-> "recipe"]

\* conan knows the recipe, from the cache or the remote.
Known(d) == \E t \in BuildTypes : cache[d][t] # "none" \/ remote[d][t] # "none"

\* The recipe installs both build types of requires.txt, whichever type it is built for:
\* what the cache lacks comes from the remote, or is built from its recipe (--build=missing).
Lacking(v) == {b \in Chain(v) \X BuildTypes : cache[b[1]][b[2]] \in NoBinary}

Brought(binaries) ==
    [d \in Libs |-> [t \in BuildTypes |->
        IF <<d, t>> \notin binaries THEN cache[d][t]
        ELSE IF remote[d][t] \in NoBinary THEN "old" ELSE remote[d][t]]]

Fails(call) ==
    /\ Cardinality(failed) < MaxFailed
    /\ failed' = failed \cup {call}

Works == UNCHANGED failed

-----------------------------------------------------------------------------
RecipeInit ==
    /\ Init
    /\ type \in {"patch", "sequence"}
    /\ opts \in Options
    /\ cache \in Stores
    /\ remote \in Stores
    /\ list = << >>
    /\ turn = 1
    /\ phase = "order"
    /\ failed = {}

Order ==
    /\ phase = "order" /\ type = "sequence"
    /\ Next
    /\ UNCHANGED creation

\* Variant (a bug): the libraries are created as they were asked for.
InOrder_AsAsked == libs

\* The list in the order of the worklist.
InOrder == new_result

\* An unknown library ends the process in the worklist (KeyError); a patch file is taken
\* as it is.
Listed ==
    /\ phase = "order"
    /\ \/ type = "patch" /\ list' = libs
       \/ type = "sequence" /\ pc = "done" /\ list' = InOrder
    /\ phase' = IF opts.remove THEN "remove" ELSE "create"
    /\ UNCHANGED <<vars, run, stores, turn, failed>>

AtHand(p, v) == phase = p /\ turn \in DOMAIN list /\ list[turn] = v

\* All of the list is removed before any of it is created.
RemoveOld(v) ==
    /\ AtHand("remove", v)
    /\ turn' = turn + 1
    /\ \/ cache' = [cache EXCEPT ![v] = [t \in BuildTypes |-> "none"]] /\ Works
       \/ UNCHANGED cache /\ Fails(<<"remove", v>>)
    /\ UNCHANGED <<vars, run, remote, list, phase>>

Removed ==
    /\ phase = "remove" /\ turn \notin DOMAIN list
    /\ turn' = 1
    /\ phase' = "create"
    /\ UNCHANGED <<vars, run, stores, list, failed>>

\* Variant (a bug): an unknown library ends the loop.
Skip_Ends(v) ==
    /\ AtHand("create", v) /\ v \notin DOMAIN libDict
    /\ turn' = Len(list) + 1
    /\ UNCHANGED <<vars, run, stores, list, phase, failed>>

\* A library the graph does not know is passed over.
Skip(v) ==
    /\ AtHand("create", v) /\ v \notin DOMAIN libDict
    /\ turn' = turn + 1
    /\ UNCHANGED <<vars, run, stores, list, phase, failed>>

\* The next thing to do for a library after its build of type t.
After(t) == IF t = "Debug" THEN "release" ELSE IF opts.upload THEN "upload" ELSE "created"

Creating(v, t) ==
    /\ AtHand(IF t = "Debug" THEN "create" ELSE "release", v)
    /\ v \in DOMAIN libDict

CreateSucceeds(v, t) ==
    /\ Creating(v, t)
    /\ \A b \in Lacking(v) : Known(b[1])
    /\ cache' = [Brought(Lacking(v)) EXCEPT ![v] = [cache[v] EXCEPT ![t] = "new"]]
    /\ phase' = After(t)
    /\ UNCHANGED <<vars, run, remote, list, turn, failed>>

\* Variant (a bug): the build after it goes on (forceExit is False).
CreateFails_Ignored(v, t) ==
    /\ Creating(v, t)
    /\ phase' = After(t)
    /\ UNCHANGED <<vars, run, stores, list, turn, failed>>

\* For want of a requirement, or for any other reason: the process exits.  Some requirements
\* may have been installed, and a new recipe without its binary exported.
CreateFails(v, t) ==
    /\ Creating(v, t)
    /\ \E some \in SUBSET {b \in Lacking(v) : Known(b[1])} :
           cache' \in {Brought(some),
                      [Brought(some) EXCEPT ![v] = [cache[v] EXCEPT ![t] = "recipe"]]}
    /\ phase' = "failed"
    /\ UNCHANGED <<vars, run, remote, list, turn, failed>>

\* conan upload --all: the recipe with the binaries the cache has of it.  One that fails may
\* have sent some, or the recipe alone, with or without the binaries the remote had.
Upload(v) ==
    /\ AtHand("upload", v)
    /\ \/ remote' = [remote EXCEPT ![v] = cache[v]] /\ Works
       \/ /\ \E types \in SUBSET BuildTypes : \E others \in {remote[v], OnlyRecipe} :
                  remote' = [remote EXCEPT ![v] =
                      [t \in BuildTypes |-> IF t \in types THEN cache[v][t] ELSE others[t]]]
          /\ Fails(<<"upload", v>>)
    /\ phase' = "created"
    /\ UNCHANGED <<vars, run, cache, list, turn>>

NextLib ==
    /\ phase = "created"
    /\ turn' = turn + 1
    /\ phase' = "create"
    /\ UNCHANGED <<vars, run, stores, list, failed>>

Return ==
    /\ phase = "create" /\ turn \notin DOMAIN list
    /\ phase' = "returned"
    /\ UNCHANGED <<vars, run, stores, list, turn, failed>>

Create(v, t) == CreateSucceeds(v, t) \/ CreateFails(v, t)

RecipeNext ==
    \/ Order \/ Listed
    \/ \E v \in Libs : RemoveOld(v) \/ Skip(v) \/ Upload(v) \/ \E t \in BuildTypes : Create(v, t)
    \/ Removed \/ NextLib \/ Return

RecipeSpec == RecipeInit /\ [][RecipeNext]_<<vars, creation>>
FairRecipeSpec == RecipeSpec /\ WF_<<vars, creation>>(RecipeNext)   \* the process runs

-----------------------------------------------------------------------------
AllNew == [t \in BuildTypes |-> "new"]
IsNew(v) == cache[v] = AllNew

\* Whole on the remote, but for an upload of v itself that failed.
Published(v) == remote[v] = AllNew \/ <<"upload", v>> \in failed

\* Types of what SequenceLibs does not have.
RecipeTypeOK ==
    /\ type \in {"patch", "sequence"}
    /\ opts \in Options
    /\ cache \in [Libs -> [BuildTypes -> {"none", "recipe", "old", "new"}]]
    /\ remote \in [Libs -> [BuildTypes -> {"none", "recipe", "old", "new"}]]
    /\ list \in Seq(Libs)
    /\ turn \in 1..(Len(list) + 1)
    /\ phase \in {"order", "remove", "create", "release", "upload", "created",
                  "returned", "failed"}
    /\ failed \subseteq {"remove", "upload"} \X Libs

\* With subs, whole and project, a library is only linked with libraries created before it
\* in the same run, all it needs directly or not, in both build types: never with what an
\* earlier run left in the cache, nor with what the remote has.
CreatedOnCreated ==
    type = "sequence" =>
        \A v \in Libs : (\E t \in BuildTypes : cache[v][t] = "new") =>
            v \in DOMAIN libDict /\ \A d \in Chain(v) : IsNew(d)

\* The run publishes what it created whole, and with subs, whole and project after all it
\* needs: of a package of this run the remote has both build types of this run, and of all
\* the package needs too, except where the upload of the very package that is incomplete
\* failed.  No failure of another package, of a create or of a remove makes it so.
PublishesWhole ==
    \A v \in Libs : (\E t \in BuildTypes : remote[v][t] = "new") =>
        /\ Published(v)
        /\ type = "sequence" => \A d \in Chain(v) : Published(d)

\* A process that returns has created all it was asked for, and with subs, whole and
\* project all that needs, except what the graph does not know.
CreatesAll ==
    phase = "returned" =>
        \A v \in (IF type = "patch" THEN ToSet(libs) ELSE Needed) \cap DOMAIN libDict : IsNew(v)

\* With subs, whole and project it is all or nothing: no package is removed, created or
\* published unless all that was asked for, and all it needs, is in the graph and without
\* a cycle.  An unknown library or a cycle deep down stops the run before it touches any.
OnlySequenced ==
    [][type = "sequence" /\ stores' # stores => Sequenceable]_<<vars, creation>>

\* On a graph without cycles the process ends: it returns, or a create failed, or the
\* sequence of what was asked for has a library the graph does not know.
Ends ==
    Acyclic ~> \/ phase \in {"returned", "failed"}
               \/ pc = "KeyError" /\ ~(Needed \subseteq DOMAIN libDict)
=============================================================================

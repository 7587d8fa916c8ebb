--------------------------- MODULE CircleCreator ---------------------------
(***************************************************************************)
(* The "circle" package builder of pmodules/ci_conan.py: one CI process    *)
(* (class ConanCircleCreator, driven by Conan.create_circle_conan and      *)
(* Conan.create_one) that brings the conan packages of a project up to     *)
(* date with the HEADs of their git branches, and uploads them.            *)
(*                                                                         *)
(* Around it, and out of its control: developers push to the branches, git *)
(* and conan commands fail, the process is killed and started again.  What *)
(* survives a process is on disk: the sparse checkouts, the local conan    *)
(* cache and the conan remote.                                             *)
(*                                                                         *)
(* The Python call stack is the sequence "agenda": the calls still to be   *)
(* made, the running one first.  start_cache does its own work before it   *)
(* recurses, so a call is replaced by the calls on its build_deps;         *)
(* create_circle_recipe works after it has recursed, so a call is replaced *)
(* by the calls on its build_deps and then a "build" of the recipe.        *)
(***************************************************************************)
EXTENDS Integers, Sequences, FiniteSets

CONSTANTS
    Recipes,        \* recipe references "name/version"; each has a directory in conan/recipes
    MaxCommit,      \* bound: commits a version-X branch can get
    DepsAt,         \* DepsAt[r][c]: build_deps of conandata.yml at commit c of r
    Roots,          \* build_deps of the project's own conandata.yml files
    Requested,      \* recipes the operator asks for one by one (create_one)
    Pinned,         \* recipes create_circle_recipe always takes as updated ('tbb-0.0.2')
    RecursionLimit, \* Python's limit on nested create_circle_recipe calls
    Faults,         \* which kinds of failure the environment may inject
    MaxFaults       \* bound: failures injected in a behaviour

Commits    == 1..MaxCommit
NoCommit   == 0         \* '' : git rev-parse HEAD failed, or no commit_id in the conan data
Absent     == -1        \* no such recipe (or no meta) at all
NoBinary   == 0
BuildTypes == {"Debug", "Release"}
FaultKinds == {"network", "inspect", "search", "remove", "build", "upload", "crash"}

ASSUME CommitAssumption == MaxCommit \in Nat \ {0}
ASSUME DepsAssumption ==
    /\ DepsAt \in [Recipes -> [0..MaxCommit -> Seq(Recipes)]]
    /\ \A r \in Recipes : DepsAt[r][NoCommit] = << >>   \* no conandata.yml: only a warning
    /\ Roots \in Seq(Recipes)
    /\ Requested \subseteq Recipes
    /\ Pinned \subseteq Recipes
ASSUME BoundsAssumption ==
    /\ RecursionLimit \in Nat
    /\ MaxFaults \in Nat
    /\ Faults \subseteq FaultKinds

VARIABLES
    head,       \* head[r]: HEAD commit of the recipe's branch on the git server
    checkout,   \* checkout[r]: HEAD of the sparse checkout kept on the CI machine
    exported,   \* exported[r]: commit_id in the recipe of the local conan cache, or Absent
    src,        \* src[r]: commit of the source clone in the local conan cache, or NoBinary
    bin,        \* bin[r][t]: commit the local binary of build type t was built from
    remoteRecipe, remoteBin,    \* the same two on the conan remote
    agenda,     \* the process's pending calls; empty when no process runs
    stage,      \* where the running "build" is: create_conan_2 and the upload after it
    meta,       \* conan_metas[r].rep_commit_id, or Absent: the recipe is not cached
    upload,     \* the process's -u option
    misread,    \* history: packages this process took for stale as a conan query failed
    faults      \* failures injected so far

local   == <<exported, src, bin>>
remote  == <<remoteRecipe, remoteBin>>
process == <<agenda, stage, meta, upload, misread>>
vars    == <<head, checkout, local, remote, process, faults>>

-----------------------------------------------------------------------------
Ops    == {"purge", "cache", "create", "build"}
Calls(op, libs) == [i \in DOMAIN libs |-> [op |-> op, lib |-> libs[i]]]
Calling(op, r)  == agenda # << >> /\ Head(agenda) = [op |-> op, lib |-> r]
Return          == agenda' = Tail(agenda)

\* sys.exit(2) of executor.run, an exception, a kill: every pending call is lost.
Exit == /\ agenda' = << >>
        /\ stage' = "remove"
        /\ meta' = [r \in Recipes |-> Absent]
        /\ upload' = FALSE
        /\ misread' = {}

Fault(kind) == /\ kind \in Faults
               /\ faults < MaxFaults
               /\ faults' = faults + 1

NoFault == UNCHANGED faults

Deps(r) == IF meta[r] = Absent THEN {} ELSE {DepsAt[r][meta[r]][i] : i \in DOMAIN DepsAt[r][meta[r]]}

\* _collect_unique_libs(dep_graph, r): all that r needs, r itself only on a cycle.
Requires(r) ==
    {d \in Recipes : \A S \in SUBSET Recipes :
        (Deps(r) \subseteq S /\ \A s \in S : Deps(s) \subseteq S) => d \in S}

\* Its loop has no visited check: from a recipe that reaches a cycle it never ends
\* (CycleNeverReturns of ClosureLibs).
ReachesCycle(r) == \E d \in Requires(r) \cup {r} : d \in Requires(d)

-----------------------------------------------------------------------------
(* The package r in the local cache.                                       *)

HasBinary(r) == \E t \in BuildTypes : bin[r][t] # NoBinary

\* Variant (a bug): any package counts as updated, its commit_id is not compared.
UpToDate_AnyCommit(r) == HasBinary(r)

UpToDate(r) == HasBinary(r) /\ exported[r] = meta[r]

\* conan remove r -f
Removed(r) ==
    /\ exported' = [exported EXCEPT ![r] = Absent]
    /\ src' = [src EXCEPT ![r] = NoBinary]
    /\ bin' = [bin EXCEPT ![r] = [t \in BuildTypes |-> NoBinary]]

\* _remove_package: only if conan search tells that the recipe is there, and it tells
\* nothing when it fails; the result of conan remove is ignored.
RemovePackage(r) ==
    \/ /\ exported[r] # Absent
       /\ Removed(r)
       /\ NoFault
    \/ /\ exported[r] = Absent
       /\ UNCHANGED local
       /\ NoFault
    \/ /\ exported[r] # Absent
       /\ UNCHANGED local
       /\ Fault("remove") \/ Fault("search")

\* The premise of what is promised for a conan remove that works.
RemovesWork == Faults \cap {"remove", "search"} = {}

(* conan install --build=missing of one required package d: the recipe     *)
(* comes from the local cache or else from the remote; a missing binary is *)
(* downloaded if the remote holds one of that very recipe, else built.     *)

RecipeOf(d) == IF exported[d] = Absent THEN remoteRecipe[d] ELSE exported[d]

RemoteHas(d, t) == remoteRecipe[d] = RecipeOf(d) /\ remoteBin[d][t] # NoBinary

SourceOf(d) == IF src[d] = NoBinary THEN head[d] ELSE src[d]

BuiltMissing(d) == \E t \in BuildTypes : bin[d][t] = NoBinary /\ ~RemoteHas(d, t)

BinaryOf(d, t) ==
    IF bin[d][t] # NoBinary THEN bin[d][t]
    ELSE IF RemoteHas(d, t) THEN remoteBin[d][t] ELSE SourceOf(d)

Obtainable(d) == RecipeOf(d) # Absent

\* Variant (a bug): a clone that is not there is taken for one.
SourceKept_Sentinel(r) == IF exported[r] = meta[r] THEN src[r] ELSE Absent

\* Variant (a bug): a clone is kept whatever commit the exported recipe records.
SourceKept_Any(r) == src[r]

\* Exporting a recipe that records another commit drops the source clone.
SourceKept(r) == IF exported[r] = meta[r] THEN src[r] ELSE NoBinary

\* conanfile.source clones the HEAD of the branch if there is no clone.
SourceCloned(r) == IF SourceKept(r) = NoBinary THEN head[r] ELSE SourceKept(r)

\* Variant (a bug): the recorded commit is looked up on the server at build time.
ConanCreate_LateCommit(r, t, got, source, binary) ==
    /\ exported' = [d \in Recipes |->
           IF d = r THEN head[r] ELSE IF d \in got THEN RecipeOf(d) ELSE exported[d]]
    /\ src' = [d \in Recipes |->
           IF d = r THEN source
           ELSE IF d \in got /\ BuiltMissing(d) THEN SourceOf(d) ELSE src[d]]
    /\ bin' = [d \in Recipes |->
           IF d = r THEN [bin[r] EXCEPT ![t] = binary]
           ELSE IF d \in got THEN [u \in BuildTypes |-> BinaryOf(d, u)] ELSE bin[d]]

(* conan create of recipe r with build type t: exports it with the commit  *)
(* recorded in it, obtains the packages in got, and leaves this source     *)
(* clone and this binary.                                                  *)
ConanCreate(r, t, got, source, binary) ==
    /\ exported' = [d \in Recipes |->
           IF d = r THEN meta[r] ELSE IF d \in got THEN RecipeOf(d) ELSE exported[d]]
    /\ src' = [d \in Recipes |->
           IF d = r THEN source
           ELSE IF d \in got /\ BuiltMissing(d) THEN SourceOf(d) ELSE src[d]]
    /\ bin' = [d \in Recipes |->
           IF d = r THEN [bin[r] EXCEPT ![t] = binary]
           ELSE IF d \in got THEN [u \in BuildTypes |-> BinaryOf(d, u)] ELSE bin[d]]

-----------------------------------------------------------------------------
(* The process.                                                            *)

Started(calls, up) ==
    /\ agenda = << >>
    /\ agenda' = calls
    /\ upload' = up
    /\ meta' = [r \in Recipes |-> Absent]
    /\ misread' = {}
    /\ UNCHANGED <<head, checkout, local, remote, stage, faults>>

CreateCircle(up) == Started(Calls("cache", Roots) \o Calls("create", Roots), up)

CreateOne(r, up, remove) ==
    Started((IF remove THEN Calls("purge", <<r>>) ELSE << >>)
                \o Calls("cache", <<r>>) \o Calls("create", <<r>>), up)

Purge(r) ==
    /\ Calling("purge", r)
    /\ RemovePackage(r)
    /\ Return
    /\ UNCHANGED <<head, checkout, remote, stage, meta, upload, misread>>

CacheHit(r) ==
    /\ Calling("cache", r)
    /\ meta[r] # Absent
    /\ Return
    /\ UNCHANGED <<head, checkout, local, remote, stage, meta, upload, misread, faults>>

\* Variant (a bug): a recipe already cached is cached again.
Cache_Unvisited(r) ==
    /\ Calling("cache", r)
    /\ checkout' = [checkout EXCEPT ![r] = head[r]]
    /\ NoFault
    /\ meta' = [meta EXCEPT ![r] = checkout'[r]]
    /\ agenda' = Calls("cache", DepsAt[r][meta'[r]]) \o Tail(agenda)
    /\ UNCHANGED <<head, local, remote, stage, upload, misread>>

\* _sparse_checkout: if both git pulls fail, what was checked out before is used.
Cache(r) ==
    /\ Calling("cache", r)
    /\ meta[r] = Absent
    /\ \/ /\ checkout' = [checkout EXCEPT ![r] = head[r]]
          /\ NoFault
       \/ /\ UNCHANGED checkout
          /\ Fault("network")
    /\ meta' = [meta EXCEPT ![r] = checkout'[r]]
    /\ agenda' = Calls("cache", DepsAt[r][meta'[r]]) \o Tail(agenda)
    /\ UNCHANGED <<head, local, remote, stage, upload, misread>>

\* conan inspect brings the recipe, without binaries, from the remote if it has to.
Inspect(r) ==
    /\ exported' \in {exported, [exported EXCEPT ![r] = RecipeOf(r)]}
    /\ UNCHANGED <<src, bin>>

\* 'is updated': conan search names binaries, and the commit_id conan inspect shows is
\* the one that was read.  An inspect that fails shows '', and so is equal to a commit id
\* that git rev-parse could not read.
SeenUpdated(r) ==
    \/ (UpToDate(r) \/ r \in Pinned) /\ NoFault
    \/ HasBinary(r) /\ meta[r] = NoCommit /\ Fault("inspect")

\* Otherwise; a search or an inspect that fails makes what is up to date look stale.
SeenStale(r) ==
    /\ r \notin Pinned
    /\ \/ ~UpToDate(r) /\ NoFault
       \/ UpToDate(r) /\ (Fault("search") \/ (meta[r] # NoCommit /\ Fault("inspect")))

MarkMisread(r) == misread' = IF UpToDate(r) THEN misread \cup {r} ELSE misread

CreateUpdated(r) ==
    /\ Calling("create", r)
    /\ SeenUpdated(r)
    /\ Inspect(r)
    /\ Return
    /\ UNCHANGED <<head, checkout, remote, stage, meta, upload, misread>>

Nesting == Cardinality({i \in DOMAIN agenda : agenda[i].op = "build"})

\* Variant (a bug): the recipe is built before its build_deps.
CreateStale_BuildFirst(r) ==
    /\ Calling("create", r)
    /\ SeenStale(r) /\ MarkMisread(r)
    /\ Inspect(r)
    /\ Nesting < RecursionLimit
    /\ agenda' = Calls("build", <<r>>) \o Calls("create", DepsAt[r][meta[r]]) \o Tail(agenda)
    /\ UNCHANGED <<head, checkout, remote, stage, meta, upload>>

\* Variant (a bug): whether the package is updated is not checked.
CreateStale_Unchecked(r) ==
    /\ Calling("create", r)
    /\ r \notin Pinned /\ NoFault /\ UNCHANGED misread
    /\ Inspect(r)
    /\ Nesting < RecursionLimit
    /\ agenda' = Calls("create", DepsAt[r][meta[r]]) \o Calls("build", <<r>>) \o Tail(agenda)
    /\ UNCHANGED <<head, checkout, remote, stage, meta, upload>>

\* Variant (a bug): the recursion names the recipe itself, not the one it needs.
CreateStale_Itself(r) ==
    /\ Calling("create", r)
    /\ SeenStale(r) /\ MarkMisread(r)
    /\ Inspect(r)
    /\ Nesting < RecursionLimit
    /\ agenda' = Calls("create", [i \in DOMAIN DepsAt[r][meta[r]] |-> r])
                     \o Calls("build", <<r>>) \o Tail(agenda)
    /\ UNCHANGED <<head, checkout, remote, stage, meta, upload>>

CreateStale(r) ==
    /\ Calling("create", r)
    /\ SeenStale(r) /\ MarkMisread(r)
    /\ Inspect(r)
    /\ Nesting < RecursionLimit
    /\ agenda' = Calls("create", DepsAt[r][meta[r]]) \o Calls("build", <<r>>) \o Tail(agenda)
    /\ UNCHANGED <<head, checkout, remote, stage, meta, upload>>

RecursionError(r) ==
    /\ Calling("create", r)
    /\ SeenStale(r)
    /\ Nesting >= RecursionLimit
    /\ Exit
    /\ UNCHANGED <<head, checkout, local, remote>>

\* Variant (a bug): the package is not removed first.
BuildRemove_Kept(r) ==
    /\ Calling("build", r)
    /\ stage = "remove"
    /\ ~ReachesCycle(r)
    /\ UNCHANGED local /\ NoFault
    /\ stage' = "Debug"
    /\ UNCHANGED <<head, checkout, remote, agenda, meta, upload, misread>>

\* The requires list of create_conan_2 is collected first, and that may never end.
Loops(r) == Calling("build", r) /\ stage = "remove" /\ ReachesCycle(r)

CollectLoops(r) == Loops(r) /\ UNCHANGED vars

\* create_conan_2: the requires list is collected before the package is removed.
BuildRemove(r) ==
    /\ Calling("build", r)
    /\ stage = "remove"
    /\ ~ReachesCycle(r)
    /\ RemovePackage(r)
    /\ stage' = "Debug"
    /\ UNCHANGED <<head, checkout, remote, agenda, meta, upload, misread>>

\* Variant (a bug): the package is uploaded after the Debug build.
AfterBuild_UploadEarly(t) ==
    IF t = "Debug" /\ upload THEN stage' = "upload" /\ UNCHANGED agenda
    ELSE IF t = "Debug" THEN stage' = "Release" /\ UNCHANGED agenda
    ELSE stage' = "remove" /\ Return

AfterBuild(t) ==
    IF t = "Debug" THEN stage' = "Release" /\ UNCHANGED agenda
    ELSE IF upload THEN stage' = "upload" /\ UNCHANGED agenda
    ELSE stage' = "remove" /\ Return

BuildSucceeds(r, t) ==
    /\ Calling("build", r)
    /\ stage = t
    /\ \A d \in Requires(r) : Obtainable(d)
    /\ ConanCreate(r, t, Requires(r), SourceCloned(r), SourceCloned(r))
    /\ AfterBuild(t)
    /\ UNCHANGED <<head, checkout, remote, meta, upload, misread, faults>>

\* conan create fails before or after it has cloned the source and obtained some of
\* the packages it needs; the recipe stays exported and the process exits.
BuildFails(r, t) ==
    /\ Calling("build", r)
    /\ stage = t
    /\ \/ (\E d \in Requires(r) : ~Obtainable(d)) /\ NoFault
       \/ Fault("build")
    /\ \/ ConanCreate(r, t, {}, SourceKept(r), bin[r][t])
       \/ \E got \in SUBSET {d \in Requires(r) : Obtainable(d)} :
              ConanCreate(r, t, got, SourceCloned(r), NoBinary)
    /\ Exit
    /\ UNCHANGED <<head, checkout, remote>>

\* _conan_upload: the recipe, then its binaries; the result is ignored.
Uploaded(r, types) ==
    /\ remoteRecipe' = [remoteRecipe EXCEPT ![r] = exported[r]]
    /\ remoteBin' = [remoteBin EXCEPT ![r] = [t \in BuildTypes |->
           IF t \in types THEN bin[r][t]
           ELSE IF remoteRecipe[r] = exported[r] THEN remoteBin[r][t] ELSE NoBinary]]

Upload(r) ==
    /\ Calling("build", r)
    /\ stage = "upload"
    /\ \/ Uploaded(r, BuildTypes) /\ NoFault
       \/ UNCHANGED remote /\ Fault("upload")
       \/ (\E types \in (SUBSET BuildTypes) \ {BuildTypes} : Uploaded(r, types)) /\ Fault("upload")
    /\ stage' = "remove"
    /\ Return
    /\ UNCHANGED <<head, checkout, local, meta, upload, misread>>

-----------------------------------------------------------------------------
(* The environment.                                                        *)

Push(r) ==
    /\ head[r] < MaxCommit
    /\ head' = [head EXCEPT ![r] = @ + 1]
    /\ UNCHANGED <<checkout, local, remote, process, faults>>

Crash ==
    /\ agenda # << >>
    /\ Fault("crash")
    /\ Exit
    /\ UNCHANGED <<head, checkout, local, remote>>

-----------------------------------------------------------------------------
Init ==
    /\ head = [r \in Recipes |-> 1]
    /\ checkout = [r \in Recipes |-> NoCommit]
    /\ exported = [r \in Recipes |-> Absent]
    /\ src = [r \in Recipes |-> NoBinary]
    /\ bin = [r \in Recipes |-> [t \in BuildTypes |-> NoBinary]]
    /\ \E published \in SUBSET Recipes :    \* by other machines, earlier
           /\ remoteRecipe = [r \in Recipes |-> IF r \in published THEN 1 ELSE Absent]
           /\ remoteBin = [r \in Recipes |-> [t \in BuildTypes |->
                              IF r \in published THEN 1 ELSE NoBinary]]
    /\ agenda = << >>
    /\ stage = "remove"
    /\ meta = [r \in Recipes |-> Absent]
    /\ upload = FALSE
    /\ misread = {}
    /\ faults = 0

Run(r) ==
    \/ Purge(r) \/ CacheHit(r) \/ Cache(r)
    \/ CreateUpdated(r) \/ CreateStale(r) \/ RecursionError(r)
    \/ CollectLoops(r) \/ BuildRemove(r) \/ Upload(r)
    \/ \E t \in BuildTypes : BuildSucceeds(r, t) \/ BuildFails(r, t)

Start ==
    \E up \in BOOLEAN :
        \/ CreateCircle(up)
        \/ \E r \in Requested, remove \in BOOLEAN : CreateOne(r, up, remove)

Next ==
    \/ \E r \in Recipes : Run(r)
    \/ Start
    \/ \E r \in Recipes : Push(r)
    \/ Crash

Spec == Init /\ [][Next]_vars

\* A started process runs until it returns or exits.
RunFairness == WF_vars(\E r \in Recipes : Run(r))

FairSpec == Spec /\ RunFairness

-----------------------------------------------------------------------------
(* What the builder guarantees.                                            *)

\* Every variable keeps its type; agenda holds calls the process can make and
\* commits stay within those that were pushed.
TypeOK ==
    /\ head \in [Recipes -> Commits]
    /\ checkout \in [Recipes -> 0..MaxCommit]
    /\ exported \in [Recipes -> -1..MaxCommit]
    /\ src \in [Recipes -> 0..MaxCommit]
    /\ bin \in [Recipes -> [BuildTypes -> 0..MaxCommit]]
    /\ remoteRecipe \in [Recipes -> -1..MaxCommit]
    /\ remoteBin \in [Recipes -> [BuildTypes -> 0..MaxCommit]]
    /\ agenda \in Seq([op : Ops, lib : Recipes])
    /\ stage \in {"remove", "Debug", "Release", "upload"}
    /\ meta \in [Recipes -> -1..MaxCommit]
    /\ upload \in BOOLEAN
    /\ misread \subseteq Recipes
    /\ faults \in 0..MaxFaults

\* The commit recorded in a package is never newer than the source any of its
\* binaries was built from, although the branch moves between start_cache, which
\* reads the commit, and conan create, which clones: "is updated" never hides a
\* commit that was there when the commit id was read.  (It needs
\* RemovesWork: a conan search or remove that fails is not noticed, see RemovePackage.)
RecordedNotNewer ==
    \A r \in Recipes, t \in BuildTypes :
        bin[r][t] # NoBinary => exported[r] <= bin[r][t]

\* The same for what others download: no binary on the remote is older than the
\* commit its recipe names, whatever fails, conan remove and uploads included.
RemoteNotNewer ==
    \A r \in Recipes, t \in BuildTypes :
        remoteBin[r][t] # NoBinary => remoteRecipe[r] <= remoteBin[r][t]

\* The package is at the commit this run read for it.  If it could not read one, any
\* commit will do: '' is also what a conan inspect that fails shows.
Settled(r) == r \in Pinned \/ UpToDate(r) \/ (HasBinary(r) /\ meta[r] = NoCommit)

\* Whenever a package is being removed, built or uploaded, each of its build_deps is
\* in the local cache at the commit this run read for it: the recursion of
\* create_circle_recipe builds dependencies first, also when one is needed twice.
DepsSettled ==
    \A r \in Recipes :
        Calling("build", r) => \A d \in Deps(r) : Settled(d)

\* When a package is uploaded, each of its build_deps has both binaries and neither
\* is older than the commit this run read for it.
DepsFresh ==
    \A r \in Recipes :
        Calling("build", r) /\ stage = "upload" =>
            \A d \in Deps(r) \ Pinned : \A t \in BuildTypes :
                bin[d][t] # NoBinary /\ bin[d][t] >= meta[d]

\* The remote gets a new recipe only from a run whose Debug and Release builds of it
\* both succeeded, from sources at least as new as the commit it records.
PublishesOnlyBuilt ==
    [][\A r \in Recipes :
          remoteRecipe'[r] # remoteRecipe[r] =>
              \A t \in BuildTypes : bin[r][t] # NoBinary /\ bin[r][t] >= remoteRecipe'[r]]_vars

\* To those who only see the branches and the remote the builder is a Publisher: each
\* upload, a partial one too, is one publication of a commit that was pushed, with
\* binaries of sources between that commit and the HEAD; what is left of an older
\* recipe goes, and no run, however stale what it read, takes the remote back to an
\* older commit (only to none: a first checkout that failed).
Published == INSTANCE Publisher WITH recipe <- remoteRecipe, binaries <- remoteBin
ImplementsPublisher == Published!Spec

\* A package that is up to date is removed only at the operator's request (the -r
\* option), or if this very run was misled about this very package by a conan inspect or
\* search that failed: otherwise the check made when its turn came still holds when it is
\* removed, after all its dependencies have been built, and whatever else failed.
NoRedundantRebuild ==
    [][\A r \in Recipes :
          exported[r] # Absent /\ exported'[r] = Absent =>
              ~UpToDate(r) \/ Calling("purge", r) \/ r \in misread]_vars

\* Only packages that need each other can exhaust Python's stack: on a graph without
\* cycles create_circle_recipe is never called deeper than there are recipes, however
\* often a package is needed, whatever was built before and whatever fails.
NestingBounded ==
    \A r \in Recipes : Calling("create", r) =>
        Nesting < Cardinality(Recipes) \/ \E d \in Recipes : d \in Requires(d)

\* Every run ends, with its work done, an exit or a kill, also when build_deps form a
\* cycle: start_cache visits a recipe once, create_circle_recipe meets the recursion limit.
\* Only when it gets past the cycle, because a package of it is up to date and returns
\* before its build_deps are looked at, does it reach the loop that never ends.
RunEnds == agenda # << >> ~> agenda = << >> \/ \E r \in Recipes : Loops(r)

\* Once pushes and failures stop, the runs of the CI job bring each package the project
\* names, whatever an earlier run left behind, to the HEAD of its branch.
RootsCatchUp ==
    \A i \in DOMAIN Roots : <>[](exported[Roots[i]] = head[Roots[i]] /\ HasBinary(Roots[i]))
=============================================================================

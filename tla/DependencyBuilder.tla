-------------------------- MODULE DependencyBuilder --------------------------
(***************************************************************************)
(* The recursive builder of conan/create/recursive_build_deps.py (class    *)
(* ConanDependencyBuilder) with the script it runs for each package,       *)
(* conan/create/create.py.                                                 *)
(*                                                                         *)
(* The builder walks the requirements of a conanfile depth first and       *)
(* builds, after its own requirements, each package that conan does not    *)
(* know.  create.py runs conan create for Debug and for Release and        *)
(* ignores what they return, so its exit status says little about the      *)
(* package; but conan knows the recipe from then on, built or not.  The    *)
(* remotes are taken to serve nothing that the local cache lacks.          *)
(***************************************************************************)
EXTENDS Integers, SequencesExt

CONSTANTS
    Packages,   \* package ids: "name/version", or "name" for a version range
    Root,       \* the conanfile.py given on the command line
    Requires,   \* Requires[p]: the self.requires of p's conanfile, in order
    Conanfiles, \* the packages find_conanfile finds a conanfile for
    Caches,     \* what the local cache may hold of each package before the first run
    MaxFaults,  \* bound: failures of a conan command or a script in a behaviour
    MaxRuns     \* bound: runs of the builder

ASSUME RequiresAssumption ==
    /\ Root \notin Packages
    /\ Requires \in [Packages \cup {Root} -> Seq(Packages)]
    /\ Conanfiles \subseteq Packages
ASSUME CacheAssumption == Caches \subseteq [Packages -> SUBSET {"recipe", "Debug", "Release"}]
ASSUME BoundsAssumption == MaxFaults \in Nat /\ MaxRuns \in Nat

BuildTypes == {"Debug", "Release"}

VARIABLES
    binaries,   \* binaries[p]: the build types of p in the local conan cache
    exported,   \* the packages whose recipe is in it
    orphans,    \* <<p, t>>: conan creates that go on after the builder gave up on them
    frames,     \* the active process_dependencies calls, the innermost last
    visited,    \* visited_packages
    built,      \* built_packages
    listed,     \* packages this run found installed already
    verdict,    \* what build() returned: "none" before it does
    runs, faults

cache == <<binaries, exported>>
run   == <<frames, visited, built, listed, verdict, runs>>
vars  == <<cache, orphans, run, faults>>

Frame(p) == [pkg |-> p, todo |-> Requires[p], success |-> TRUE]
Top      == frames[Len(frames)]
Running  == frames # << >>
DepsOf(p) == ToSet(Requires[p])

Fault   == faults < MaxFaults /\ faults' = faults + 1
NoFault == UNCHANGED faults

\* The calls when the innermost loop goes on to its next dependency, with success as given.
Advanced(success) ==
    [frames EXCEPT ![Len(frames)] =
        [pkg |-> Top.pkg, todo |-> Tail(Top.todo), success |-> success]]

NextDependency(success) == frames' = Advanced(success)

\* The innermost call returns to its caller, where the dependency that was being
\* processed has succeeded or not.
ReturnTo(success) ==
    LET caller == frames[Len(frames) - 1] IN
    frames' = Append(SubSeq(frames, 1, Len(frames) - 2),
                     [caller EXCEPT !.success = @ /\ success])

-----------------------------------------------------------------------------
Start ==
    /\ ~Running
    /\ runs < MaxRuns
    /\ runs' = runs + 1
    /\ frames' = <<Frame(Root)>>
    /\ visited' = {}
    /\ built' = {}
    /\ listed' = {}
    /\ verdict' = "none"
    /\ UNCHANGED <<cache, orphans, faults>>

\* Variant (a bug): a dependency that was visited is looked at again.
Dependency_Unvisited(d) ==
    Running /\ Top.todo # << >> /\ Head(Top.todo) = d

\* The innermost loop is at its dependency d, not visited so far.
Dependency(d) ==
    /\ Running /\ Top.todo # << >>
    /\ Head(Top.todo) = d
    /\ d \notin visited

\* Variant (a bug): the loop waits for a visited dependency that is not finished.
Skip_Waits(d) ==
    /\ Running /\ Top.todo # << >>
    /\ Head(Top.todo) = d
    /\ d \in visited
    /\ IF \E i \in DOMAIN frames : frames[i].pkg = d
         THEN UNCHANGED frames
         ELSE NextDependency(Top.success)
    /\ UNCHANGED <<cache, orphans, visited, built, listed, verdict, runs, faults>>

\* Already visited: passed over, however its processing ended.
Skip(d) ==
    /\ Running /\ Top.todo # << >>
    /\ Head(Top.todo) = d
    /\ d \in visited
    /\ NextDependency(Top.success)
    /\ UNCHANGED <<cache, orphans, visited, built, listed, verdict, runs, faults>>

\* check_package_exists: conan list knows the recipe and conan search names it.  A recipe
\* whose conan create failed is in the cache like any other, so that no binary is needed.
Installed(d) ==
    /\ Dependency(d)
    /\ d \in exported
    /\ visited' = visited \cup {d}
    /\ listed' = listed \cup {d}
    /\ NextDependency(Top.success)
    /\ UNCHANGED <<cache, orphans, built, verdict, runs, faults>>

\* Any package may be taken as missing, one that is there too: check_package_exists answers
\* False after a timeout of 30 seconds, after any error, and when conan search, which may
\* ask a remote, does not name it.

\* No conanfile.py: this call fails in the end, the other dependencies go on.
NoConanfile(d) ==
    /\ Dependency(d)
    /\ d \notin Conanfiles
    /\ visited' = visited \cup {d}
    /\ NextDependency(FALSE)
    /\ UNCHANGED <<cache, orphans, built, listed, verdict, runs, faults>>

\* Variant (a bug): the caller goes on before the requirements of d are processed.
Recurse_Later(d) ==
    /\ Dependency(d)
    /\ d \in Conanfiles
    /\ visited' = visited \cup {d}
    /\ frames' = Append(Advanced(Top.success),
                        [Frame(d) EXCEPT !.todo = << >>])
    /\ UNCHANGED <<cache, orphans, built, listed, verdict, runs, faults>>

\* The requirements of d come first: process_dependencies calls itself.
Recurse(d) ==
    /\ Dependency(d)
    /\ d \in Conanfiles
    /\ visited' = visited \cup {d}
    /\ frames' = Append(Advanced(Top.success), Frame(d))
    /\ UNCHANGED <<cache, orphans, built, listed, verdict, runs, faults>>

-----------------------------------------------------------------------------
(* The loop of a recursive call has ended.                                 *)

LoopEnded(p) == Len(frames) > 1 /\ Top.pkg = p /\ Top.todo = << >>

\* Variant (a bug): the failure is reported to the user but not to the caller.
DependenciesFailed_Dropped(p) ==
    /\ LoopEnded(p)
    /\ ~Top.success
    /\ ReturnTo(TRUE)
    /\ UNCHANGED <<cache, orphans, visited, built, listed, verdict, runs, faults>>

DependenciesFailed(p) ==
    /\ LoopEnded(p)
    /\ ~Top.success
    /\ ReturnTo(FALSE)
    /\ UNCHANGED <<cache, orphans, visited, built, listed, verdict, runs, faults>>

\* conan create of p with build type t: needs that binary of every requirement.
Creatable(p, t) == \A d \in DepsOf(p) : t \in binaries[d]

\* The conan creates of p with the build types ts: those that have their requirements make
\* the binary.
Created(p, ts) == binaries' = [binaries EXCEPT ![p] = @ \cup {t \in ts : Creatable(p, t)}]

\* conan create exports the recipe before it looks for the requirements.
Exports(p) == exported' = exported \cup {p}

\* Variant (a bug): only Release is created.
CreateTypes_ReleaseOnly(p) == Created(p, {"Release"}) /\ Exports(p) /\ NoFault

\* The conan creates of create.py.  One that fails is not noticed, and may have exported the
\* recipe all the same.
CreateTypes(p) ==
    \/ Created(p, BuildTypes) /\ Exports(p) /\ NoFault
    \/ /\ \E ok \in (SUBSET BuildTypes) \ {BuildTypes} :
             Created(p, ok) /\ (Exports(p) \/ (ok = {} /\ UNCHANGED exported))
       /\ Fault

\* create.py exits 0, whatever became of its conan creates.
BuildSucceeds(p) ==
    /\ LoopEnded(p)
    /\ Top.success
    /\ CreateTypes(p)
    /\ built' = built \cup {p}
    /\ ReturnTo(TRUE)
    /\ UNCHANGED <<orphans, visited, listed, verdict, runs>>

\* create.py stops before conan create (its conandata.yml has no such version, say).
BuildFails(p) ==
    /\ LoopEnded(p)
    /\ Top.success
    /\ Fault
    /\ ReturnTo(FALSE)
    /\ UNCHANGED <<cache, orphans, visited, built, listed, verdict, runs>>

\* After an hour the builder kills create.py; the conan create it runs lives on.
BuildTimesOut(p) ==
    /\ LoopEnded(p)
    /\ Top.success
    /\ Fault
    /\ \/ /\ Creatable(p, "Debug")
          /\ orphans' = orphans \cup {<<p, "Debug">>}
          /\ UNCHANGED binaries
       \/ /\ Creatable(p, "Release")
          /\ orphans' = orphans \cup {<<p, "Release">>}
          /\ \E done \in {{}, {"Debug"}} : Created(p, done)
    /\ Exports(p)
    /\ ReturnTo(FALSE)
    /\ UNCHANGED <<visited, built, listed, verdict, runs>>

\* build() returns what the outermost call returned.
Return ==
    /\ Len(frames) = 1 /\ Top.todo = << >>
    /\ verdict' = IF Top.success THEN "success" ELSE "failure"
    /\ frames' = << >>
    /\ UNCHANGED <<cache, orphans, visited, built, listed, runs, faults>>

\* A conan create nobody waits for ends, well or not.
OrphanEnds(p, t) ==
    /\ <<p, t>> \in orphans
    /\ orphans' = orphans \ {<<p, t>>}
    /\ binaries' \in {binaries, [binaries EXCEPT ![p] = @ \cup {t}]}
    /\ UNCHANGED <<exported, run, faults>>

-----------------------------------------------------------------------------
Init ==
    /\ \E c \in Caches :
           /\ binaries = [p \in Packages |-> c[p] \cap BuildTypes]
           /\ exported = {p \in Packages : c[p] # {}}
    /\ orphans = {}
    /\ frames = << >>
    /\ visited = {}
    /\ built = {}
    /\ listed = {}
    /\ verdict = "none"
    /\ runs = 0
    /\ faults = 0

Run(d) ==
    \/ Skip(d) \/ Installed(d) \/ NoConanfile(d) \/ Recurse(d)
    \/ DependenciesFailed(d) \/ BuildSucceeds(d) \/ BuildFails(d) \/ BuildTimesOut(d)

Next ==
    \/ Start
    \/ \E d \in Packages : Run(d)
    \/ Return
    \/ \E p \in Packages, t \in BuildTypes : OrphanEnds(p, t)

Spec == Init /\ [][Next]_vars

\* A builder that was started runs on.
FairSpec == Spec /\ WF_vars(Return \/ \E d \in Packages : Run(d))

-----------------------------------------------------------------------------
\* The call stack is one of process_dependencies calls; only what was visited is recorded
\* as built or found.
TypeOK ==
    /\ binaries \in [Packages -> SUBSET BuildTypes]
    /\ exported \subseteq Packages
    /\ orphans \subseteq Packages \X BuildTypes
    /\ frames \in Seq([pkg : Packages \cup {Root}, todo : Seq(Packages), success : BOOLEAN])
    /\ visited \subseteq Packages
    /\ built \subseteq visited
    /\ listed \subseteq visited
    /\ verdict \in {"none", "success", "failure"}
    /\ runs \in 0..MaxRuns
    /\ faults \in 0..MaxFaults

Active == {frames[i].pkg : i \in DOMAIN frames}

\* When a package's turn to be built comes, the processing of each of its requirements
\* is over: it was looked at before, and (unless they need each other) is not under way.
RequirementsFirst ==
    \A p \in Packages : LoopEnded(p) => DepsOf(p) \subseteq visited \ Active

\* A package is being processed at most once at a time, and not after it was built: the
\* recursion is never deeper than there are packages, and create.py runs at most once
\* for each of them (so the test of built_packages before build_package never fails).
ProcessedOnce ==
    \A i \in DOMAIN frames :
        /\ frames[i].pkg \notin built
        /\ \A j \in DOMAIN frames : frames[i].pkg = frames[j].pkg => i = j

\* A failure anywhere in the tree, even of a package needed in two places and passed over
\* in the second, makes build() return False: if it returns True, every package that was
\* needed, directly or not, was found installed or has been built.
FailureReported ==
    verdict = "success" =>
        \A p \in built \cup {Root} : DepsOf(p) \subseteq listed \cup built

\* If no command fails, and if no half of a package (the recipe that an earlier conan create
\* left without its binaries) was taken for an installed one, what build() reports is so:
\* both binaries of all it built, and of all that the conanfile needs, are there.
SuccessInstalls ==
    verdict = "success" /\ faults = 0 /\ (\A d \in listed : binaries[d] = BuildTypes) =>
        \A p \in built \cup DepsOf(Root) : binaries[p] = BuildTypes

\* The builder ends, also when packages need each other.
RunEnds == Running ~> ~Running

-----------------------------------------------------------------------------
(* What the docstrings of recursive_build_deps.py say, and the code does not do. *)

\* build: "True if all dependencies were built successfully".
TrueMeansInstalled ==
    verdict = "success" => \A d \in DepsOf(Root) : binaries[d] # {}

\* process_dependencies: "True if all dependencies were processed successfully".
TrueMeansProcessed ==
    \A p \in Packages :
        LoopEnded(p) /\ Top.success => DepsOf(p) \subseteq listed \cup built
=============================================================================

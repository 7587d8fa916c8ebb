------------------------------ MODULE CMakeJob ------------------------------
(***************************************************************************)
(* The CI job of a project, ci/cmake.py -c [-b] [-u]: one process and one  *)
(* Conan object that brings the project's packages up to date (-b, the     *)
(* builder of CircleCreator), writes the list of the packages the project  *)
(* links to, installs them for Debug and for Release with conan, and       *)
(* configures the project with cmake.                                      *)
(*                                                                         *)
(* The two halves share the process's memory (conan_metas: the install     *)
(* does not read a branch again that the builder has read), and they share *)
(* the local conan cache, in which the install may build what is missing.  *)
(* A job that fails half way leaves the project directory, and the cache,  *)
(* for the next one.                                                       *)
(***************************************************************************)
EXTENDS CircleCreator

CONSTANT SearchAt   \* SearchAt[r][c]: search_deps of conandata.yml at commit c of r

ASSUME SearchAssumption ==
    /\ SearchAt \in [Recipes -> [0..MaxCommit -> SUBSET Recipes]]
    /\ \A r \in Recipes : SearchAt[r][NoCommit] = {}

VARIABLES
    phase,      \* how far the job is
    build,      \* its -b option
    conanfile,  \* the libraries of conanfile.txt in the project directory
    generated   \* generated[t]: the libraries of conan's cmake file for build type t

project  == <<conanfile, generated>>
job      == <<phase, build, project>>
jobVars  == <<vars, job>>

Phases   == {"off", "create", "collect", "Debug", "Release", "configure", "configured"}
Resting  == phase \in {"off", "configured"}     \* no process; configured: the last one succeeded

Search(r) == IF meta[r] = Absent THEN {} ELSE SearchAt[r][meta[r]]

RootSet == {Roots[i] : i \in DOMAIN Roots}

\* _collect_unique_libs(search_graph, r, True): search_graph holds the recipes that
\* were read; what is not in it is listed and not followed.
Listed(r) ==
    {d \in Recipes : \A S \in SUBSET Recipes :
        (r \in S /\ \A s \in S : Search(s) \subseteq S) => d \in S}

SearchReachesCycle(r) ==
    \E d \in Listed(r) : \E e \in Search(d) : d \in Listed(e)

-----------------------------------------------------------------------------
(* conan install --build=missing in the project directory.                 *)

\* What comes into the local cache: these recipes, source clones and binaries.
Obtain(recipes, sources, binaries) ==
    /\ exported' = [d \in Recipes |-> IF d \in recipes THEN RecipeOf(d) ELSE exported[d]]
    /\ src' = [d \in Recipes |-> IF d \in sources THEN SourceOf(d) ELSE src[d]]
    /\ bin' = [d \in Recipes |-> [t \in BuildTypes |->
           IF <<d, t>> \in binaries THEN BinaryOf(d, t) ELSE bin[d][t]]]

\* The recipes of these binaries that conan has to build from source.
BuiltFrom(binaries) ==
    {d \in Recipes : \E t \in BuildTypes :
        <<d, t>> \in binaries /\ bin[d][t] = NoBinary /\ ~RemoteHas(d, t)}

\* A package that is built installs what its own requires.txt lists, for both build
\* types; which requires.txt was exported with it is not kept here, so: any recipes.
MayBeRequired(t) ==
    IF BuiltFrom(conanfile \X {t}) = {} THEN {} ELSE {d \in Recipes : Obtainable(d)}

MayLackRequired(t) ==
    BuiltFrom(conanfile \X {t}) # {} /\ \E d \in Recipes : ~Obtainable(d)

-----------------------------------------------------------------------------
(* The job.                                                                *)

JobStart(b, up) ==
    /\ Resting
    /\ IF b THEN CreateCircle(up) ELSE Started(Calls("cache", Roots), up)
    /\ phase' = IF b THEN "create" ELSE "collect"
    /\ build' = b
    /\ UNCHANGED project

\* Variant (a bug): the job goes on after the builder has failed.
BuilderStep_GoesOn ==
    /\ \E r \in Recipes : Run(r)
    /\ UNCHANGED job

\* A step of the builder, or of start_cache; it may end the process.
BuilderStep ==
    /\ \E r \in Recipes : Run(r)
    /\ phase' = IF \A r \in Recipes : meta'[r] = Absent THEN "off" ELSE phase
    /\ UNCHANGED <<build, project>>

\* create_circle_conan has returned; install_circle_recipes starts with start_cache.
Created ==
    /\ phase = "create" /\ agenda = << >>
    /\ agenda' = Calls("cache", Roots)
    /\ phase' = "collect"
    /\ UNCHANGED <<head, checkout, local, remote, stage, meta, upload, misread, faults, build, project>>

Collect ==
    /\ phase = "collect" /\ agenda = << >>
    /\ \A r \in RootSet : ~SearchReachesCycle(r)
    /\ conanfile' = UNION {Listed(r) : r \in RootSet}
    /\ phase' = "Debug"
    /\ UNCHANGED <<vars, build, generated>>

InstallSucceeds(t) ==
    /\ phase = t
    /\ \A d \in conanfile : Obtainable(d)
    /\ \E required \in SUBSET MayBeRequired(t) :
           LET binaries == (conanfile \X {t}) \cup (required \X BuildTypes)
           IN Obtain(conanfile \cup required, BuiltFrom(binaries), binaries)
    /\ generated' = [generated EXCEPT ![t] = conanfile]
    /\ phase' = IF t = "Debug" THEN "Release" ELSE "configure"
    /\ UNCHANGED <<head, checkout, remote, process, faults, build, conanfile>>

\* What an install that fails leaves in the cache: some of what it wants, and maybe the
\* clone of a package it could not build.
ObtainSome(t) ==
    \E recipes \in SUBSET {d \in conanfile \cup MayBeRequired(t) : Obtainable(d)} :
        \E binaries \in SUBSET (recipes \X BuildTypes) :
            \E failed \in SUBSET BuiltFrom(recipes \X BuildTypes) :
                Obtain(recipes, failed \cup BuiltFrom(binaries), binaries)

\* Variant (a bug): the result of conan install is ignored.
InstallFails_Ignored(t) ==
    /\ phase = t
    /\ \/ ((\E d \in conanfile : ~Obtainable(d)) \/ MayLackRequired(t)) /\ NoFault
       \/ Fault("build")
    /\ ObtainSome(t)
    /\ phase' = IF t = "Debug" THEN "Release" ELSE "configure"
    /\ UNCHANGED <<head, checkout, remote, process, build, project>>

\* executor.run(cmd, True) ends the process; the cmake file of t stays as it was.
InstallFails(t) ==
    /\ phase = t
    /\ \/ ((\E d \in conanfile : ~Obtainable(d)) \/ MayLackRequired(t)) /\ NoFault
       \/ Fault("build")
    /\ ObtainSome(t)
    /\ Exit
    /\ phase' = "off"
    /\ UNCHANGED <<head, checkout, remote, build, project>>

\* cmake -S -B -DCMAKE_USE_CONAN=ON; the process ends either way.
Configure ==
    /\ phase = "configure"
    /\ \/ phase' = "configured" /\ NoFault
       \/ phase' = "off" /\ Fault("build")
    /\ Exit
    /\ UNCHANGED <<head, checkout, local, remote, build, project>>

Kill ==
    /\ ~Resting
    /\ Fault("crash")
    /\ Exit
    /\ phase' = "off"
    /\ UNCHANGED <<head, checkout, local, remote, build, project>>

JobStep ==
    \/ BuilderStep \/ Created \/ Collect \/ Configure
    \/ \E t \in BuildTypes : InstallSucceeds(t) \/ InstallFails(t)

JobInit ==
    /\ Init
    /\ phase = "off"
    /\ build = FALSE
    /\ conanfile = {}
    /\ generated = [t \in BuildTypes |-> {}]

JobNext ==
    \/ JobStep
    \/ \E b, up \in BOOLEAN : JobStart(b, up)
    \/ (\E r \in Recipes : Push(r)) /\ UNCHANGED job
    \/ Kill

JobSpec == JobInit /\ [][JobNext]_jobVars

\* A job that was started runs on; the job with -b is started again and again, though
\* jobs without it may run in between.
JobFairness ==
    /\ WF_jobVars(JobStep)
    /\ SF_jobVars(\E up \in BOOLEAN : JobStart(TRUE, up))

FairJobSpec == JobSpec /\ JobFairness

-----------------------------------------------------------------------------
(* What the job guarantees.                                                *)

\* The builder's variables keep their types while the install works on the same cache,
\* its calls are only pending while a job is in its first two phases.
JobTypeOK ==
    /\ TypeOK
    /\ phase \in Phases
    /\ build \in BOOLEAN
    /\ conanfile \subseteq Recipes
    /\ generated \in [BuildTypes -> SUBSET Recipes]
    /\ agenda # << >> => phase \in {"create", "collect"}

\* cmake is only run over two complete installs of the same list: a failed one never
\* leaves the Debug files of this job beside the Release files of an earlier one, and
\* every library they name has its binary in the cache, until the next job starts.
ConfiguredWhole ==
    phase \in {"configure", "configured"} =>
        \A t \in BuildTypes :
            /\ generated[t] = conanfile
            /\ \A d \in conanfile : bin[d][t] # NoBinary

\* With -b, what is configured is what was built: when cmake is run, each package the
\* project names records the commit this job read, if it could read one, though the branch
\* may have moved between the build and the install; both its binaries are of sources no
\* older, also when only the install made one of them; and what that very commit is linked
\* with was installed.  (It needs RemovesWork.)
ConfiguredFresh ==
    phase = "configure" /\ build =>
        \A r \in RootSet \ Pinned : meta[r] # NoCommit =>
            /\ exported[r] = meta[r]
            /\ \A t \in BuildTypes : bin[r][t] >= exported[r]
            /\ SearchAt[r][exported[r]] \subseteq conanfile

\* The project is configured with the packages it names at the HEAD of their branches.
CaughtUp ==
    /\ phase = "configured"
    /\ \A r \in RootSet : exported[r] = head[r] /\ HasBinary(r)

\* Once pushes and failures stop, the project is configured again and again with its
\* packages at the HEAD of their branches, unless some recipe is in no cache and not on
\* the remote for ever.
ProjectCatchesUp ==
    <>[](\A d \in Recipes : Obtainable(d)) => []<>CaughtUp
=============================================================================

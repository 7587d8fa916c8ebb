-------------------------- MODULE ConfigureProject --------------------------
(***************************************************************************)
(* The source tree and the build tree of a project that uses the cmake     *)
(* entry layer as its documentation recommends: its CMakeLists.txt calls   *)
(*     __install_conan_requirements()                                      *)
(*     __build_nodejs_project(<front end> <output> [FORCE])                *)
(*     __add_nodejs_build_target(rebuild <front end> <output>)             *)
(* and then creates its own targets.  Two processes work on the trees, one *)
(* at a time: cmake, which configures, and the rebuild target.  Each runs  *)
(* external commands that may fail half way or be killed, and decides what *)
(* to do from what it finds in the trees, whoever left it there.           *)
(***************************************************************************)
EXTENDS Naturals, FiniteSets

CONSTANTS
    BuildTypes,     \* values of CMAKE_BUILD_TYPE
    Places,         \* Node.js may be installed in any of 1..Places
    MaxEdition,     \* bound: how often the sources are edited, plus one
    MaxFaults       \* bound: how many kinds of fault strike, each once

FaultKinds == {"command", "kill", "locked"}

ASSUME ProjectAssumption ==
    /\ "Debug" \in BuildTypes
    /\ Places \in Nat
    /\ MaxEdition \in Nat \ {0}
    /\ MaxFaults \in Nat

VARIABLES
    edition,    \* of the front end's sources, package.json included
    web,        \* whether the front end's package.json is there
    node,       \* where Node.js is installed, or Nowhere
    cache,      \* NODEJS_EXECUTABLE in CMakeCache.txt, or Nowhere
    targets,    \* the targets of the generated build system
    deps,       \* <build>/deps, what conan install wrote
    modules,    \* node_modules
    dist,       \* dist, what npm run build wrote
    output,     \* the output directory, what the application serves
    at,         \* the step the process is at
    process,    \* what the process is, and what it began with
    faults      \* the kinds of fault that have struck

sources == <<edition, web, node>>
build   == <<cache, targets>>
disk    == <<deps, modules, dist, output>>
vars    == <<sources, build, disk, at, process, faults>>

Nowhere  == 0
Editions == 1..MaxEdition
Partial  == 0                   \* the edition of a node_modules that is not complete
Resting  == at \in {"idle", "done"}     \* no process; done: the last one succeeded

-----------------------------------------------------------------------------
(* Directories: whether they exist, and the files in them.                 *)

NoDir == [made |-> FALSE, files |-> {}]

Dir(files) == [made |-> TRUE, files |-> files]

\* What conan install generates: the toolchain file and the files of the packages.
Parts == {"toolchain", "packages"}

\* Any build type but Debug is installed as Release.
ConanType(t) == IF t = "Debug" THEN "Debug" ELSE "Release"

Generated(parts, t) == {[part |-> p, type |-> ConanType(t)] : p \in parts}

\* The front end built from sources of edition e, with the dependencies of edition d.
Bundle(e, d) == {[name |-> n, of |-> e, with |-> d] : n \in {"index", "assets"}}

\* Assets are named after their content, index.html is the same file in every edition.
SameName(f, g) == f.name = g.name /\ (f.name = "index" \/ (f.of = g.of /\ f.with = g.with))

Written(files, new) == {f \in files : \A g \in new : ~SameName(f, g)} \cup new

HasIndex(dir) == \E f \in dir.files : f.name = "index"

NoProcess == [run |-> "none", found |-> Nowhere, edition |-> 1, installs |-> FALSE]

-----------------------------------------------------------------------------
(* Faults.                                                                 *)

Fault(k) ==
    /\ k \notin faults
    /\ Cardinality(faults) < MaxFaults
    /\ faults' = faults \cup {k}

NoFault == UNCHANGED faults

\* npm can be run: it is where the process believes it is.
NpmWorks == node # Nowhere /\ process.found = node

-----------------------------------------------------------------------------
(* The developer.                                                          *)

Edit ==
    /\ edition < MaxEdition
    /\ edition' = edition + 1
    /\ UNCHANGED <<web, node, build, disk, at, process, faults>>

\* The front end is often a git submodule: it comes into the tree later.
CheckOut ==
    /\ ~web
    /\ web' = TRUE
    /\ UNCHANGED <<edition, node, build, disk, at, process, faults>>

\* Node.js is installed, removed, or installed in another place.
NodeMoves(p) ==
    /\ p # node
    /\ node' = p
    /\ UNCHANGED <<edition, web, build, disk, at, process, faults>>

\* The build tree is removed; what npm wrote is in the source tree and stays.
CleanBuild ==
    /\ Resting
    /\ cache' = Nowhere
    /\ targets' = {}
    /\ deps' = NoDir
    /\ at' = "idle" /\ process' = NoProcess
    /\ UNCHANGED <<sources, modules, dist, output, faults>>

-----------------------------------------------------------------------------
(* cmake configures the project.                                           *)

\* found is NODEJS_EXECUTABLE in the process: find_program does not look again for what
\* the cache names.
Begin(name, step) ==
    /\ Resting
    /\ process' = [run |-> name, found |-> cache, edition |-> edition, installs |-> ~deps.made]
    /\ at' = step
    /\ UNCHANGED <<sources, build, disk, faults>>

\* FORCE is an option of the project (EXAMPLES.md, example 4).
Configure(force) == Begin(IF force THEN "force" ELSE "configure", "conan")

\* Variant (a bug): deps is installed into whether it is there or not.
MakeDepsDir_Always ==
    /\ at = "conan"
    /\ deps' = Dir(deps.files)
    /\ at' = "conan install"
    /\ UNCHANGED <<sources, build, modules, dist, output, process, faults>>

\* deps is made before conan is run, and a directory that is there is left alone.
MakeDepsDir ==
    /\ at = "conan" /\ ~deps.made
    /\ deps' = Dir({})
    /\ at' = "conan install"
    /\ UNCHANGED <<sources, build, modules, dist, output, process, faults>>

KeepDeps ==
    /\ at = "conan" /\ deps.made
    /\ at' = "nodejs"
    /\ UNCHANGED <<sources, build, disk, process, faults>>

ConanInstallSucceeds ==
    /\ at = "conan install"
    /\ \E t \in BuildTypes : deps' = Dir(deps.files \cup Generated(Parts, t))
    /\ at' = "nodejs"
    /\ UNCHANGED <<sources, build, modules, dist, output, process, faults>>

FindNodejs == IF process.found = Nowhere THEN node ELSE process.found

\* The process ends with success; cmake saves its cache and generates these targets.
Generate(created, path) ==
    /\ targets' = created
    /\ cache' = path
    /\ at' = "done"

\* Variant (a bug): the return() does not keep the rest of CMakeLists.txt from being read.
SkipFrontEnd_Goes ==
    /\ at = "nodejs"
    /\ FindNodejs = Nowhere \/ ~web
    /\ Generate({"rebuild", "app"}, FindNodejs)
    /\ UNCHANGED <<sources, disk, process, faults>>

\* No Node.js, or no package.json.  The return() of a macro is its caller's: the rest of
\* CMakeLists.txt is not read.
SkipFrontEnd ==
    /\ at = "nodejs"
    /\ FindNodejs = Nowhere \/ ~web
    /\ Generate({}, FindNodejs)
    /\ UNCHANGED <<sources, disk, process, faults>>

\* Variant (a bug): FORCE is not looked at.
BuildNeeded_NotForced == ~HasIndex(dist)

BuildNeeded == process.run = "force" \/ ~HasIndex(dist)

\* The next step: npm install only if there is no node_modules at all.
LookAtFrontEnd ==
    /\ at = "nodejs"
    /\ FindNodejs # Nowhere /\ web
    /\ process' = [process EXCEPT !.found = FindNodejs]
    /\ at' = IF ~BuildNeeded THEN "remove"
             ELSE IF modules.made THEN "npm build" ELSE "npm install"
    /\ UNCHANGED <<sources, build, disk, faults>>

NpmInstallSucceeds ==
    /\ at = "npm install"
    /\ NpmWorks
    /\ modules' = [made |-> TRUE, of |-> edition]
    /\ at' = "npm build"
    /\ UNCHANGED <<sources, build, deps, dist, output, process, faults>>

\* Build tools empty dist first.  With dependencies that are stale or not complete the
\* build may fail (CommandFails) or not.
NpmBuildSucceeds ==
    /\ at = "npm build"
    /\ NpmWorks
    /\ dist' = Dir(Bundle(edition, modules.of))
    /\ at' = "remove"
    /\ UNCHANGED <<sources, build, deps, modules, output, process, faults>>

\* Variant (a bug): dist is copied over what is there.
Remove_Keeps ==
    /\ at = "remove"
    /\ at' = "copy"
    /\ UNCHANGED <<sources, build, disk, process, faults>>

Remove ==
    /\ at = "remove"
    /\ output' = NoDir
    /\ at' = "copy"
    /\ UNCHANGED <<sources, build, deps, modules, dist, process, faults>>

\* A program has some of the files open: file(REMOVE_RECURSE) leaves them and reports
\* nothing.
RemoveLocked ==
    /\ at = "remove" /\ process.run # "rebuild"
    /\ Fault("locked")
    /\ \E kept \in SUBSET output.files : output' = [made |-> output.made, files |-> kept]
    /\ at' = "copy"
    /\ UNCHANGED <<sources, build, deps, modules, dist, process>>

\* dist is there: it was looked at, or just built.
Copy ==
    /\ at = "copy"
    /\ output' = Dir(Written(output.files, dist.files))
    /\ at' = IF process.run = "rebuild" THEN "done" ELSE "targets"
    /\ UNCHANGED <<sources, build, deps, modules, dist, process, faults>>

\* __add_nodejs_build_target, and what comes after it in CMakeLists.txt.
AddTargets ==
    /\ at = "targets"
    /\ Generate({"rebuild", "app"}, process.found)
    /\ UNCHANGED <<sources, disk, process, faults>>

-----------------------------------------------------------------------------
(* cmake --build --target rebuild.                                         *)

\* Variant (a bug): like __build_nodejs_project, npm install only without node_modules.
Rebuild_IfMissing ==
    /\ "rebuild" \in targets
    /\ Begin("rebuild", IF modules.made THEN "npm build" ELSE "npm install")

\* The target's commands were generated with the npm of the cache.
Rebuild ==
    /\ "rebuild" \in targets
    /\ Begin("rebuild", "npm install")

-----------------------------------------------------------------------------
(* What goes wrong.                                                        *)

\* What the command at this step leaves when it does not come to its end.
Interrupted ==
    \/ /\ at = "conan install"
       /\ \E t \in BuildTypes : \E parts \in SUBSET Parts :
              deps' = Dir(deps.files \cup Generated(parts, t))
       /\ UNCHANGED <<modules, dist, output>>
    \/ /\ at = "npm install"
       /\ modules' \in {modules, [made |-> TRUE, of |-> Partial]}
       /\ UNCHANGED <<deps, dist, output>>
    \/ /\ at = "npm build"
       /\ \/ UNCHANGED dist
          \/ \E new \in SUBSET Bundle(edition, modules.of) : dist' = Dir(new)
       /\ UNCHANGED <<deps, modules, output>>
    \/ /\ at = "remove"
       /\ \E kept \in SUBSET output.files : output' = [made |-> output.made, files |-> kept]
       /\ UNCHANGED <<deps, modules, dist>>
    \/ /\ at = "copy"
       /\ \E new \in SUBSET dist.files : output' = Dir(Written(output.files, new))
       /\ UNCHANGED <<deps, modules, dist>>

\* The command cannot succeed, or need not.
MayFail ==
    \/ at \in {"npm install", "npm build"} /\ ~NpmWorks /\ NoFault
    \/ at = "npm build" /\ modules.of # edition /\ NoFault
    \/ at \in {"conan install", "npm install", "npm build", "copy"} /\ Fault("command")
    \/ at = "remove" /\ process.run = "rebuild" /\ Fault("locked")

\* message(FATAL_ERROR), or the build tool stops; cmake saves its cache all the same.
CommandFails ==
    /\ MayFail
    /\ Interrupted
    /\ cache' = process.found
    /\ at' = "idle" /\ process' = NoProcess
    /\ UNCHANGED <<sources, targets>>

Kill ==
    /\ ~Resting
    /\ Fault("kill")
    /\ Interrupted \/ (at \in {"conan", "nodejs", "targets"} /\ UNCHANGED disk)
    /\ at' = "idle" /\ process' = NoProcess
    /\ UNCHANGED <<sources, build>>

-----------------------------------------------------------------------------
Init ==
    /\ edition = 1
    /\ web \in BOOLEAN
    /\ node \in Nowhere..Places
    /\ cache = Nowhere
    /\ targets = {}
    /\ deps = NoDir
    /\ modules = [made |-> FALSE, of |-> Partial]
    /\ dist = NoDir
    /\ output = NoDir
    /\ at = "idle"
    /\ process = NoProcess
    /\ faults = {}

Step ==
    \/ MakeDepsDir \/ KeepDeps \/ ConanInstallSucceeds
    \/ SkipFrontEnd \/ LookAtFrontEnd
    \/ NpmInstallSucceeds \/ NpmBuildSucceeds
    \/ Remove \/ RemoveLocked \/ Copy \/ AddTargets
    \/ CommandFails

Next ==
    \/ Step
    \/ \E force \in BOOLEAN : Configure(force)
    \/ Rebuild
    \/ Kill
    \/ Edit \/ CheckOut \/ CleanBuild
    \/ \E p \in Nowhere..Places : NodeMoves(p)

Spec == Init /\ [][Next]_vars

\* A process that was started runs on; the rebuild target is built again and again.
Fairness == WF_vars(Step) /\ SF_vars(Rebuild)

FairSpec == Spec /\ Fairness

-----------------------------------------------------------------------------
(* What the project can rely on.                                           *)

IsDir(d, files) ==
    /\ d \in [made : BOOLEAN, files : SUBSET files]
    /\ d.files # {} => d.made

DepsFiles == [part : Parts, type : {"Debug", "Release"}]
WebFiles  == UNION {Bundle(e, d) : e \in Editions, d \in Editions \cup {Partial}}

Steps ==
    {"conan", "conan install", "nodejs", "npm install", "npm build",
     "remove", "copy", "targets"}

ProcessType ==
    [run : {"none", "configure", "force", "rebuild"},
     found : Nowhere..Places, edition : Editions, installs : BOOLEAN]

\* Types; a target is only generated once npm was found, and files are only in directories
\* that are there.
TypeOK ==
    /\ edition \in Editions
    /\ web \in BOOLEAN
    /\ node \in Nowhere..Places
    /\ cache \in Nowhere..Places
    /\ targets \in {{}, {"rebuild", "app"}}
    /\ targets # {} => cache # Nowhere
    /\ IsDir(deps, DepsFiles)
    /\ modules \in [made : BOOLEAN, of : Editions \cup {Partial}]
    /\ IsDir(dist, WebFiles)
    /\ IsDir(output, WebFiles)
    /\ at \in Steps \cup {"idle", "done"}
    /\ process \in ProcessType
    /\ faults \in SUBSET FaultKinds

\* The deps directory never holds the files of two conan installs: whatever was
\* interrupted, and whatever build types were configured one after the other, no Debug
\* toolchain is used with Release packages; and a configure that finds no deps and
\* succeeds has all of them, so that only an interrupted one leaves some.
DepsOfOneInstall ==
    /\ \A f, g \in deps.files : f.type = g.type
    /\ at = "done" /\ process.run # "rebuild" /\ process.installs =>
           {f.part : f \in deps.files} = Parts

\* When configuring or rebuilding has succeeded and the project has its targets, what the
\* application serves is what npm built: all of dist, with its index.html, and nothing of
\* an older build, unless a file of it was locked; an output directory that an interrupted
\* process left empty or half copied does not stay.
OutputIsDist ==
    at = "done" /\ targets # {} =>
        /\ HasIndex(output)
        /\ dist.files \subseteq output.files
        /\ "locked" \notin faults => output = dist

\* Among the files there is a whole front end built from an edition in e..now; with
\* dependencies of such an edition, too, or with any.
WholeSince(e, now, files) == \E f, d \in e..now : Bundle(f, d) \subseteq files
SourcesSince(e, now, files) == \E f \in e..now, d \in 0..now : Bundle(f, d) \subseteq files

\* The rebuild target is what a release relies on (README.md, workflow): when it succeeds,
\* a whole front end is served that is no older than the sources it began with, and neither
\* are the dependencies it was built with, whatever was installed, built or edited before
\* and meanwhile.  A configure with FORCE promises it of the sources only.
RebuiltFresh ==
    at = "done" =>
        /\ process.run = "rebuild" => WholeSince(process.edition, edition, output.files)
        /\ process.run = "force" /\ targets # {} =>
               SourcesSince(process.edition, edition, output.files)

\* ARCHITECTURE.md says that Node.js is optional: when it is not found cmake warns, and
\* goes on.  A configure that succeeds without it has generated the application's target.
NodejsOptional ==
    at = "done" /\ process.run # "rebuild" /\ cache = Nowhere => "app" \in targets

\* The rebuild target gets past everything failed or killed processes left, a node_modules
\* that is not complete included: once Node.js stays where the build tree found it, faults
\* and edits stop, and the target is built again and again, the current sources are served,
\* built with their own dependencies.
RebuildRepairs ==
    <>[]("rebuild" \in targets /\ node # Nowhere /\ cache = node) =>
        []<>(at = "done" /\ process.run = "rebuild" /\ Bundle(edition, edition) \subseteq output.files)
=============================================================================

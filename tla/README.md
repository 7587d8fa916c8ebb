# cmake_tools: a TLA+ model of the package builders and of a project's configuration

cmake_tools is what a group of C++ projects is built with: cmake includes
(`src/entry`), small headers (`src/ccglobal`, `src/interface`), and Python
programs that create, install and publish the conan packages the projects link
to (`src/pmodules`, `src/conan`, `src/python`, `src/ci`). About 3500 lines of
Python, 1900 of cmake and a handful of headers are the repository's own; most
of its files are third-party recipes under `src/conan/create/<name>` and
vendored tools (`src/vld`, `src/toolchain`).

This directory holds TLA+ modules of the parts where order, failure and
restart decide what ends up in a package, TLC configurations that check them on
small instances, and TLAPS proofs of the properties that matter most for every
instance. `PROJECT.json` maps each definition to the lines it models.

## 1. The system

### Components

| Component | State it keeps | Operations | Model |
|---|---|---|---|
| **Circle package builder**: `ConanCircleCreator`, `Conan.create_conan_2`, `_create_from_internal_template`, `create_one`, `create_circle_conan` in `pmodules/ci_conan.py`, the recipe template `conan/scripts/conanfile.py`, `pmodules/executor.py` | `conan_metas` and `dep_graph` of the process; sparse git checkouts in a temporary directory that outlives it; the local conan cache; the conan remote | cache a recipe's commit and build_deps; decide whether its package is up to date; remove, build (Debug, Release) and upload it; the operator's `-r` and `-u` | `CircleCreator`, complete |
| **Library graph**: `_collect_sequece_libs`, `_collect_unique_libs`, `_collect_chain_sub_libs` (`ci_conan.py`; copies in `python/createUtil.py`) | `libs.xml` read into a dictionary; the worklists | order the libraries to create; close a library's requirements | `SequenceLibs`, `ClosureLibs`, complete |
| **Recursive dependency builder**: `conan/create/recursive_build_deps.py`, `create.py`, `util.py` | `visited_packages`, `built_packages`, the Python call stack; the local conan cache; processes left behind | check, recurse, build with a time-out, report | `DependencyBuilder`, partly (section 7) |
| **Template packages**: `create_from_patch_file`, `create_from_subs_file`, `create_whole`, `create_project_conan`, `_create_one_conan_recipe` | the list; the local conan cache; the remote | order the list, remove, create (Debug, Release) and upload each library | `RecipeCreate`, complete |
| **conan install of a project**: `install_from_conandata_file`, `install_circle_recipes`, `_write_conan_file`, `_install`, and `ci/cmake.py`, which creates, installs and configures with one `Conan` object | `conanfile.txt` and the generated cmake files of the project directory; the builder's `conan_metas` and conan cache | collect, close and install a project's libraries; configure | `CMakeJob`, partly (section 7) |
| **conan at configure time**: `entry/kernel/conan.cmake` | the `deps` directory of a build tree | install once, if the directory is not there | `ConfigureProject`, complete |
| **npm projects**: `entry/nodejs/nodejs.cmake` | `node_modules`, `dist`, the output directory; `NODEJS_EXECUTABLE` in the cmake cache | find Node.js; install, build, copy, at configure time and as a target | `ConfigureProject`, complete |
| **Parameter packs**: `python/ParamPackUtil.py` | a tree of profiles and `machineList.json` | clear, list, download, unzip, from two servers | not modelled |
| **File transfer**: `pmodules/ftp.py`, `http_host.py`, `python/SFTP.py` | local and remote files | download or upload what is not there | not modelled |
| **Serialization headers**: `ccglobal/serial.h`, `container.h`, `tracer.h` | a stream and an object | save, load | not modelled |
| Logging, profiling, cmake entry layer, CI drivers, small tools | none of their own, or output only | | not modelled |

### How they interact

`conan/conan.py` parses the options and calls one `Conan.create_*` method;
these call the library graph for the order of their work and for the
`requires.txt` each package is built with, and the circle builder alone looks
at git. Everything runs commands through `executor.run`, which calls
`sys.exit(2)` when a command fails and the caller asked for that
(`forceExit`), and otherwise only logs it. So a process has two ways to treat a
failure, and which one a call site uses decides what a failed run leaves
behind: `conan create` exits; `conan remove`, `conan upload` and `git` do not.
What links one process to the next is on disk only: checkouts, conan cache,
remote, project directory. `ci/cmake.py` is the one program that runs two parts in
one process, the builder and the install, over one `conan_metas`.

`recursive_build_deps.py` is independent of all this. It runs `create.py` as a
child process, which runs `conan create` with `os.system`. So is a project's own
`CMakeLists.txt`, which includes the entry layer: cmake runs `conan install` and
npm while it configures, and generates a target that runs npm again. The two
communicate through the source tree (`node_modules`, `dist`, the output) and the
build tree (`deps`, the cmake cache).

### What is hard

* **Stale reads.** The commit recorded in a package is read by `start_cache`;
  the source is cloned by `conan create`, minutes later, from a branch that
  moves. "Is updated" is decided before the dependencies are built.
* **Ignored failures.** `conan remove`, `conan upload`, two `git pull`s and
  the `conan create`s of `create.py` may fail without the program noticing; a
  `conan search` or `conan inspect` that fails is read as an answer (`run_result`
  gives '').
* **Restarts.** A run that exits or is killed leaves a package removed,
  half built (Debug only), built and not uploaded, or partly uploaded.
* **Recursion over graphs.** Shared dependencies are met twice, cycles end in
  a recursion limit or in a loop that never ends.
* **Directories as flags.** `deps`, `node_modules` and `dist/index.html` stand
  for "installed", "installed" and "built", though a process that was killed may
  have left them half full; caches (`find_program`) name programs that have moved.
* **Lists in order.** Removing, creating and uploading go through a list one by
  one; a failure in the middle leaves what came before published.
* **Processes left behind.** The one-hour time-out kills `create.py`, not
  the `conan create` it runs.

The 40 places where these bite are the `hazards` of `PROJECT.json`, each
with the properties that cover it, or the reason why none does yet.

### What makes each part correct

* Circle builder: no package claims a commit its binaries lack, locally or on
  the remote; dependencies are settled before what needs them is removed, built
  or uploaded; nothing is published but what was built; nothing up to date is
  rebuilt, unless conan failed to say that it is; runs end; the CI job in the end brings the project's packages to
  their branches.
* Library graph: dependencies first, nothing lost, exactly what is needed.
* Template packages: in sequence, a package is only linked with packages of the
  same run; what a run publishes is whole and comes after what it needs, but for
  uploads that failed.
* Install and configure: cmake only runs over complete installs of one list, of
  what the same job built; jobs get past what failed ones left.
* A project's trees: `deps` is of one install, what is served is one whole build,
  and a rebuild repairs whatever interrupted processes left.
* Dependency builder: requirements first, no failure swallowed, nothing
  processed twice, success means installed, as far as a recipe in the cache means
  a package.

## 2. Modules

| Module | What it is |
|---|---|
| `CircleCreator` | the circle builder, its commands and its environment |
| `Publisher` | the abstract promise to those who download |
| `CircleCreatorProofs` | the theorems of `CircleCreator`, its refinement of `Publisher` included |
| `MCCircleCreator` | graphs of two or three recipes for TLC |
| `CMakeJob`, `CMakeJobProofs`, `MCCMakeJob` | `ci/cmake.py -c [-b] [-u]`: the builder composed with the install and cmake |
| `SequenceLibs`, `SequenceLibsProofs` | the worklist of `_collect_sequece_libs` |
| `RecipeCreate`, `RecipeCreateProofs`, `MCRecipeCreate` | the worklist composed with the creation of what it lists |
| `ClosureLibs`, `ClosureLibsProofs`, `MCClosureLibs` | the two closure loops |
| `DependencyBuilder`, `DependencyBuilderProofs`, `MCDependencyBuilder` | the recursive builder |
| `ConfigureProject`, `ConfigureProjectProofs`, `MCConfigureProject` | a project's source and build tree under cmake and its rebuild target |
| `ToSetLemmas` | lemmas on the elements of sequences, used by the proof modules |

Definitions whose name ends in `_Something` and whose comment says "Variant
(a bug)" are what a plausible mistake would make of the definition they are
named for. No action of a specification uses them; they are there to see each
property fail.

### CircleCreator

Commits of a branch are numbered from 1; `head[r]` is the branch's HEAD on
the server and `Push` moves it at any time. A binary is the number of the
commit its source was cloned at, so "older" is `<`.

| Variable | Code |
|---|---|
| `checkout` | the sparse checkout `_sparse_checkout` keeps (`temp/<name>`; the `rmtree` of `log.get_clear_temp_dir` is commented out, so it survives the process) |
| `exported`, `src`, `bin` | a package of the local conan cache: `commit_id` in its recipe, source clone, Debug and Release binaries |
| `remoteRecipe`, `remoteBin` | the same on the remote |
| `agenda` | the Python call stack, as the calls still to be made |
| `stage` | how far the running `create_conan_2`, with the upload after it, has come |
| `meta` | `conan_metas`; `dep_graph` follows from it (`Deps`) |
| `upload` | `-u` |
| `misread` | none (history): the packages this process took for stale because a conan query about them failed |

`start_cache` does its own work and then recurses, so `Cache` replaces the call
by the calls for its build_deps. `create_circle_recipe` recurses and then works,
so `CreateStale` replaces the call by the calls for its build_deps followed by a
`"build"` of the recipe. An exception, `sys.exit` and a kill empty the agenda
(`Exit`). A recipe is exported, and its branch cloned, by the template's
`source()`: `SourceKept` and `SourceCloned` say when an earlier clone is used.
`conan create` obtains what `requires.txt` lists, from the local cache, the
remote or the source (`RecipeOf`, `RemoteHas`, `BinaryOf`), which may leave
behind some of it when it fails (`BuildFails`).

Failures, up to `MaxFaults` of the kinds in `Faults`: `"network"` (both git
pulls), `"inspect"` and `"search"` (conan's queries: their answer is '', so that a
package that is up to date looks stale, see `SeenStale`; or, where git could not
read a commit either, any binary looks up to date, see `SeenUpdated`; a search
before a removal that fails skips it), `"remove"` (conan remove, ignored), `"build"`
(conan create, exits), `"upload"` (conan upload, ignored, nothing or a part is
there), `"crash"`. `RemovesWork` (neither `"remove"` nor `"search"` is
in `Faults`) is the premise of `RecordedNotNewer`, `DepsFresh` and `ConfiguredFresh`.

`create_conan_2` is called with what `_collect_unique_libs` returns, and that does
not return from a library that reaches a cycle (`CycleNeverReturns`): `Loops` is
that state, `CollectLoops` the loop, which only a kill ends.

Assumed of the world outside `src/`: git and conan do what their command
promises or fail; a remote binary belongs to the recipe it was uploaded with
and is downloaded only for that recipe; a nested build installs only what
`requires.txt` lists already; each recipe has its directory in `conan/recipes`;
other machines may have published commit 1 of any recipe before; one process
runs at a time (nothing in the code coordinates two).

### Publisher

What is left of the builder for those who only see the branches and the conan
remote: `head`, `recipe`, `binaries`, and two actions. `Publish` names a commit
that was pushed, brings binaries of sources between that commit and the HEAD,
drops binaries that belong to another commit's recipe, and does not go back to
an older commit, except to a recipe that names none (a first checkout that
failed). `CircleCreator` implements it (`ImplementsPublisher`) with `remoteRecipe`
for `recipe` and `remoteBin` for `binaries`; runs, caches, failures and restarts
are stutters.

### CMakeJob

Extends `CircleCreator`: the same cache, remote, checkouts and failures, and the
variables `phase` (how far the job is), `build` (`-b`), `conanfile` (the libraries
of `conanfile.txt`) and `generated` (the libraries in conan's cmake file, for each
build type). A job with `-b` starts with `create_circle_conan`; every job then
runs `start_cache` again (`Created`), which reads nothing that is in `conan_metas`
already; `Collect` closes `search_deps` and writes `conanfile.txt`;
`InstallSucceeds` and `InstallFails` are `conan install --build=missing`, for
Debug and then for Release, each of which exits the process when it fails;
`Configure` is cmake. Outside `src/`: what conan install takes from the cache or
the remote or builds (`Obtain`, `BuiltFrom`). A package it builds installs what
its own `requires.txt` lists, which the model does not keep: any recipes
(`MayBeRequired`).

### RecipeCreate

Extends `SequenceLibs`. A run is of `type` "sequence" (`subs`, `whole` and
`project`: they differ only in where the request comes from) or "patch" (the list
as it stands). `phase` follows the process: order, then with `-r` remove the whole
list, then for each library create Debug, create Release, upload with `-u`.
`cache` and `remote` say of each build type of a library whether there is nothing,
the recipe without a binary ("recipe"), a binary that a create of this run made
("new"), or any other ("old"). A create of either build type installs both types
of all that is in `requires.txt`, with `--build=missing` (`conanfile.py:86-87`): what
the cache lacks (`Lacking`) comes from the remote, or is built if a recipe is known
(`Brought`, `Known`). A create fails for want of a recipe or for any other reason,
and exits; it may leave some of the requirements and its own recipe without a
binary. Removes and uploads fail unnoticed (`failed`, at most `MaxFailed` of them);
an upload that failed may have sent some of the binaries, or the recipe alone, and
the remote may have lost those it had. `Chain` is what `_collect_chain_sub_libs`
returns (`ClosureLibs` has the loop itself).

`PublishesWhole` therefore says "whole, but for an upload of this very package that
failed" (`Published`): the code ignores what `conan upload` returns
(`ci_conan.py:213`), so nobody notices that part of a package is missing. What the
property does exclude is a part for any other reason: a create that failed, a
requirement that was not created, another package's failure.

### ConfigureProject

One project whose `CMakeLists.txt` calls `__install_conan_requirements`,
`__build_nodejs_project` (with or without `FORCE`) and `__add_nodejs_build_target`,
then creates its own target, as the documents of the entry layer recommend.
A directory is `[made, files]`; `node_modules` is `[made, of]`, the edition of the
sources it was installed for, or `Partial`; a build of edition `e` with
dependencies `d` is `Bundle(e, d)`, an `index.html` and assets. `at` is the step of
the running process, `process` what it is and what it began with. `edition`, `web`
and `node` are the developer's: the sources are edited, the front end's submodule
is checked out, Node.js is installed, moved or removed, at any time.

Faults, each kind at most once and `MaxFaults` in all: a command fails half way,
the process is killed, files of the output are open in another program
(`file(REMOVE_RECURSE)` passes over them, `cmake -E remove_directory` fails).
`Interrupted` says what each step leaves when it does not come to its end. npm
also fails, without any fault, when it is not where the process believes it is,
and may fail when the dependencies are not those of the sources.

Assumed: npm's build empties `dist` first, as the usual build tools do; assets are
named after their content; the project has a `conanfile.py`; cmake and the rebuild
target do not run at the same time, which the documents ask for
(`src/entry/nodejs/README.md`); cmake saves its cache also when a configure fails.
The `else` at `nodejs.cmake:241` cannot be reached: `dist` was just looked at or
built.

What the code does not promise, and no property says: a configure without `FORCE`
may serve an old front end, or half of one when an `index.html` is there; a `deps`
directory a failed conan install left is never completed; a half installed
`node_modules` makes every configure use it, until the rebuild target, or removing
it, repairs it.

### SequenceLibs

One step is one pass of a loop body, the inner loop's included; the variables
are the function's (`first`, `second`, `nex`, `need`, `result`, `new_result`)
and its program counter. `first` is what the `for` has not reached yet.
The graph, with libraries it does not know, and the request are chosen by
`Init`. It is checked as a part of `RecipeCreate`.

### ClosureLibs

Both loops, chosen by `loop`. A round is a set, because
`_collect_unique_libs` takes the next one from `list(set(second))`, in any
order. `_collect_unique_libs` follows a library each time it meets it,
`_collect_chain_sub_libs` only when it is new (`Followed`).

### DependencyBuilder

`frames` is the stack of `process_dependencies` calls: the conanfile, the
dependencies left, and the local `success`. `visited`, `built` are the
builder's sets, `listed` (history) the packages the run found installed.
`binaries` is the local conan cache; `orphans` are `conan create`s that went
on after their time-out. `exported` are the packages whose recipe is in the
local cache. `BuildSucceeds` is `create.py` exiting 0, which says
nothing of its two `conan create`s: `CreateTypes` is what those did. A conan create
exports the recipe first, and one that fails leaves it.

`check_package_exists` asks for the recipe: `conan list name/version`, then `conan
search`, neither of which looks for a binary. `Installed` is therefore guarded by
`exported` alone, and a package whose conan create failed counts as installed from
then on. The opposite answer, False, is possible for any package without a fault:
a timeout of 30 seconds, an error, a word in the output that looks like one, a
`conan search` that asks a remote. The cache before the first run is one of
`Caches`: nothing, or whatever earlier runs may have left, recipes without binaries
and with one of two included. The remotes are taken to serve nothing that the
local cache lacks.

## 3. Runs

| Run | Instance | Question |
|---|---|---|
| `circle_creator` | 3 recipes, one needed twice from a second commit on, 2 commits, 1 failure, `-r` and `-u` | Is what is recorded, settled and built right while branches move, conan inspect or a build fails and the process is killed, is nothing rebuilt needlessly, and is the recursion bounded where there is no cycle? |
| `circle_faults` | 3 recipes, one of them pinned (`tbb-0.0.2` is never rebuilt), 2 failures of every kind | Is what is published sound, also when conan remove or a query fails, and is the builder a `Publisher`? |
| `cmake_job` | 2 recipes, an application and a library, 2 commits, 1 failure of any kind but remove and search; jobs with and without `-b`, again and again | Is what is configured complete and what was built, and does it in the end come from the branches' HEADs? Is the builder, with installs on its cache, still a `Publisher` that rebuilds nothing needlessly? |
| `circle_cycle` | 2 of 3 recipes need each other, one of them only from its second commit on; 1 network failure or kill | Does every run end, or else reach the loop of `_collect_unique_libs`? |
| `recipe_create` | graphs of 4 libraries that need smaller ones, in every order (of three, with the second in the middle), and some with an unknown one; 2 requests, one with repetitions; a cache and a remote without one library and without a binary of another; sequence and patch, with and without `-r`; 1 ignored failure, which may leave half of an upload, creates that fail at any point | Is the sequence right, is what is created linked with this run's packages only, is what is published whole, is nothing touched when there is no whole sequence, and does the process end? |
| `closure_libs` | graphs of 3 libraries with cycles and a library maybe unknown | Are the closures right, and when does a loop not return? |
| `builder_diamond` | a requirement needed twice, 2 failures, 2 runs, any cache earlier runs may have left | Are requirements first and failures reported, and is success true? |
| `builder_cycle` | packages that need each other, one without a conanfile, 3 failures, 2 runs, any such cache | Is the recursion bounded, and are failures reported? |
| `configure_project` | 1 place for Node.js, 2 editions, 1 fault of any kind, 2 build types; configures and rebuilds, again and again | Is `deps` of one install and the output of one build, is a rebuild fresh, and does it repair what others left? |
| `nodejs_optional` | the same without Node.js | *Violated*: the configure succeeds without the application's target |
| `builder_built` | the diamond, 1 failure | *Violated*: `build()` returns True, a dependency has no binary |
| `builder_processed` | the diamond, 1 failure | *Violated*: `process_dependencies` returns True, a dependency failed |

**Why the bounds are enough.** The interesting cases of the circle builder need
a package that is needed from two sides, a branch that moves between two reads,
and one failure before a restart: three recipes, two commits, one failure.
Two failures are needed for a package that is both not removed and
not built. `RecursionLimit = 4` is above the depth of every acyclic instance, so
only cycles meet it. Runs are not bounded: the process is started any number of
times. Two recipes are enough for the job: what matters is one
package and what it is linked with. Four libraries make every shape of a dependency order that two rounds
of the worklist can get wrong, and three make every cycle with a way in and a
way out. A requirement that is in neither cache nor remote (library 2), one without the
binary of a build type (library 3), creates that fail, and one remove or upload
that fails or half fails, are what a run over the list can meet. Two editions tell stale
from fresh; one fault at each of the steps, followed by any number of processes, is every way to find a half-made tree, and a second place for
Node.js would be one more path that npm is not at. Two runs of the dependency builder are what an orphan of the first
needs to disturb the second. The properties that are proved (section 5) do not
depend on bounds at all.

**circle_creator and cmake_job without failing removes.** `conan remove`, and the
`conan search` before it, are left out of the failures: `RecordedNotNewer`, `DepsFresh`
and `ConfiguredFresh` are stated for those that work (section 5). `circle_faults` has
them fail. A failing `conan inspect`, which makes a package that is up to date look
stale as a failing `conan search` does, is in all three.

`CHECK_DEADLOCK FALSE` stands in the runs of functions and programs that return, and of a
builder that is run a bounded number of times: there the model stops because
the program does.

**A cycle that a later commit closes (`circle_cycle`).** As long as all members of a
cycle are stale, `create_circle_recipe` calls itself until Python's recursion limit
and nothing is built. But `lib` and `base` may have been built when `base` did not
need `lib` yet. When `base` then gets a commit that needs `lib`, and `lib` is up to
date, the recursion from `base` stops at `lib`, and the build of `base` asks
`_collect_unique_libs` for all it needs over a graph with a cycle
(`ci_conan.py:678`, `:93`): it never returns. The run has two commits for that, and the
state is reached; the network failure adds the checkout that is stale and sees the
cycle late or not at all. `RunEnds` says that a run that does not end is in that loop
and nowhere else. `Requested` is empty there: `create_one` makes the same calls.

**RootsCatchUp** is about the packages the project names and asks for one
binary, as the code does: a package whose branch has not moved returns from
`create_circle_recipe` before its build_deps are looked at, and a package
with a Debug binary only counts as up to date. Both are listed as hazards.

## 4. Fairness

* `RunFairness` (circle builder): a process that was started takes its next
  step. The process is one sequential script; every command it waits for either
  ends or is killed. `CollectLoops` takes no step, so that fairness does not help a
  run out of the loop that never ends.
* `JobFairness` (`CMakeJob`): a job that was started takes its next step (weak
  fairness of `JobStep`, for the reason above), and a job with `-b` is started again
  and again, though others may come between (strong fairness of `JobStart(TRUE, _)`).
  It is a CI job that is triggered by pushes and timers. Pushes and failures are
  bounded, so "once they stop" needs no assumption.
* `Fairness` of `ConfigureProject`: the process takes its next step, and the rebuild
  target is built again and again. Nothing is assumed of the developer: that Node.js
  stays where it was found is a premise of `RebuildRepairs`, not fairness.
* `FairRecipeSpec`: the process runs.
* `WF_vars(Next)` of `ClosureLibs`: a function that was called is executed.
* `FairSpec` of `DependencyBuilder`: the same for the builder. Orphans are not
  fair: a `conan create` nobody waits for may never end.

## 5. What is proved

For every graph, every set of failures and every bound, with the named ASSUMEs
of the modules as the only assumptions (types of the constants; an empty
conandata.yml has no build_deps).

**CircleCreatorProofs**

| Theorem | Property | Rests on |
|---|---|---|
| `TypeCorrect` | `TypeOK` | `AgendaInv`: caches come before creates, builds after what they wait for, and every recipe that create meets was cached. Without it `meta` may be Absent where the code indexes `conan_metas`. |
| `RemoteNeverNewer` | `RemoteNotNewer` | `CommitInv` (nothing read is newer than the branch), `LocalInv` (a clone is not older than the recipe it belongs to), `StageInv` (what the running build has made so far) |
| `PublishedWasBuilt` | `PublishesOnlyBuilt` | `StageInv`: `executor.run` exits on a failed build, so stage "upload" is reached by two successful ones only |
| `DependenciesFirst` | `DepsSettled` | `OrderInv`: for a build anywhere in the agenda, each dependency is settled or has a call before it; `ObtainedInv`: what `conan create` obtains is not on a cycle with it |
| `RecordedNeverNewer` | `RecordedNotNewer` | `RemovedInv`, which needs `RemovesWork`: a build that starts over an old package can record a commit newer than the binaries that are left |
| `UploadsAreFresh` | `DepsFresh` | the two before |
| `NothingRebuiltTwice` | `NoRedundantRebuild` | `NestedInv` and `PendingInv`: what may still happen between the test that found a package stale and its removal (below) |
| `NestingStaysBounded` | `NestingBounded` | `NestedInv`: above a call stand the builds of a path of `Requires`, and without a cycle no recipe stands twice on a path; finitely many recipes |
| `OverflowMeansCycle` | | the same, with `RecursionLimit` at least the number of recipes: `RecursionError` tells of a cycle and of nothing else |
| `BuilderIsPublisher` | `ImplementsPublisher` | `FreshInv`: nothing was built from a source newer than the branch, and what the process has read of a recipe is its checkout, which the remote is never ahead of |
| `PublishersAreSound` | `RemoteNotNewer`, of every `Publisher` | the types of the remote |

None of the properties is inductive. The step that takes them apart is the
same each time: a call in the middle of the agenda says nothing about the
packages below it unless the invariant speaks of the whole agenda.

`NoRedundantRebuild` shows it best. A package is found stale, its dependencies
are created, and then it is removed, without another look. `PendingInv` says of
every `"build"` in the agenda that has not removed its package yet: the package is
still stale (`Stale`: or was taken for it because a conan query failed, `misread`),
or reaches a cycle. What keeps it so is `NestedInv`: every call before a
`"build"` is for something that the recipe of that build requires. A build in between
could bring the waiting package up to date only by requiring it, that is on a cycle,
and from one `_collect_unique_libs` does not return.

**CMakeJobProofs** extends those. A step of a job is a step of the builder, or an
install while no call is pending, or touches nothing of the builder
(`JobMoves`); the installs keep the builder's invariants (`CoreInv`), though they
write to the same cache. So what the builder guarantees alone it guarantees in a
job, with the same invariants.

| Theorem | Property | Rests on |
|---|---|---|
| `JobTypeCorrect` | `JobTypeOK` | `PhaseInv`: calls are pending in the first two phases only |
| `JobRecordedNeverNewer` | `RecordedNotNewer` | `CoreInv`; needs `RemovesWork` |
| `ConfiguredIsWhole` | `ConfiguredWhole` | `WholeInv`: what has been generated in this phase, and that installs never take binaries away |
| `ConfiguredIsFresh` | `ConfiguredFresh` | `BuiltInv`: once the builder has returned, the packages the project names are settled, and stay so through the second `start_cache` and both installs; needs `RemovesWork` |

| `JobSettlesRoots` | | `BuiltInv` alone, so that it holds whatever fails: what `ConfiguredIsFresh` needs `RemovesWork` for is only the commits the binaries came from |
| `JobDependenciesFirst`, `JobUploadsAreFresh`, `JobPublishesItsBuilds`, `JobRebuildsNothing`, `JobNestingStaysBounded` | `DepsSettled`, `DepsFresh`, `PublishesOnlyBuilt`, `NoRedundantRebuild`, `NestingBounded` | the builder's invariants, and that installs find the agenda empty; under the premises of the builder's theorems |
| `JobIsPublisher` | `ImplementsPublisher` | `FreshInv`: installs build from branches and bring binaries from the remote, neither newer than HEAD (`ObtainFromBranch`, `InstallFromBranch`), and write nothing to the remote: they are stutters |
| `JobRemoteNeverNewer` | `RemoteNotNewer` | nothing but the refinement: every `Publisher` has it (`PublishersAreSound`) |

**RecipeCreateProofs** rests on SequenceLibsProofs: the worklist runs as in
`SequenceLibs` (`RunsTheWorklist`), so its theorems hold of it.

| Theorem | Property | Rests on |
|---|---|---|
| `LinkedWithCreated` | `CreatedOnCreated` | `Planned` (which list, and where in it), `Made` (all before the library at hand is new), `Marked` (nothing else is, so a failing create takes nothing from what others are linked with). `ChainBefore` turns "stands after what it needs directly" into "after all it needs", without induction, because `Chain` is the least closed set |
| `PublishedIsWhole` | `PublishesWhole` | `Sent`: all before the library at hand is `Published`: wholly uploaded, or its own upload failed |
| `ReturnedCreatedAll` | `CreatesAll` | `Made`, and `ReturnsTheNeeded` of the worklist |
| `TouchesOnlySequenced` | `OnlySequenced` | `Planned`, and `ReturnsOnlySequenceable` of the worklist: the first removal comes after the whole sequence |
| `RecipeTypeCorrect` | | `Planned` |

**ConfigureProjectProofs**

| Theorem | Property | Rests on |
|---|---|---|
| `TypeCorrect` | `TypeOK` | `Control`: which steps each kind of process can be at, and that npm was found by then |
| `OneInstall` | `DepsOfOneInstall` | `Installing`: the directory is empty when conan install begins, as only a directory just made is installed into |
| `ServesDist` | `OutputIsDist` | `Serving`: what the output holds at each step from the removal to the end |
| `RebuildIsFresh` | `RebuiltFresh` | `Fresh`: what a process has promised at each of its steps: `node_modules`, then `dist`, then the output are no older than what it began with, whatever was there before |

**SequenceLibsProofs**: `TypeCorrect`; `DependenciesFirst`
(`DependencyFirst`): no library is ever listed before one it needs, and the
copy without duplicates keeps that; `RequestsKept` (`NoRequestLost`);
`ReturnsTheNeeded` (`ExactlyTheNeeded`). The invariants say what is known in the
middle of a pass: the library at hand has each need listed or waiting, or is to
be put back (`LookInv`), the copy has exactly the elements of the prefix it has
passed (`CopyInv`), everything listed has what it needs listed (`DependencyFirst`
itself), and all that is needed is listed or waiting (`HoldInv`).
`ReturnsOnlySequenceable`: the function returns only if all that is needed is known
and has no cycle. Its invariant is that what is listed is without a cycle (`CycleInvariant`): a
library is listed when all it needs is listed already (`CycleStep`), and a set
without a cycle stays so when it gets one more that needs only what is in it
(`OneMore`).

**ClosureLibsProofs**: `TypeCorrect`; `ReturnsTheClosure` (`CollectsClosure`);
`NoReturnFromCycle` (`CycleNeverReturns`). `LoopInv`: nothing but what is needed
is waiting or collected, what the collected libraries need is collected or
waiting, and above a cycle `_collect_unique_libs` always has one more library
that is above it (`CycleWaits`, by `CycleStep`: what reaches a cycle needs
something that does).

**DependencyBuilderProofs**: `TypeCorrect`; `NothingProcessedTwice`
(`ProcessedOnce`) and `FailuresReported` (`FailureReported`) for any
requirements, cycles included; `RequirementsComeFirst` (`RequirementsFirst`) and
`SuccessMeansInstalled` (`SuccessInstalls`) if the requirements have no cycle
(`Acyclic`: some rank goes down from a package to what it needs). `Stack` is the
invariant of the call stack; `Told` says that while no active call has failed,
everything visited is done or under way, which is why a failed package that was
passed over elsewhere still reaches `build()`; `Descends` orders the stack by
rank; `Full` says that, as long as nothing failed and all that was found installed
has both binaries, all that was built has them too, and `ListedApart` that nothing
found installed is being processed, and so built, in the same run.

**Model-checked only**: the liveness properties (`RootsCatchUp`, `ProjectCatchesUp`,
`RebuildRepairs`, `Ends`, `RunEnds`, `Returns`), since the prover has neither fairness
nor ENABLED; with `Ends`, that `Acyclic` graphs make `_collect_sequece_libs` return.
Every safety property of the passing runs is proved.

## 6. Where code and documentation disagree

* **A failed `conan create` counts as built** (`builder_built`,
  `TrueMeansInstalled`). `conan_create` in `src/conan/create/util.py:113`
  drops what `os.system` returns, so `create.py` exits 0 and
  `build_package` and `build` return True with nothing built. `build`'s
  docstring says "True if all dependencies were built successfully". The next run
  finds the recipe, takes the package for installed and reports success again; hence
  the premise of `SuccessInstalls` on what was found installed.
* **A failed dependency counts as processed** (`builder_processed`,
  `TrueMeansProcessed`). A package that was visited is passed over, also when
  its processing failed; the second package that needs it is built without it,
  and its `process_dependencies` returns True, against its docstring. The
  failure does reach `build()`, through the first (`FailuresReported`).

* **Without Node.js the rest of a project is not configured** (`nodejs_optional`,
  `NodejsOptional`). `__build_nodejs_project` is a macro, so its `return()`
  (`src/entry/nodejs/nodejs.cmake:185` and `:192`) returns from the `CMakeLists.txt`
  that calls it. cmake warns and the configure succeeds, without the targets that
  come after the call. `src/entry/nodejs/ARCHITECTURE.md:296-297` says that Node.js
  is optional and that, when it is not found, cmake warns and goes on.

## 7. What is not modelled

* In the builder: the parsing of conanfiles and of version ranges, the
  rewriting of `conandata.yml`, the upload at the end of `create.py`, and
  `build()`'s answer for a missing root conanfile. No remote supplies packages
  to its `conan create`, and none makes `check_package_exists` say yes.
* In the circle builder: logging, profiles and channels (a package is its
  name and version), and the text of the generated files.
* In the job: `--update` (`-r` of `ci/cmake.py`), and `install_from_txt` (`-p`), whose
  list comes from a `graph.txt` outside the repository.
* In the template creation: what the templates compile, recipe files that are
  missing (one more reason for a create to fail), and duplicates of a recipe in two
  channels.
* In a project's trees: the MSVC runtime option, the version checks of Node.js, the
  `.cmd` suffix on Windows and the deprecated macro names.
* That a dependency which moved is rebuilt when the package above it did not
  (`ci_conan.py:671`): the code returns before it looks, and promises nothing.
* A patch file whose order is wrong: the library is then linked with what the cache
  or the remote has; only `sequence` runs promise more.
* Two processes at once: nothing in the code promises anything for them.
* `python/ParamPackUtil.py`, the file transfers (`ftp.py`, `http_host.py`, `SFTP.py`)
  and the serialization headers: they stand apart from the package builders and come
  after them (section 8); their hazards are listed without a property.
* Headers and cmake files that keep no state, drivers that only pass options on,
  one-shot text tools.
* The recipes under `src/conan/create/<name>` and the vendored trees: third-party
  code that the repository stores, by far the most of its lines. Each is a
  straight-line description of one package; there is no behaviour between them but
  the order of their creation, which `DependencyBuilder` and `RecipeCreate` model.

## 8. Plan

Done, in this order: `CircleCreator`, `SequenceLibs`, `ClosureLibs`,
`DependencyBuilder`, `Publisher` with its refinement, `CMakeJob`,
`ConfigureProject`, `RecipeCreate`, and a proof module for each. Next:

1. `ParamPack` and `Transfer`: partial downloads, swallowed exceptions, runs again
   over what they left.
2. `Serial`: save and load over streams that end early, counts of limited width.
3. `--update` in `CMakeJob`: binaries of the remote that replace local ones.

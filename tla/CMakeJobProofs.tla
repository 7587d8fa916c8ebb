--------------------------- MODULE CMakeJobProofs ---------------------------
(***************************************************************************)
(* Theorems about CMakeJob, for all recipes, dependencies and bounds.      *)
(*                                                                         *)
(* The invariants of the builder (CircleCreatorProofs) are kept by the     *)
(* steps the job adds to it: they work on the same cache, between the      *)
(* builder's steps of one process and the next.  On top of them, PhaseInv  *)
(* says which calls are pending in which phase, WholeInv what the project  *)
(* directory holds, and BuiltInv that the packages the project names are   *)
(* settled once the builder has returned, and stay so.                     *)
(***************************************************************************)
EXTENDS CMakeJob, CircleCreatorProofs

-----------------------------------------------------------------------------
(* The invariants of the builder.                                          *)

Recorded == RemovesWork => RecordedNotNewer /\ RemovedInv

CoreInv == OrderedInv /\ Recorded

LEMMA CoreParts ==
    ASSUME CoreInv
    PROVE  /\ DoneInv /\ OrderInv /\ ObtainedInv /\ Recorded
           /\ TypeOK /\ AgendaInv /\ DataInv
           /\ CommitInv /\ LocalInv /\ RemoteNotNewer /\ StageInv
           /\ OtherTypes /\ agenda \in Seq(CallSet)
  BY TypeParts DEF CoreInv, OrderedInv, DoneInv, DataInv

LEMMA CoreInit == Init => CoreInv
<1> SUFFICES ASSUME Init PROVE CoreInv
  OBVIOUS
<1>1. DoneInv
  BY TypeInit, AgendaInit, DataInit DEF DoneInv
<1>2. OrderInv /\ ObtainedInv /\ RecordedNotNewer /\ RemovedInv
  BY DEF Init, OrderInv, ObtainedInv, RecordedNotNewer, RemovedInv
<1> QED
  BY <1>1, <1>2 DEF CoreInv, OrderedInv, Recorded

\* The builder's own steps.
LEMMA CoreNext == CoreInv /\ [Next]_vars => CoreInv'
<1> SUFFICES ASSUME CoreInv, [Next]_vars PROVE CoreInv'
  OBVIOUS
<1>1. DoneInv' /\ OrderInv' /\ ObtainedInv'
  BY OrderStep, TypeStep, AgendaStep, DataStep DEF CoreInv, OrderedInv, DoneInv
<1>2. Recorded'
  <2>1. CASE ~RemovesWork
    BY <2>1 DEF Recorded
  <2>2. CASE RemovesWork
    BY <2>2, RecordedStep DEF CoreInv, Recorded, RecordedInv
  <2> QED
    BY <2>1, <2>2
<1> QED
  BY <1>1, <1>2 DEF CoreInv, OrderedInv

\* Steps after which the process has nothing but caches before it.
LEMMA CoreQuiet ==
    ASSUME OtherTypes', agenda' \in Seq(CallSet), DepsKnown', LocalInv', CommitInv',
           RemoteNotNewer', RemovesWork => RecordedNotNewer',
           \A i \in DOMAIN agenda' : agenda'[i].op = "cache", stage' = "remove"
    PROVE  CoreInv'
<1>1. TypeOK'
  BY DEF TypeOK, OtherTypes, LocalType, RemoteType, CallSet
<1>2. \A i \in DOMAIN agenda' : agenda'[i].op # "build" /\ agenda'[i].op \notin Making
  BY DEF Making
<1>3. AgendaInv'
  BY <1>2 DEF AgendaInv, CachesFirst, BuildsLast, LibsKnown
<1>4. DataInv'
  BY StageReset DEF DataInv
<1>5. OrderInv'
  BY <1>2, OrderNoBuild
<1>6. ObtainedInv' /\ RemovedInv'
  BY DEF ObtainedInv, RemovedInv
<1> QED
  BY <1>1, <1>3, <1>4, <1>5, <1>6 DEF CoreInv, OrderedInv, DoneInv, Recorded

-----------------------------------------------------------------------------
(* conan install.                                                          *)

LEMMA ObtainEffect ==
    ASSUME TypeOK, CommitInv, LocalInv, RemoteNotNewer,
           NEW recipes \in SUBSET {d \in Recipes : Obtainable(d)}, NEW sources \in SUBSET recipes,
           NEW binaries \in SUBSET (recipes \X BuildTypes), Obtain(recipes, sources, binaries)
    PROVE  /\ LocalType' /\ LocalInv'
           /\ \A d \in Recipes : exported'[d] <= head[d]
           /\ \A d \in Recipes : exported[d] # Absent => Kept(d)
           /\ RecordedNotNewer => RecordedNotNewer'
           /\ \A d \in Recipes, t \in BuildTypes :
                 <<d, t>> \in binaries \/ bin[d][t] # NoBinary => bin'[d][t] # NoBinary
<1>1. \A d \in Recipes :
         /\ exported'[d] = IF d \in recipes THEN RecipeOf(d) ELSE exported[d]
         /\ src'[d] = IF d \in sources THEN SourceOf(d) ELSE src[d]
         /\ \A t \in BuildTypes :
               bin'[d][t] = IF <<d, t>> \in binaries THEN BinaryOf(d, t) ELSE bin[d][t]
  BY DEF Obtain
<1>2. \A d \in Recipes, t \in BuildTypes : <<d, t>> \in binaries => d \in recipes
  OBVIOUS
<1>3. /\ exported \in [Recipes -> -1..MaxCommit]
      /\ src \in [Recipes -> 0..MaxCommit]
      /\ bin \in [Recipes -> [BuildTypes -> 0..MaxCommit]]
  BY DEF TypeOK
<1>4. \A d \in Recipes : RecipeOf(d) \in -1..MaxCommit /\ SourceOf(d) \in 1..MaxCommit
  BY HelperTypes DEF BuildTypes
<1>5. \A d \in Recipes, t \in BuildTypes : BinaryOf(d, t) \in 1..MaxCommit
  BY HelperTypes
<1>6. LocalType'
  <2>1. exported' \in [Recipes -> -1..MaxCommit]
    BY <1>3, <1>4 DEF Obtain
  <2>2. src' \in [Recipes -> 0..MaxCommit]
    BY <1>3, <1>4, CommitAssumption DEF Obtain
  <2>3. \A d \in Recipes, t \in BuildTypes :
           (IF <<d, t>> \in binaries THEN BinaryOf(d, t) ELSE bin[d][t]) \in 0..MaxCommit
    BY <1>3, <1>5, CommitAssumption
  <2>4. bin' \in [Recipes -> [BuildTypes -> 0..MaxCommit]]
    BY <2>3 DEF Obtain
  <2> QED
    BY <2>1, <2>2, <2>4 DEF LocalType
<1>7. \A d \in Recipes : RecipeOf(d) <= head[d]
  BY DEF CommitInv, RecipeOf
<1>8. \A d \in Recipes : exported'[d] <= head[d]
  BY <1>1, <1>7 DEF CommitInv
<1>9. \A d \in Recipes : exported[d] # Absent => exported'[d] = exported[d]
  BY <1>1 DEF RecipeOf
<1>10. \A d \in Recipes, t \in BuildTypes :
          <<d, t>> \in binaries \/ bin[d][t] # NoBinary => bin'[d][t] # NoBinary
  BY <1>1, <1>5, CommitAssumption DEF NoBinary
<1>11. \A d \in recipes : RecipeOf(d) # Absent /\ RecipeOf(d) <= SourceOf(d)
  BY <1>7 DEF Obtainable, LocalInv, RecipeOf, SourceOf
<1>12. ASSUME NEW d \in Recipes
       PROVE  /\ exported'[d] = Absent =>
                    src'[d] = NoBinary /\ \A t \in BuildTypes : bin'[d][t] = NoBinary
              /\ src'[d] # NoBinary => exported'[d] <= src'[d]
  <2>1. CASE d \notin recipes
    <3>1. exported'[d] = exported[d] /\ src'[d] = src[d]
      BY <2>1, <1>1
    <3>2. \A t \in BuildTypes : bin'[d][t] = bin[d][t]
      BY <2>1, <1>1, <1>2
    <3> QED
      BY <3>1, <3>2 DEF LocalInv
  <2>2. CASE d \in recipes
    <3>1. exported'[d] = RecipeOf(d) /\ RecipeOf(d) # Absent
      BY <2>2, <1>1, <1>11
    <3>2. src[d] # NoBinary => RecipeOf(d) <= src[d]
      BY DEF LocalInv, RecipeOf
    <3> QED
      BY <2>2, <3>1, <3>2, <1>1, <1>11
  <2> QED
    BY <2>1, <2>2
<1>13. LocalInv'
  BY <1>12 DEF LocalInv
<1>14. ASSUME RecordedNotNewer, NEW d \in Recipes, NEW t \in BuildTypes, bin'[d][t] # NoBinary
       PROVE  exported'[d] <= bin'[d][t]
  <2>1. CASE bin[d][t] # NoBinary
    <3>1. exported[d] # Absent
      BY <2>1 DEF LocalInv
    <3>2. bin'[d][t] = bin[d][t]
      BY <2>1, <1>1 DEF BinaryOf
    <3> QED
      BY <2>1, <3>1, <3>2, <1>9, <1>14 DEF RecordedNotNewer
  <2>2. CASE bin[d][t] = NoBinary
    <3>1. <<d, t>> \in binaries /\ d \in recipes
      BY <2>2, <1>1, <1>2, <1>14
    <3>2. exported'[d] = RecipeOf(d) /\ bin'[d][t] = BinaryOf(d, t)
      BY <3>1, <1>1
    <3>3. RemoteHas(d, t) => RecipeOf(d) <= remoteBin[d][t]
      BY DEF RemoteHas, RemoteNotNewer
    <3> QED
      BY <2>2, <3>1, <3>2, <3>3, <1>11 DEF BinaryOf
  <2> QED
    BY <2>1, <2>2
<1>15. RecordedNotNewer => RecordedNotNewer'
  BY <1>14 DEF RecordedNotNewer
<1>16. \A d \in Recipes : exported[d] # Absent => Kept(d)
  BY <1>9, <1>10 DEF Kept
<1> QED
  BY <1>6, <1>8, <1>10, <1>13, <1>15, <1>16

-----------------------------------------------------------------------------
(* The phases, and the builder's invariants in the steps of the job.       *)

JobType ==
    /\ phase \in Phases
    /\ build \in BOOLEAN
    /\ conanfile \subseteq Recipes
    /\ generated \in [BuildTypes -> SUBSET Recipes]

\* Calls are only pending in the first two phases, and start_cache makes no other calls.
PhaseInv ==
    /\ agenda # << >> => phase \in {"create", "collect"}
    /\ phase = "create" => \A i \in DOMAIN agenda : agenda[i].op # "purge"
    /\ phase = "collect" => \A i \in DOMAIN agenda : agenda[i].op = "cache"

StepInv == CoreInv /\ JobType /\ PhaseInv

\* With no process, or none of its calls pending, no build is at work.
LEMMA CoreIdle ==
    ASSUME CoreInv, agenda = << >>
    PROVE  /\ stage = "remove"
           /\ \A r \in Recipes : \A d \in Deps(r) : meta[d] # Absent
<1>1. StageInv /\ AgendaInv /\ DOMAIN agenda = {}
  BY CoreParts
<1> QED
  BY <1>1 DEF StageInv, AgendaInv, DepsKnown, Known

\* start_cache is called on the recipes the project names.
LEMMA CoreCaches ==
    ASSUME CoreInv, agenda = << >>, agenda' = Calls("cache", Roots),
           UNCHANGED <<head, checkout, local, remote, stage, faults>>,
           UNCHANGED meta \/ meta' = [r \in Recipes |-> Absent], upload' \in BOOLEAN,
           UNCHANGED misread \/ misread' = {}
    PROVE  CoreInv' /\ \A i \in DOMAIN agenda' : agenda'[i].op = "cache"
<1>1. /\ OtherTypes /\ LocalInv /\ CommitInv /\ RemoteNotNewer /\ Recorded
      /\ stage = "remove"
      /\ \A r \in Recipes : \A d \in Deps(r) : meta[d] # Absent
  BY CoreParts, CoreIdle
<1>2. /\ agenda' \in Seq(CallSet)
      /\ \A i \in DOMAIN agenda' : agenda'[i].op = "cache"
  <2>1. "cache" \in Ops /\ Roots \in Seq(Recipes)
    BY DepsAssumption DEF Ops
  <2>2. /\ Calls("cache", Roots) \in Seq(CallSet)
        /\ \A i \in 1..Len(Roots) : Calls("cache", Roots)[i] = [op |-> "cache", lib |-> Roots[i]]
    BY <2>1, CallsProperties
  <2>3. DOMAIN agenda' = 1..Len(Roots)
    BY <2>1 DEF Calls
  <2>4. ASSUME NEW i \in DOMAIN agenda' PROVE agenda'[i].op = "cache"
    <3>1. agenda'[i] = [op |-> "cache", lib |-> Roots[i]]
      BY <2>2, <2>3
    <3> QED
      BY <3>1
  <2> QED
    BY <2>2, <2>4
<1>3. \A r \in Recipes : -1 \in -1..MaxCommit /\ Absent <= head[r]
  BY <1>1, CommitAssumption DEF OtherTypes, Commits, Absent
<1>4. OtherTypes'
  BY <1>1, <1>3 DEF OtherTypes, LocalType, RemoteType, local, remote, Absent
<1>5. CommitInv'
  BY <1>1, <1>3 DEF CommitInv, local, remote
<1>6. LocalInv' /\ RemoteNotNewer'
  BY <1>1 DEF LocalInv, RemoteNotNewer, local, remote
<1>7. RemovesWork => RecordedNotNewer'
  BY <1>1 DEF Recorded, RecordedNotNewer, local
<1>8. DepsKnown'
  <2>1. CASE UNCHANGED meta
    BY <2>1, <1>1 DEF DepsKnown, Known, Deps
  <2>2. CASE meta' = [r \in Recipes |-> Absent]
    BY <2>2 DEF DepsKnown, Deps
  <2> QED
    BY <2>1, <2>2
<1> QED
  BY <1>1, <1>2, <1>4, <1>5, <1>6, <1>7, <1>8, CoreQuiet

\* conan and cmake are run with no call pending, and after a failure the process ends.
LEMMA CoreCommand ==
    ASSUME CoreInv, UNCHANGED <<head, checkout, remote>>, faults' \in 0..MaxFaults,
           LocalType', LocalInv', \A d \in Recipes : exported'[d] <= head[d],
           RecordedNotNewer => RecordedNotNewer',
           Exit \/ (agenda = << >> /\ UNCHANGED process)
    PROVE  CoreInv' /\ agenda' = << >>
<1>1. OtherTypes /\ CommitInv /\ RemoteNotNewer /\ Recorded
  BY CoreParts
<1>2. agenda' = << >> /\ DOMAIN agenda' = {} /\ << >> \in Seq(CallSet)
  BY DEF Exit, process
<1>3. \/ stage' = "remove" /\ meta' = [r \in Recipes |-> Absent] /\ upload' = FALSE
      \/ /\ stage' = "remove" /\ UNCHANGED meta /\ upload' = upload
         /\ \A r \in Recipes : \A d \in Deps(r) : meta[d] # Absent
  BY CoreIdle DEF Exit, process
<1>4. \A r \in Recipes : -1 \in -1..MaxCommit /\ Absent <= head[r]
  BY <1>1, CommitAssumption DEF OtherTypes, Commits, Absent
<1>5. OtherTypes'
  <2>1. meta' \in [Recipes -> -1..MaxCommit] /\ upload' \in BOOLEAN /\ misread' \subseteq Recipes
    BY <1>1, <1>3, <1>4 DEF OtherTypes, Absent, Exit, process
  <2> QED
    BY <2>1, <1>1, <1>3 DEF OtherTypes, RemoteType, remote
<1>6. CommitInv'
  BY <1>1, <1>3, <1>4 DEF CommitInv, remote
<1>7. RemoteNotNewer'
  BY <1>1 DEF RemoteNotNewer, remote
<1>8. RemovesWork => RecordedNotNewer'
  BY <1>1 DEF Recorded
<1>9. DepsKnown'
  BY <1>3 DEF DepsKnown, Known, Deps
<1> QED
  BY <1>2, <1>3, <1>5, <1>6, <1>7, <1>8, <1>9, CoreQuiet

\* A step of the process either ends it or leaves some recipe read.
LEMMA RunMeta ==
    ASSUME TypeOK, AgendaInv, NEW r \in Recipes, Run(r), ~Calling("purge", r)
    PROVE  (\A d \in Recipes : meta'[d] = Absent) => Exit
<1>1. agenda \in Seq(CallSet) /\ meta \in [Recipes -> -1..MaxCommit]
  BY DEF TypeOK, CallSet
<1>2. Calling("create", r) \/ Calling("build", r) => meta[r] # Absent
  BY <1>1, AllKnown
<1>3. CASE Purge(r)
  BY <1>3 DEF Purge
<1>4. CASE CacheHit(r)
  BY <1>4 DEF CacheHit
<1>5. CASE Cache(r)
  <2>1. checkout'[r] # Absent
    BY <1>5, CommitAssumption DEF Cache, TypeOK, Commits, Absent
  <2> QED
    BY <2>1, <1>1, <1>5 DEF Cache
<1>6. CASE CreateUpdated(r) \/ CreateStale(r) \/ BuildRemove(r) \/ Upload(r)
  BY <1>2, <1>6 DEF CreateUpdated, CreateStale, BuildRemove, Upload
<1>7. CASE RecursionError(r) \/ \E t \in BuildTypes : BuildFails(r, t)
  BY <1>7 DEF RecursionError, BuildFails
<1>8. CASE \E t \in BuildTypes : BuildSucceeds(r, t)
  BY <1>2, <1>8 DEF BuildSucceeds
<1>9. CASE CollectLoops(r)
  BY <1>2, <1>9 DEF CollectLoops, Loops, vars, process
<1> QED
  BY <1>3, <1>4, <1>5, <1>6, <1>7, <1>8, <1>9 DEF Run

\* A step of the process makes calls of the kinds that were pending, or follows them with
\* calls of create_circle_recipe.
LEMMA RunOps ==
    ASSUME TypeOK, AgendaInv, NEW r \in Recipes, Run(r), NEW ops,
           \A i \in DOMAIN agenda : agenda[i].op \in ops,
           "cache" \in ops, "create" \in ops => Making \subseteq ops
    PROVE  \A i \in DOMAIN agenda' : agenda'[i].op \in ops
<1>1. agenda \in Seq(CallSet) /\ meta \in [Recipes -> -1..MaxCommit]
  BY DEF TypeOK, CallSet
<1>2. ASSUME agenda # << >>, Return PROVE \A i \in DOMAIN agenda' : agenda'[i].op \in ops
  BY <1>1, <1>2, TailProperties DEF Return
<1>3. ASSUME agenda # << >>, NEW f \in Seq(CallSet), \A i \in DOMAIN f : f[i].op \in ops,
             agenda' = f \o Tail(agenda)
      PROVE  \A i \in DOMAIN agenda' : agenda'[i].op \in ops
  <2>1. Fronted(agenda', f, agenda)
    BY <1>1, <1>3, FrontProperties
  <2> QED
    BY <2>1, <1>3 DEF Fronted
<1>4. CASE Purge(r) \/ CacheHit(r) \/ CreateUpdated(r) \/ Upload(r)
  BY <1>2, <1>4 DEF Purge, CacheHit, CreateUpdated, Upload, Calling
<1>5. CASE Cache(r)
  <2> DEFINE ds == DepsAt[r][meta'[r]]
             f == Calls("cache", ds)
  <2>1. agenda # << >> /\ agenda' = f \o Tail(agenda)
    BY <1>5 DEF Cache, Calling
  <2>2. ds \in Seq(Recipes)
    <3>1. TypeOK'
      <4>1. [Next]_vars
        BY DEF Next
      <4> QED
        BY <4>1, TypeStep
    <3>2. checkout'[r] \in 0..MaxCommit /\ meta' = [meta EXCEPT ![r] = checkout'[r]]
      BY <3>1, <1>5 DEF TypeOK, Cache
    <3>3. meta'[r] = checkout'[r]
      BY <3>2, <1>1
    <3> QED
      BY <3>2, <3>3, DepsAssumption
  <2> HIDE DEF ds
  <2>3. /\ f \in Seq(CallSet) /\ Len(f) = Len(ds)
        /\ \A i \in 1..Len(ds) : f[i] = [op |-> "cache", lib |-> ds[i]]
    BY <2>2, CallsProperties DEF Ops
  <2> HIDE DEF f
  <2>4. ASSUME NEW i \in DOMAIN f PROVE f[i].op \in ops
    <3>1. i \in 1..Len(ds)
      BY <2>3
    <3>2. f[i] = [op |-> "cache", lib |-> ds[i]]
      BY <2>3, <3>1
    <3>3. f[i].op = "cache"
      BY <3>2
    <3> QED
      BY <3>3
  <2> QED
    BY <2>1, <2>3, <2>4, <1>3
<1>6. CASE CreateStale(r)
  <2> DEFINE ds == DepsAt[r][meta[r]]
             f == Calls("create", ds) \o Calls("build", <<r>>)
  <2>1. agenda # << >> /\ Head(agenda) = [op |-> "create", lib |-> r] /\ agenda' = f \o Tail(agenda)
    BY <1>6 DEF CreateStale, Calling
  <2>2. meta[r] # Absent
    BY <1>1, <1>6, AllKnown DEF CreateStale
  <2>3. ds \in Seq(Recipes)
    BY <1>1, <2>2, DepsType
  <2> HIDE DEF ds
  <2>4. /\ f \in Seq(CallSet) /\ Len(f) = Len(ds) + 1
        /\ \A i \in 1..Len(ds) : f[i] = [op |-> "create", lib |-> ds[i]]
        /\ f[Len(ds) + 1] = [op |-> "build", lib |-> r]
    BY <2>3, StaleProperties
  <2> HIDE DEF f
  <2>5. "create" \in ops /\ "build" \in ops
    <3>1. agenda[1] = [op |-> "create", lib |-> r] /\ 1 \in DOMAIN agenda
      BY <1>1, <2>1, TailProperties
    <3>2. agenda[1].op = "create"
      BY <3>1
    <3> QED
      BY <3>1, <3>2 DEF Making
  <2>6. ASSUME NEW i \in DOMAIN f PROVE f[i].op \in ops
    <3>1. i \in 1..Len(ds) \/ i = Len(ds) + 1
      BY <2>3, <2>4
    <3>2. CASE i \in 1..Len(ds)
      <4>1. f[i] = [op |-> "create", lib |-> ds[i]]
        BY <3>2, <2>4
      <4> QED
        BY <4>1, <2>5
    <3>3. CASE i = Len(ds) + 1
      <4>1. f[i] = [op |-> "build", lib |-> r]
        BY <3>3, <2>4
      <4> QED
        BY <4>1, <2>5
    <3> QED
      BY <3>1, <3>2, <3>3
  <2> QED
    BY <2>1, <2>4, <2>6, <1>3
<1>7. ASSUME Exit PROVE \A i \in DOMAIN agenda' : agenda'[i].op \in ops
  BY <1>7 DEF Exit
<1>8. CASE RecursionError(r) \/ \E t \in BuildTypes : BuildFails(r, t)
  BY <1>7, <1>8 DEF RecursionError, BuildFails
<1>9. CASE BuildRemove(r) \/ \E t \in BuildTypes : BuildSucceeds(r, t)
  <2>1. agenda # << >> /\ (Return \/ UNCHANGED agenda)
    BY <1>9 DEF BuildRemove, BuildSucceeds, AfterBuild, Calling
  <2> QED
    BY <2>1, <1>2
<1>10. CASE CollectLoops(r)
  BY <1>10 DEF CollectLoops, vars, process
<1> QED
  BY <1>4, <1>5, <1>6, <1>8, <1>9, <1>10 DEF Run

\* A step of the process either goes on in the phase or ends the process.
LEMMA BuilderPhase ==
    ASSUME StepInv, BuilderStep
    PROVE  \/ Exit /\ phase' = "off"
           \/ /\ UNCHANGED phase /\ phase \in {"create", "collect"}
              /\ \E r \in Recipes : meta'[r] # Absent
<1>1. PICK r \in Recipes : Run(r)
  BY DEF BuilderStep
<1>2. TypeOK /\ AgendaInv /\ agenda \in Seq(CallSet)
  BY CoreParts DEF StepInv
<1>3. agenda # << >>
  BY <1>1 DEF Run, Purge, CacheHit, Cache, CreateUpdated, CreateStale, RecursionError,
              CollectLoops, Loops, BuildRemove, Upload, BuildSucceeds, BuildFails, Calling
<1>4. phase \in {"create", "collect"} /\ agenda[1].op # "purge" /\ Head(agenda) = agenda[1]
  BY <1>2, <1>3, TailProperties DEF StepInv, PhaseInv
<1>5. ~Calling("purge", r)
  BY <1>4 DEF Calling
<1>6. (\A d \in Recipes : meta'[d] = Absent) => Exit
  BY <1>1, <1>2, <1>5, RunMeta
<1>7. Exit => \A d \in Recipes : meta'[d] = Absent
  BY DEF Exit
<1> QED
  BY <1>4, <1>6, <1>7 DEF BuilderStep

\* Installing what is obtainable keeps the builder's invariants.
LEMMA CoreObtain ==
    ASSUME CoreInv, NEW recipes \in SUBSET {d \in Recipes : Obtainable(d)},
           NEW sources \in SUBSET recipes, NEW binaries \in SUBSET (recipes \X BuildTypes),
           Obtain(recipes, sources, binaries),
           UNCHANGED <<head, checkout, remote>>, faults' \in 0..MaxFaults,
           Exit \/ (agenda = << >> /\ UNCHANGED process)
    PROVE  /\ CoreInv' /\ agenda' = << >>
           /\ \A d \in Recipes : exported[d] # Absent => Kept(d)
           /\ \A d \in Recipes, t \in BuildTypes :
                 <<d, t>> \in binaries \/ bin[d][t] # NoBinary => bin'[d][t] # NoBinary
  BY CoreParts, ObtainEffect, CoreCommand

LEMMA BuiltFromIn ==
    ASSUME NEW S \in SUBSET Recipes, NEW binaries \in SUBSET (S \X BuildTypes)
    PROVE  BuiltFrom(binaries) \subseteq S
  BY DEF BuiltFrom

\* What an install leaves in the cache when it has succeeded or failed.
LEMMA InstallObtains ==
    ASSUME StepInv, NEW t \in BuildTypes, InstallSucceeds(t) \/ InstallFails(t)
    PROVE  /\ CoreInv' /\ agenda = << >> /\ agenda' = << >>
           /\ \A d \in Recipes : exported[d] # Absent => Kept(d)
           /\ \A d \in Recipes, u \in BuildTypes : bin[d][u] # NoBinary => bin'[d][u] # NoBinary
           /\ InstallSucceeds(t) => \A d \in conanfile : bin'[d][t] # NoBinary
<1>1. agenda = << >> /\ phase = t
  BY DEF StepInv, PhaseInv, BuildTypes, InstallSucceeds, InstallFails
<1>2. /\ CoreInv /\ conanfile \subseteq Recipes /\ faults \in 0..MaxFaults
      /\ MayBeRequired(t) \subseteq {d \in Recipes : Obtainable(d)}
  BY CoreParts DEF StepInv, JobType, MayBeRequired, TypeOK
<1>3. CASE InstallSucceeds(t)
  <2>1. PICK required \in SUBSET MayBeRequired(t) :
           LET binaries == (conanfile \X {t}) \cup (required \X BuildTypes)
           IN Obtain(conanfile \cup required, BuiltFrom(binaries), binaries)
    BY <1>3 DEF InstallSucceeds
  <2> DEFINE binaries == (conanfile \X {t}) \cup (required \X BuildTypes)
             recipes == conanfile \cup required
  <2>2. recipes \in SUBSET {d \in Recipes : Obtainable(d)}
    BY <1>2, <1>3 DEF InstallSucceeds
  <2>3. binaries \in SUBSET (recipes \X BuildTypes)
    OBVIOUS
  <2>4. BuiltFrom(binaries) \in SUBSET recipes
    BY <2>2, <2>3, BuiltFromIn
  <2>5. Obtain(recipes, BuiltFrom(binaries), binaries)
    BY <2>1
  <2>6. \A d \in conanfile : <<d, t>> \in binaries
    OBVIOUS
  <2> HIDE DEF binaries, recipes
  <2>7. UNCHANGED <<head, checkout, remote>> /\ faults' \in 0..MaxFaults /\ UNCHANGED process
    BY <1>2, <1>3 DEF InstallSucceeds
  <2> QED
    BY <1>1, <1>2, <2>2, <2>3, <2>4, <2>5, <2>6, <2>7, CoreObtain
<1>4. CASE InstallFails(t)
  <2>1. PICK recipes \in SUBSET {d \in conanfile \cup MayBeRequired(t) : Obtainable(d)} :
           \E binaries \in SUBSET (recipes \X BuildTypes) :
               \E failed \in SUBSET BuiltFrom(recipes \X BuildTypes) :
                   Obtain(recipes, failed \cup BuiltFrom(binaries), binaries)
    BY <1>4 DEF InstallFails, ObtainSome
  <2>2. PICK binaries \in SUBSET (recipes \X BuildTypes) :
           \E failed \in SUBSET BuiltFrom(recipes \X BuildTypes) :
               Obtain(recipes, failed \cup BuiltFrom(binaries), binaries)
    BY <2>1
  <2>3. PICK failed \in SUBSET BuiltFrom(recipes \X BuildTypes) :
           Obtain(recipes, failed \cup BuiltFrom(binaries), binaries)
    BY <2>2
  <2>4. recipes \in SUBSET {d \in Recipes : Obtainable(d)} /\ recipes \in SUBSET Recipes
    BY <1>2
  <2>5. failed \cup BuiltFrom(binaries) \in SUBSET recipes
    BY <2>4, BuiltFromIn
  <2>6. UNCHANGED <<head, checkout, remote>> /\ faults' \in 0..MaxFaults /\ Exit
    BY <1>2, <1>4, FaultType DEF InstallFails
  <2>7. ~InstallSucceeds(t)
    <3>1. phase' = "off"
      BY <1>4 DEF InstallFails
    <3> QED
      BY <3>1 DEF InstallSucceeds
  <2> QED
    BY <1>1, <1>2, <2>3, <2>4, <2>5, <2>6, <2>7, CoreObtain
<1> QED
  BY <1>3, <1>4

\* cmake, and a kill, leave the cache alone.
LEMMA CommandQuiet ==
    ASSUME StepInv, Configure \/ Kill
    PROVE  CoreInv' /\ agenda' = << >> /\ UNCHANGED local
<1>1. CoreInv /\ TypeOK /\ CommitInv /\ LocalInv /\ LocalType
  BY CoreParts DEF StepInv, OtherTypes
<1>2. /\ UNCHANGED <<head, checkout, remote>> /\ Exit /\ UNCHANGED local
      /\ faults' \in 0..MaxFaults
  <2>1. faults \in 0..MaxFaults
    BY <1>1 DEF TypeOK
  <2> QED
    BY <2>1, FaultType DEF Configure, Kill
<1>3. LocalType' /\ LocalInv' /\ \A d \in Recipes : exported'[d] <= head[d]
  BY <1>1, <1>2 DEF local, LocalType, LocalInv, CommitInv
<1>4. RecordedNotNewer => RecordedNotNewer'
  BY <1>2 DEF local, RecordedNotNewer
<1> QED
  BY <1>1, <1>2, <1>3, <1>4, CoreCommand

LEMMA CoreStep ==
    ASSUME StepInv, [JobNext]_jobVars
    PROVE  CoreInv' /\ PhaseInv'
<1>1. CoreInv /\ TypeOK /\ AgendaInv /\ agenda \in Seq(CallSet)
  BY CoreParts DEF StepInv
<1>2. [Next]_vars => CoreInv'
  BY <1>1, CoreNext
<1>3. agenda' = << >> => PhaseInv'
  BY DEF PhaseInv
<1>4. CASE BuilderStep
  <2>1. CoreInv'
    BY <1>2, <1>4 DEF BuilderStep, Next
  <2>2. CASE Exit
    BY <2>1, <2>2, <1>3 DEF Exit
  <2>3. CASE UNCHANGED phase /\ phase \in {"create", "collect"}
    <3>1. PICK r \in Recipes : Run(r)
      BY <1>4 DEF BuilderStep
    <3>2. phase = "create" => \A i \in DOMAIN agenda' : agenda'[i].op # "purge"
      <4> DEFINE ops == Ops \ {"purge"}
      <4>1. \A i \in DOMAIN agenda : agenda[i].op \in Ops
        <5>1. \A c \in CallSet : c.op \in Ops
          BY DEF CallSet
        <5> QED
          BY <5>1, <1>1
      <4>2. "cache" \in ops /\ Making \subseteq ops
        BY DEF Ops, Making
      <4>3. phase = "create" => \A i \in DOMAIN agenda : agenda[i].op \in ops
        BY <4>1 DEF StepInv, PhaseInv
      <4>4. "purge" \notin ops
        OBVIOUS
      <4> HIDE DEF ops
      <4> QED
        BY <3>1, <4>2, <4>3, <4>4, <1>1, RunOps
    <3>3. phase = "collect" => \A i \in DOMAIN agenda' : agenda'[i].op = "cache"
      <4> DEFINE ops == {"cache"}
      <4>1. "cache" \in ops /\ "create" \notin ops
        OBVIOUS
      <4>2. phase = "collect" => \A i \in DOMAIN agenda : agenda[i].op \in ops
        BY DEF StepInv, PhaseInv
      <4>3. (\A i \in DOMAIN agenda' : agenda'[i].op \in ops)
                => \A i \in DOMAIN agenda' : agenda'[i].op = "cache"
        OBVIOUS
      <4> HIDE DEF ops
      <4> QED
        BY <3>1, <4>1, <4>2, <4>3, <1>1, RunOps
    <3> QED
      BY <2>1, <2>3, <3>2, <3>3 DEF PhaseInv
  <2> QED
    BY <2>2, <2>3, <1>4, BuilderPhase
<1>5. ASSUME NEW b \in BOOLEAN, NEW up \in BOOLEAN, JobStart(b, up) PROVE CoreInv' /\ PhaseInv'
  <2>1. CASE b
    <3>1. CreateCircle(up) /\ phase' = "create"
      BY <2>1, <1>5 DEF JobStart
    <3>2. CoreInv'
      BY <3>1, <1>2 DEF Next, Start
    <3>3. \A i \in DOMAIN agenda' : agenda'[i].op # "purge"
      <4>1. /\ agenda' = Calls("cache", Roots) \o Calls("create", Roots)
            /\ Roots \in Seq(Recipes) /\ << >> \in Seq(Recipes)
        BY <3>1, DepsAssumption DEF CreateCircle, Started
      <4>2. /\ Calls("cache", Roots) \in Seq(CallSet) /\ Len(Calls("cache", Roots)) = Len(Roots)
            /\ \A i \in 1..Len(Roots) : Calls("cache", Roots)[i] = [op |-> "cache", lib |-> Roots[i]]
        BY <4>1, CallsProperties DEF Ops
      <4>3. /\ Calls("create", Roots) \in Seq(CallSet) /\ Len(Calls("create", Roots)) = Len(Roots)
            /\ \A i \in 1..Len(Roots) : Calls("create", Roots)[i] = [op |-> "create", lib |-> Roots[i]]
        BY <4>1, CallsProperties DEF Ops
      <4> DEFINE c == Calls("cache", Roots)
                 e == Calls("create", Roots)
      <4>4. c \in Seq(CallSet) /\ e \in Seq(CallSet) /\ agenda' = c \o e
        BY <4>1, <4>2, <4>3
      <4>5. ASSUME NEW i \in 1..Len(Roots) PROVE c[i].op # "purge" /\ e[i].op # "purge"
        <5>1. c[i] = [op |-> "cache", lib |-> Roots[i]] /\ e[i] = [op |-> "create", lib |-> Roots[i]]
          BY <4>2, <4>3
        <5> HIDE DEF c, e
        <5> QED
          BY <5>1
      <4>6. Len(c) = Len(Roots) /\ Len(e) = Len(Roots) /\ Len(Roots) \in Nat
        BY <4>1, <4>2, <4>3
      <4> HIDE DEF c, e
      <4>7. agenda' \in Seq(CallSet) /\ Joined(agenda', c, e)
        BY <4>4, JoinProperties
      <4>8. DOMAIN agenda' = 1..(Len(Roots) + Len(Roots))
        BY <4>6, <4>7 DEF Joined
      <4>9. ASSUME NEW i \in DOMAIN agenda' PROVE agenda'[i].op # "purge"
        <5>1. agenda'[i] = IF i <= Len(Roots) THEN c[i] ELSE e[i - Len(Roots)]
          BY <4>6, <4>7, <4>8 DEF Joined
        <5>2. i <= Len(Roots) => i \in 1..Len(Roots)
          BY <4>6, <4>8
        <5>3. ~(i <= Len(Roots)) => i - Len(Roots) \in 1..Len(Roots)
          BY <4>6, <4>8
        <5> QED
          BY <4>5, <5>1, <5>2, <5>3
      <4> QED
        BY <4>9
    <3> QED
      BY <3>1, <3>2, <3>3 DEF PhaseInv
  <2>2. CASE ~b
    <3>1. /\ agenda = << >> /\ agenda' = Calls("cache", Roots) /\ upload' \in BOOLEAN
          /\ UNCHANGED <<head, checkout, local, remote, stage, faults>>
          /\ meta' = [r \in Recipes |-> Absent] /\ phase' = "collect" /\ misread' = {}
      BY <2>2, <1>5 DEF JobStart, Started
    <3> QED
      BY <3>1, <1>1, CoreCaches DEF PhaseInv
  <2> QED
    BY <2>1, <2>2
<1>6. CASE Created
  <2>1. /\ agenda = << >> /\ agenda' = Calls("cache", Roots) /\ upload' \in BOOLEAN
        /\ UNCHANGED <<head, checkout, local, remote, stage, faults>>
        /\ UNCHANGED <<meta, misread>> /\ phase' = "collect"
    BY <1>1, <1>6 DEF Created, TypeOK
  <2> QED
    BY <2>1, <1>1, CoreCaches DEF PhaseInv
<1>7. CASE Collect
  BY <1>2, <1>3, <1>7 DEF Collect, vars, process
<1>8. ASSUME NEW t \in BuildTypes, InstallSucceeds(t) \/ InstallFails(t) PROVE CoreInv' /\ PhaseInv'
  BY <1>3, <1>8, InstallObtains
<1>9. CASE Configure \/ Kill
  BY <1>3, <1>9, CommandQuiet
<1>10. CASE (\E r \in Recipes : Push(r)) /\ UNCHANGED job
  BY <1>2, <1>10 DEF Next, Push, process, job, StepInv, PhaseInv
<1>11. CASE UNCHANGED jobVars
  BY <1>2, <1>11 DEF jobVars, job, vars, process, StepInv, PhaseInv
<1> QED
  BY <1>4, <1>5, <1>6, <1>7, <1>8, <1>9, <1>10, <1>11 DEF JobNext, JobStep

LEMMA ListedType == UNION {Listed(r) : r \in RootSet} \subseteq Recipes
  BY DEF Listed

LEMMA JobTypeStep ==
    ASSUME StepInv, [JobNext]_jobVars
    PROVE  JobType'
<1>1. JobType
  BY DEF StepInv
<1>2. CASE BuilderStep
  BY <1>1, <1>2 DEF BuilderStep, JobType, project, Phases
<1>3. ASSUME NEW b \in BOOLEAN, NEW up \in BOOLEAN, JobStart(b, up) PROVE JobType'
  BY <1>1, <1>3 DEF JobStart, JobType, project, Phases
<1>4. CASE Created
  BY <1>1, <1>4 DEF Created, JobType, project, Phases
<1>5. CASE Collect
  BY <1>1, <1>5, ListedType DEF Collect, JobType, Phases
<1>6. ASSUME NEW t \in BuildTypes, InstallSucceeds(t) PROVE JobType'
  BY <1>1, <1>6 DEF InstallSucceeds, JobType, Phases
<1>7. ASSUME NEW t \in BuildTypes, InstallFails(t) PROVE JobType'
  BY <1>1, <1>7 DEF InstallFails, JobType, project, Phases
<1>8. CASE Configure \/ Kill
  BY <1>1, <1>8 DEF Configure, Kill, JobType, project, Phases
<1>9. CASE UNCHANGED job
  BY <1>1, <1>9 DEF JobType, job, project
<1> QED
  BY <1>2, <1>3, <1>4, <1>5, <1>6, <1>7, <1>8, <1>9 DEF JobNext, JobStep, jobVars

LEMMA StepInit == JobInit => StepInv
<1> SUFFICES ASSUME JobInit PROVE StepInv
  OBVIOUS
<1>1. CoreInv /\ agenda = << >>
  BY CoreInit DEF JobInit, Init
<1> QED
  BY <1>1 DEF JobInit, StepInv, JobType, PhaseInv, Phases

LEMMA StepInvariant == JobSpec => []StepInv
<1>1. StepInv /\ [JobNext]_jobVars => StepInv'
  BY CoreStep, JobTypeStep DEF StepInv
<1> QED
  BY <1>1, StepInit, PTL DEF JobSpec

\* In every job, of any graphs and with any failures, the builder's variables keep their
\* types while conan install works on the same cache, and no call is pending but in the
\* phases that make calls.
THEOREM JobTypeCorrect == JobSpec => []JobTypeOK
<1>1. StepInv => JobTypeOK
  BY CoreParts DEF StepInv, JobType, PhaseInv, JobTypeOK
<1> QED
  BY <1>1, StepInvariant, PTL

\* A recorded commit is not newer than the source of a binary, also when installs bring and
\* build packages between the runs of the builder; it needs conan search and remove to work.
THEOREM JobRecordedNeverNewer ==
    ASSUME RemovesWork
    PROVE  JobSpec => []RecordedNotNewer
<1>1. StepInv => RecordedNotNewer
  BY DEF StepInv, CoreInv, Recorded
<1> QED
  BY <1>1, StepInvariant, PTL

-----------------------------------------------------------------------------
(* What the project directory holds.                                       *)

Whole(t) == generated[t] = conanfile /\ \A d \in conanfile : bin[d][t] # NoBinary

WholeInv ==
    /\ phase \in {"Release", "configure", "configured"} => Whole("Debug")
    /\ phase \in {"configure", "configured"} => Whole("Release")

LEMMA WholeStep ==
    ASSUME StepInv, WholeInv, [JobNext]_jobVars
    PROVE  WholeInv'
<1>1. CASE BuilderStep
  BY <1>1, BuilderPhase DEF WholeInv
<1>2. ASSUME NEW b \in BOOLEAN, NEW up \in BOOLEAN, JobStart(b, up) PROVE WholeInv'
  BY <1>2 DEF JobStart, WholeInv
<1>3. CASE Created \/ Collect \/ Kill
  BY <1>3 DEF Created, Collect, Kill, WholeInv
<1>4. ASSUME NEW t \in BuildTypes, InstallSucceeds(t) PROVE WholeInv'
  <2>1. /\ phase = t /\ UNCHANGED conanfile /\ generated' = [generated EXCEPT ![t] = conanfile]
        /\ phase' = IF t = "Debug" THEN "Release" ELSE "configure"
        /\ generated \in [BuildTypes -> SUBSET Recipes] /\ conanfile \subseteq Recipes
    BY <1>4 DEF InstallSucceeds, StepInv, JobType
  <2>2. Whole(t)'
    BY <1>4, <2>1, InstallObtains DEF Whole
  <2>3. ASSUME Whole("Debug"), t = "Release" PROVE Whole("Debug")'
    <3>1. \A d \in conanfile : bin'[d]["Debug"] # NoBinary
      BY <1>4, <2>1, <2>3, InstallObtains DEF Whole, BuildTypes
    <3> QED
      BY <2>1, <2>3, <3>1 DEF Whole, BuildTypes
  <2> QED
    BY <2>1, <2>2, <2>3 DEF WholeInv, BuildTypes
<1>5. ASSUME NEW t \in BuildTypes, InstallFails(t) PROVE WholeInv'
  BY <1>5 DEF InstallFails, WholeInv
<1>6. CASE Configure
  <2>1. UNCHANGED <<project, local>> /\ phase = "configure" /\ phase' \in {"configured", "off"}
    BY <1>6 DEF Configure
  <2> QED
    BY <2>1 DEF WholeInv, Whole, project, local
<1>7. CASE (\E r \in Recipes : Push(r)) /\ UNCHANGED job
  BY <1>7 DEF Push, job, project, local, WholeInv, Whole
<1>8. CASE UNCHANGED jobVars
  BY <1>8 DEF jobVars, vars, job, project, local, WholeInv, Whole
<1> QED
  BY <1>1, <1>2, <1>3, <1>4, <1>5, <1>6, <1>7, <1>8 DEF JobNext, JobStep

LEMMA WholeInvariant == JobSpec => [](StepInv /\ WholeInv)
<1>1. JobInit => StepInv /\ WholeInv
  BY StepInit DEF JobInit, WholeInv
<1>2. StepInv /\ WholeInv /\ [JobNext]_jobVars => StepInv' /\ WholeInv'
  BY CoreStep, JobTypeStep, WholeStep DEF StepInv
<1> QED
  BY <1>1, <1>2, PTL DEF JobSpec

\* For any project, graph and failures: when cmake is run and until the next job, conan's
\* cmake files of both build types are of this job's list, and what they name is there.
THEOREM ConfiguredIsWhole == JobSpec => []ConfiguredWhole
<1>1. WholeInv => ConfiguredWhole
  BY DEF WholeInv, Whole, ConfiguredWhole, BuildTypes
<1> QED
  BY <1>1, WholeInvariant, PTL

-----------------------------------------------------------------------------
(* The packages the project names.                                         *)

\* create_circle_recipe has still to return for r.
Due(r) == \E i \in DOMAIN agenda : agenda[i].op \in Making /\ agenda[i].lib = r

Names == UNION {Listed(r) : r \in RootSet}

BuiltInv ==
    /\ phase = "create" => \A r \in RootSet : Settled(r) \/ Due(r)
    /\ build /\ phase \in {"collect", "Debug", "Release", "configure"} =>
          \A r \in RootSet : Settled(r)
    /\ phase \in {"Debug", "Release", "configure"} => conanfile = Names

LEMMA DueReturn ==
    ASSUME agenda \in Seq(CallSet), agenda # << >>, Return, NEW d, Due(d),
           Head(agenda).lib = d => Head(agenda).op \notin Making
    PROVE  Due(d)'
<1>1. PICK j \in DOMAIN agenda : agenda[j].op \in Making /\ agenda[j].lib = d
  BY DEF Due
<1>2. j # 1
  BY <1>1, TailProperties
<1>3. j - 1 \in DOMAIN agenda' /\ agenda'[j - 1] = agenda[j]
  BY <1>2, TailProperties DEF Return
<1> QED
  BY <1>1, <1>3 DEF Due

LEMMA DueFront ==
    ASSUME agenda \in Seq(CallSet), agenda # << >>, NEW f \in Seq(CallSet),
           agenda' = f \o Tail(agenda), NEW d, Due(d),
           Head(agenda).lib = d => Head(agenda).op \notin Making
    PROVE  Due(d)'
<1>1. PICK j \in DOMAIN agenda : agenda[j].op \in Making /\ agenda[j].lib = d
  BY DEF Due
<1>2. j # 1
  BY <1>1, TailProperties
<1>3. Fronted(agenda', f, agenda)
  BY FrontProperties
<1>4. Len(f) + j - 1 \in DOMAIN agenda' /\ agenda'[Len(f) + j - 1] = agenda[j]
  BY <1>2, <1>3 DEF Fronted
<1> QED
  BY <1>1, <1>4 DEF Due

\* What the process has settled or will make stays settled or to be made, unless it ends.
LEMMA DueRun ==
    ASSUME CoreInv, NEW r \in Recipes, Run(r), ~Calling("purge", r),
           NEW q \in Recipes, Settled(q) \/ Due(q)
    PROVE  Exit \/ Settled(q)' \/ Due(q)'
<1>1. /\ TypeOK /\ AgendaInv /\ CommitInv /\ LocalInv /\ RemoteNotNewer /\ StageInv
      /\ agenda \in Seq(CallSet) /\ meta \in [Recipes -> -1..MaxCommit]
  BY CoreParts DEF TypeOK
<1>2. CASE Purge(r)
  BY <1>2 DEF Purge
<1>3. CASE CacheHit(r)
  <2>1. /\ agenda # << >> /\ Return /\ Head(agenda).op = "cache"
        /\ UNCHANGED <<local, meta>>
    BY <1>3 DEF CacheHit, Calling
  <2>2. Settled(q) => Settled(q)'
    BY <2>1 DEF local, Settled, UpToDate, HasBinary
  <2> QED
    BY <2>1, <2>2, <1>1, DueReturn DEF Making
<1>4. CASE Cache(r)
  <2> DEFINE ds == DepsAt[r][meta'[r]]
             f == Calls("cache", ds)
  <2>1. /\ agenda # << >> /\ agenda' = f \o Tail(agenda) /\ Head(agenda).op = "cache"
        /\ UNCHANGED local /\ meta[r] = Absent /\ meta' = [meta EXCEPT ![r] = checkout'[r]]
    BY <1>4 DEF Cache, Calling
  <2>2. ds \in Seq(Recipes)
    <3>1. [Next]_vars
      BY DEF Next
    <3>2. TypeOK'
      BY <1>1, <3>1, TypeStep
    <3>3. checkout'[r] \in 0..MaxCommit /\ meta'[r] = checkout'[r]
      BY <3>2, <2>1, <1>1 DEF TypeOK
    <3> QED
      BY <3>3, DepsAssumption
  <2> HIDE DEF ds
  <2>3. f \in Seq(CallSet)
    BY <2>2, CallsProperties DEF Ops
  <2> HIDE DEF f
  <2>4. Settled(q) => Settled(q)'
    <3>1. CASE q = r
      <4>1. UpToDate(q) => exported[q] = Absent /\ HasBinary(q)
        BY <3>1, <2>1 DEF UpToDate
      <4>2. ~UpToDate(q) /\ meta[q] # NoCommit
        BY <3>1, <4>1, <2>1, <1>1 DEF LocalInv, HasBinary, Absent, NoCommit
      <4> QED
        BY <4>2 DEF Settled
    <3>2. CASE q # r
      <4>1. meta'[q] = meta[q]
        BY <3>2, <2>1, <1>1
      <4> QED
        BY <4>1, <2>1 DEF local, Settled, UpToDate, HasBinary
    <3> QED
      BY <3>1, <3>2
  <2> QED
    BY <2>1, <2>3, <2>4, <1>1, DueFront DEF Making
<1>5. CASE CreateUpdated(r)
  <2>1. Settled(q) => Settled(q)'
    BY <1>1, <1>5, InspectEffect, SettledKept DEF CreateUpdated
  <2>2. Settled(r)
    BY <1>5 DEF CreateUpdated, SeenUpdated, Settled
  <2>3. agenda # << >> /\ Head(agenda).lib = r /\ Return
    BY <1>5 DEF CreateUpdated, Calling
  <2> QED
    BY <2>1, <2>2, <2>3, <1>1, DueReturn
<1>6. CASE CreateStale(r)
  <2> DEFINE ds == DepsAt[r][meta[r]]
             f == Calls("create", ds) \o Calls("build", <<r>>)
  <2>1. agenda # << >> /\ Head(agenda) = [op |-> "create", lib |-> r] /\ agenda' = f \o Tail(agenda)
    BY <1>6 DEF CreateStale, Calling
  <2>2. ds \in Seq(Recipes)
    BY <1>1, <1>6, AllKnown, DepsType DEF CreateStale
  <2> HIDE DEF ds
  <2>3. /\ f \in Seq(CallSet) /\ Len(f) = Len(ds) + 1
        /\ f[Len(ds) + 1] = [op |-> "build", lib |-> r]
    BY <2>2, StaleProperties
  <2> HIDE DEF f
  <2>4. Due(r)'
    <3>1. Fronted(agenda', f, agenda) /\ Len(ds) + 1 \in DOMAIN f
      BY <1>1, <2>1, <2>2, <2>3, FrontProperties
    <3>2. Len(ds) + 1 \in DOMAIN agenda' /\ agenda'[Len(ds) + 1] = [op |-> "build", lib |-> r]
      BY <2>3, <3>1 DEF Fronted
    <3>3. agenda'[Len(ds) + 1].op \in Making /\ agenda'[Len(ds) + 1].lib = r
      BY <3>2 DEF Making
    <3> QED
      BY <3>2, <3>3 DEF Due
  <2>5. Settled(q) => Settled(q)'
    BY <1>1, <1>6, InspectEffect, SettledKept DEF CreateStale
  <2>6. Head(agenda).lib = r
    BY <2>1
  <2> QED
    BY <2>1, <2>3, <2>4, <2>5, <2>6, <1>1, DueFront
<1>7. CASE RecursionError(r) \/ \E t \in BuildTypes : BuildFails(r, t)
  BY <1>7 DEF RecursionError, BuildFails
<1>8. CASE BuildRemove(r)
  <2>1. UNCHANGED <<agenda, meta>> /\ Calling("build", r) /\ RemovePackage(r)
    BY <1>8 DEF BuildRemove
  <2>2. Due(r)' /\ (Due(q) => Due(q)')
    <3>1. agenda[1] = [op |-> "build", lib |-> r] /\ 1 \in DOMAIN agenda
      BY <2>1, <1>1, TailProperties DEF Calling
    <3>2. agenda[1].op \in Making /\ agenda[1].lib = r
      BY <3>1 DEF Making
    <3> QED
      BY <2>1, <3>1, <3>2 DEF Due
  <2>3. q # r /\ Settled(q) => Settled(q)'
    BY <2>1, <1>1, RemoveEffect, SettledKept
  <2> QED
    BY <2>2, <2>3
<1>9. CASE Upload(r)
  <2>1. Settled(q) => Settled(q)'
    BY <1>9 DEF Upload, local, Settled, UpToDate, HasBinary
  <2>2. Settled(r)
    BY <1>1, <1>9 DEF Upload, StageInv, Made, Settled, UpToDate, HasBinary, BuildTypes
  <2>3. agenda # << >> /\ Head(agenda).lib = r /\ Return
    BY <1>9 DEF Upload, Calling
  <2> QED
    BY <2>1, <2>2, <2>3, <1>1, DueReturn
<1>10. ASSUME NEW t \in BuildTypes, BuildSucceeds(r, t) PROVE Settled(q)' \/ Due(q)'
  <2>1. Calling("build", r) /\ UNCHANGED meta /\ agenda # << >> /\ Head(agenda).lib = r
    BY <1>10 DEF BuildSucceeds, Calling
  <2>2. meta[r] # Absent
    BY <2>1, <1>1, AllKnown
  <2>3. /\ Requires(r) \in SUBSET {d \in Recipes : Obtainable(d)}
        /\ ConanCreate(r, t, Requires(r), SourceCloned(r), SourceCloned(r))
    BY <1>10, RequiresType DEF BuildSucceeds
  <2>4. SourceCloned(r) # NoBinary /\ meta[r] <= SourceCloned(r)
    BY <1>1, SourceEffect
  <2>5. q # r /\ Settled(q) => Settled(q)'
    <3>1. q # r /\ exported[q] # Absent => Kept(q)
      BY <1>1, <2>2, <2>3, <2>4, CreateEffect
    <3> QED
      BY <3>1, <2>1, <1>1, SettledKept
  <2>6. Settled(r)'
    <3>1. exported'[r] = meta'[r] /\ bin'[r] = [bin[r] EXCEPT ![t] = SourceCloned(r)]
      BY <2>1, <2>3 DEF ConanCreate
    <3>2. bin'[r][t] # NoBinary
      BY <3>1, <2>4, <1>1 DEF TypeOK
    <3> QED
      BY <3>1, <3>2 DEF Settled, UpToDate, HasBinary
  <2>7. Return \/ UNCHANGED agenda
    BY <1>10 DEF BuildSucceeds, AfterBuild
  <2>8. UNCHANGED agenda /\ Due(q) => Due(q)'
    BY DEF Due
  <2> QED
    BY <2>1, <2>5, <2>6, <2>7, <2>8, <1>1, DueReturn
<1>11. CASE CollectLoops(r)
  BY <1>11 DEF CollectLoops, vars, process, local, Settled, UpToDate, HasBinary, Due
<1> QED
  BY <1>2, <1>3, <1>4, <1>5, <1>6, <1>7, <1>8, <1>9, <1>10, <1>11 DEF Run

\* The job with -b starts by naming all roots; nothing is settled yet.
LEMMA DueStarted ==
    ASSUME agenda' = Calls("cache", Roots) \o Calls("create", Roots), NEW r \in RootSet
    PROVE  Due(r)'
<1> DEFINE c == Calls("cache", Roots)
           e == Calls("create", Roots)
<1>1. Roots \in Seq(Recipes)
  BY DepsAssumption
<1>2. PICK k \in 1..Len(Roots) : Roots[k] = r
  BY <1>1 DEF RootSet
<1>3. c \in Seq(CallSet) /\ Len(c) = Len(Roots)
  BY <1>1, CallsProperties DEF Ops
<1>4. /\ e \in Seq(CallSet) /\ Len(e) = Len(Roots)
      /\ e[k] = [op |-> "create", lib |-> Roots[k]]
  BY <1>1, CallsProperties DEF Ops
<1>5. agenda' = c \o e
  OBVIOUS
<1>6. e[k].op \in Making /\ e[k].lib = r
  BY <1>2, <1>4 DEF Making
<1> HIDE DEF c, e
<1>7. agenda' \in Seq(CallSet) /\ Joined(agenda', c, e)
  BY <1>3, <1>4, <1>5, JoinProperties
<1>8. /\ Len(Roots) \in Nat /\ k \in Nat
      /\ Len(Roots) + k \in 1..(Len(Roots) + Len(Roots))
      /\ ~(Len(Roots) + k <= Len(Roots)) /\ Len(Roots) + k - Len(Roots) = k
  BY <1>1
<1>9. Len(Roots) + k \in DOMAIN agenda' /\ agenda'[Len(Roots) + k] = e[k]
  BY <1>3, <1>4, <1>7, <1>8 DEF Joined
<1> QED
  BY <1>6, <1>9 DEF Due

\* Steps that keep what conan_metas holds and take no package away.
LEMMA SettledInstalled ==
    ASSUME CoreInv, UNCHANGED meta, \A d \in Recipes : exported[d] # Absent => Kept(d)
    PROVE  \A r \in RootSet : Settled(r) => Settled(r)'
<1>1. LocalInv /\ RootSet \subseteq Recipes
  BY CoreParts, DepsAssumption DEF RootSet
<1> QED
  BY <1>1, SettledKept

LEMMA NamesKept == UNCHANGED meta => Names' = Names
<1> SUFFICES ASSUME UNCHANGED meta PROVE Names' = Names
  OBVIOUS
<1>1. \A r : Search(r)' = Search(r)
  BY DEF Search
<1>2. \A r : Listed(r)' = Listed(r)
  BY <1>1 DEF Listed
<1> QED
  BY <1>2 DEF Names

LEMMA BuiltStep ==
    ASSUME StepInv, BuiltInv, [JobNext]_jobVars
    PROVE  BuiltInv'
<1>1. /\ CoreInv /\ TypeOK /\ AgendaInv /\ agenda \in Seq(CallSet)
      /\ RootSet \subseteq Recipes
  BY CoreParts, DepsAssumption DEF StepInv, RootSet
<1>2. agenda = << >> => \A r : ~Due(r)
  BY DEF Due
<1>3. ASSUME UNCHANGED <<job, local, meta, agenda>> PROVE BuiltInv'
  <2>1. \A r \in RootSet : (Settled(r)' <=> Settled(r)) /\ (Due(r)' <=> Due(r))
    BY <1>3 DEF local, Settled, UpToDate, HasBinary, Due
  <2> QED
    BY <1>3, <2>1, NamesKept DEF BuiltInv, job, project
<1>4. CASE BuilderStep
  <2>1. CASE phase' = "off"
    BY <2>1 DEF BuiltInv
  <2>2. CASE phase' # "off"
    <3>1. /\ UNCHANGED <<phase, build>> /\ phase \in {"create", "collect"}
          /\ \E r \in Recipes : meta'[r] # Absent
      BY <2>2, <1>4, BuilderPhase DEF BuilderStep
    <3>2. PICK q \in Recipes : Run(q)
      BY <1>4 DEF BuilderStep
    <3>3. ~Exit
      BY <3>1 DEF Exit
    <3>4. ~Calling("purge", q)
      <4>1. agenda # << >> => agenda[1].op # "purge" /\ Head(agenda) = agenda[1]
        BY <1>1, <3>1, TailProperties DEF StepInv, PhaseInv
      <4> QED
        BY <4>1 DEF Calling
    <3>5. \A r \in RootSet : Settled(r) \/ Due(r) => Settled(r)' \/ Due(r)'
      BY <1>1, <3>2, <3>3, <3>4, DueRun
    <3>6. CASE phase = "create"
      BY <3>1, <3>5, <3>6 DEF BuiltInv
    <3>7. CASE phase = "collect"
      <4>1. PhaseInv' /\ phase' = "collect"
        BY <3>1, <3>7, CoreStep
      <4>2. \A r : ~Due(r)'
        BY <4>1 DEF PhaseInv, Due, Making
      <4> QED
        BY <3>1, <3>5, <3>7, <4>2 DEF BuiltInv
    <3> QED
      BY <3>1, <3>6, <3>7
  <2> QED
    BY <2>1, <2>2
<1>5. ASSUME NEW b \in BOOLEAN, NEW up \in BOOLEAN, JobStart(b, up) PROVE BuiltInv'
  <2>1. CASE b
    <3>1. phase' = "create" /\ agenda' = Calls("cache", Roots) \o Calls("create", Roots)
      BY <1>5, <2>1 DEF JobStart, CreateCircle, Started
    <3> QED
      BY <3>1, DueStarted DEF BuiltInv
  <2>2. CASE ~b
    <3>1. phase' = "collect" /\ ~build'
      BY <1>5, <2>2 DEF JobStart
    <3> QED
      BY <3>1 DEF BuiltInv
  <2> QED
    BY <2>1, <2>2
<1>6. CASE Created
  <2>1. phase = "create" /\ agenda = << >> /\ phase' = "collect" /\ UNCHANGED <<local, meta>>
    BY <1>6 DEF Created
  <2>2. \A r \in RootSet : Settled(r)
    BY <1>2, <2>1 DEF BuiltInv
  <2>3. \A r \in RootSet : Settled(r)'
    BY <2>1, <2>2 DEF local, Settled, UpToDate, HasBinary
  <2> QED
    BY <2>1, <2>3 DEF BuiltInv
<1>7. CASE Collect
  <2>1. /\ phase = "collect" /\ phase' = "Debug" /\ conanfile' = Names
        /\ UNCHANGED <<local, meta, build>>
    BY <1>7 DEF Collect, vars, process, Names
  <2>2. \A r \in RootSet : Settled(r) => Settled(r)'
    BY <2>1 DEF local, Settled, UpToDate, HasBinary
  <2> QED
    BY <2>1, <2>2, NamesKept DEF BuiltInv
<1>8. ASSUME NEW t \in BuildTypes, InstallSucceeds(t) PROVE BuiltInv'
  <2>1. /\ phase \in {"Debug", "Release"} /\ phase' \in {"Release", "configure"}
        /\ UNCHANGED <<build, conanfile, meta>>
    BY <1>8 DEF InstallSucceeds, process, BuildTypes
  <2>2. \A r \in RootSet : Settled(r) => Settled(r)'
    BY <1>1, <1>8, <2>1, InstallObtains, SettledInstalled
  <2> QED
    BY <2>1, <2>2, NamesKept DEF BuiltInv
<1>9. ASSUME NEW t \in BuildTypes, InstallFails(t) PROVE BuiltInv'
  BY <1>9 DEF InstallFails, BuiltInv
<1>10. CASE Configure \/ Kill
  BY <1>10 DEF Configure, Kill, BuiltInv
<1>11. CASE (\E r \in Recipes : Push(r)) /\ UNCHANGED job
  BY <1>3, <1>11 DEF Push, process
<1>12. CASE UNCHANGED jobVars
  BY <1>3, <1>12 DEF jobVars, vars, process
<1> QED
  BY <1>4, <1>5, <1>6, <1>7, <1>8, <1>9, <1>10, <1>11, <1>12 DEF JobNext, JobStep

LEMMA BuiltFresh ==
    ASSUME StepInv, WholeInv, BuiltInv, RemovesWork
    PROVE  ConfiguredFresh
<1> SUFFICES ASSUME phase = "configure", build, NEW r \in RootSet \ Pinned, meta[r] # NoCommit
             PROVE  /\ exported[r] = meta[r]
                    /\ \A t \in BuildTypes : bin[r][t] >= exported[r]
                    /\ SearchAt[r][exported[r]] \subseteq conanfile
  BY DEF ConfiguredFresh
<1>1. /\ CoreInv /\ LocalInv /\ RecordedNotNewer /\ TypeOK /\ r \in Recipes
  BY CoreParts, DepsAssumption DEF StepInv, Recorded, RootSet
<1>2. UpToDate(r) /\ conanfile = Names
  BY DEF BuiltInv, Settled
<1>3. exported[r] = meta[r] /\ exported[r] # Absent
  BY <1>1, <1>2 DEF UpToDate, HasBinary, LocalInv
<1>4. Search(r) = SearchAt[r][exported[r]] /\ Search(r) \subseteq Recipes
  <2>1. Search(r) = SearchAt[r][exported[r]]
    BY <1>3 DEF Search
  <2>2. exported[r] \in 0..MaxCommit
    BY <1>1, <1>3, CommitAssumption DEF TypeOK, Absent
  <2>3. SearchAt[r] \in [0..MaxCommit -> SUBSET Recipes]
    BY <1>1, SearchAssumption
  <2>4. SearchAt[r][exported[r]] \in SUBSET Recipes
    BY <2>2, <2>3
  <2> QED
    BY <2>1, <2>4
<1>5. Listed(r) \subseteq conanfile
  BY <1>2 DEF Names
<1>6. r \in Listed(r) /\ Search(r) \subseteq Listed(r)
  BY <1>1, <1>4 DEF Listed
<1>7. ASSUME NEW t \in BuildTypes PROVE bin[r][t] >= exported[r]
  <2>1. bin[r][t] # NoBinary
    BY <1>5, <1>6 DEF WholeInv, Whole, BuildTypes
  <2>2. exported[r] <= bin[r][t]
    BY <2>1, <1>1 DEF RecordedNotNewer
  <2> QED
    BY <2>2, <1>1 DEF TypeOK
<1> QED
  BY <1>3, <1>4, <1>5, <1>6, <1>7

\* For any project, graphs, pushes and failures but those of conan search and remove: a job
\* with -b configures the project with the packages at the commits it could read, in both
\* build types, and with what those commits are linked with.
THEOREM ConfiguredIsFresh ==
    ASSUME RemovesWork
    PROVE  JobSpec => []ConfiguredFresh
<1> DEFINE I == StepInv /\ WholeInv /\ BuiltInv
<1>1. JobInit => I
  BY StepInit DEF JobInit, WholeInv, BuiltInv
<1>2. I /\ [JobNext]_jobVars => I'
  BY CoreStep, JobTypeStep, WholeStep, BuiltStep DEF StepInv
<1>3. I => ConfiguredFresh
  BY BuiltFresh
<1> QED
  BY <1>1, <1>2, <1>3, PTL DEF JobSpec

\* For any project, graphs, pushes and failures, those of conan search and remove included:
\* once a job with -b has begun to install, and until cmake was run, each package that the
\* project names is pinned or is in the cache at the commit this job read for it (at any
\* commit if it could read none).
THEOREM JobSettlesRoots ==
    JobSpec => [](build /\ phase \in {"Debug", "Release", "configure"} =>
                      \A r \in RootSet : Settled(r))
<1> DEFINE AllSettled == build /\ phase \in {"Debug", "Release", "configure"} =>
                       \A r \in RootSet : Settled(r)
<1>1. JobInit => StepInv /\ BuiltInv
  BY StepInit DEF JobInit, BuiltInv
<1>2. StepInv /\ BuiltInv /\ [JobNext]_jobVars => (StepInv /\ BuiltInv)'
  BY CoreStep, JobTypeStep, BuiltStep DEF StepInv
<1>3. BuiltInv => AllSettled
  BY DEF BuiltInv
<1> QED
  BY <1>1, <1>2, <1>3, PTL DEF JobSpec

-----------------------------------------------------------------------------
(* What the builder guarantees, it guarantees in a job.                    *)

LEMMA CommandSteps ==
    ASSUME JobNext
    PROVE  \/ [Next]_vars
           \/ \E up \in BOOLEAN : JobStart(FALSE, up)
           \/ Created
           \/ \E t \in BuildTypes : InstallSucceeds(t) \/ InstallFails(t)
           \/ Configure \/ Kill
<1>1. BuilderStep => Next
  BY DEF BuilderStep, Next
<1>2. Collect => UNCHANGED vars
  BY DEF Collect
<1>3. \A up \in BOOLEAN : JobStart(TRUE, up) => Next
  BY DEF JobStart, Next, Start
<1>4. (\E r \in Recipes : Push(r)) => Next
  BY DEF Next
<1>5. (\E b, up \in BOOLEAN : JobStart(b, up)) =>
          \E up \in BOOLEAN : JobStart(TRUE, up) \/ JobStart(FALSE, up)
  OBVIOUS
<1> QED
  BY <1>1, <1>2, <1>3, <1>4, <1>5 DEF JobNext, JobStep

\* Between the steps of the builder a job makes no build, leaves checkouts and remote
\* alone, and only adds to the cache.
LEMMA JobMoves ==
    ASSUME StepInv, [JobNext]_jobVars
    PROVE  \/ [Next]_vars
           \/ /\ UNCHANGED <<head, checkout, remote>>
              /\ UNCHANGED meta \/ meta' = [r \in Recipes |-> Absent]
              /\ \A i \in DOMAIN agenda' : agenda'[i].op # "build"
              /\ \A d \in Recipes : exported[d] # Absent => exported'[d] # Absent
              /\ \/ UNCHANGED local
                 \/ \E t \in BuildTypes : InstallSucceeds(t) \/ InstallFails(t)
<1>1. agenda' = << >> => \A i \in DOMAIN agenda' : agenda'[i].op # "build"
  OBVIOUS
<1>2. agenda' = Calls("cache", Roots) => \A i \in DOMAIN agenda' : agenda'[i].op # "build"
  <2> SUFFICES ASSUME agenda' = Calls("cache", Roots), NEW i \in DOMAIN agenda'
               PROVE  agenda'[i].op # "build"
    OBVIOUS
  <2>1. agenda'[i] = [op |-> "cache", lib |-> Roots[i]]
    BY DEF Calls
  <2> QED
    BY <2>1
<1>3. UNCHANGED local => \A d \in Recipes : exported[d] # Absent => exported'[d] # Absent
  BY DEF local
<1>4. ASSUME NEW up \in BOOLEAN, JobStart(FALSE, up)
      PROVE  /\ UNCHANGED <<head, checkout, remote, local>>
             /\ meta' = [r \in Recipes |-> Absent] /\ agenda' = Calls("cache", Roots)
  BY <1>4 DEF JobStart, Started
<1>5. CASE Created
  BY <1>2, <1>3, <1>5 DEF Created
<1>6. ASSUME NEW t \in BuildTypes, InstallSucceeds(t) \/ InstallFails(t)
      PROVE  /\ UNCHANGED <<head, checkout, remote>> /\ agenda' = << >>
             /\ UNCHANGED meta \/ meta' = [r \in Recipes |-> Absent]
             /\ \A d \in Recipes : exported[d] # Absent => exported'[d] # Absent
  <2>1. agenda' = << >> /\ \A d \in Recipes : exported[d] # Absent => Kept(d)
    BY <1>6, InstallObtains
  <2>2. UNCHANGED <<head, checkout, remote>>
    BY <1>6 DEF InstallSucceeds, InstallFails
  <2>3. UNCHANGED meta \/ meta' = [r \in Recipes |-> Absent]
    BY <1>6 DEF InstallSucceeds, InstallFails, Exit, process
  <2> QED
    BY <2>1, <2>2, <2>3 DEF Kept
<1>7. CASE Configure \/ Kill
  <2>1. agenda' = << >> /\ UNCHANGED local
    BY <1>7, CommandQuiet
  <2>2. UNCHANGED <<head, checkout, remote>> /\ meta' = [r \in Recipes |-> Absent]
    BY <1>7 DEF Configure, Kill, Exit
  <2> QED
    BY <2>1, <2>2, <1>1, <1>3
<1>8. UNCHANGED jobVars => [Next]_vars
  BY DEF jobVars
<1>9. CASE \E up \in BOOLEAN : JobStart(FALSE, up)
  BY <1>2, <1>3, <1>4, <1>9
<1>10. CASE \E t \in BuildTypes : InstallSucceeds(t) \/ InstallFails(t)
  BY <1>1, <1>6, <1>10
<1> QED
  BY <1>5, <1>7, <1>8, <1>9, <1>10, CommandSteps

\* A package is built only while each of its build_deps is at its commit, also when jobs and
\* installs of other packages have changed the cache since it was last built.
THEOREM JobDependenciesFirst == JobSpec => []DepsSettled
<1>1. StepInv => DepsSettled
  BY OrderedDeps DEF StepInv, CoreInv
<1> QED
  BY <1>1, StepInvariant, PTL

\* If conan search and conan remove work: what a job uploads was built with build_deps that
\* all have both binaries, none older than the commit it read for them, although an earlier
\* install may have left one with a single build type.
THEOREM JobUploadsAreFresh ==
    ASSUME RemovesWork
    PROVE  JobSpec => []DepsFresh
<1>1. StepInv => DepsFresh
  BY RecordedDeps DEF StepInv, CoreInv, Recorded, RecordedInv
<1> QED
  BY <1>1, StepInvariant, PTL

\* When a job gives the remote a new recipe, both of its binaries are in the cache and of
\* sources no older than the commit it names: none is uploaded before it is built.
THEOREM JobPublishesItsBuilds == JobSpec => PublishesOnlyBuilt
<1> DEFINE A == \A r \in Recipes :
                  remoteRecipe'[r] # remoteRecipe[r] =>
                      \A t \in BuildTypes : bin[r][t] # NoBinary /\ bin[r][t] >= remoteRecipe'[r]
<1>1. UNCHANGED remote => A
  BY DEF remote
<1>2. StepInv /\ [JobNext]_jobVars => A
  BY <1>1, CoreParts, JobMoves, PublishesBuilt DEF StepInv
<1>3. StepInv /\ [JobNext]_jobVars => [A]_vars
  BY <1>2
<1> QED
  BY <1>3, StepInvariant, PTL DEF JobSpec, PublishesOnlyBuilt

LEMMA JobRebuildInvariant == JobSpec => [](StepInv /\ RebuildInv)
<1>1. JobInit => RebuildInv
  BY DEF JobInit, Init, RebuildInv, NestedInv, PendingInv
<1>2. StepInv /\ RebuildInv /\ [JobNext]_jobVars => RebuildInv'
  BY CoreParts, JobMoves, RebuildStep, RebuildNoBuild DEF StepInv
<1> QED
  BY <1>1, <1>2, StepInvariant, PTL DEF JobSpec

\* A job never removes a package that is up to date, unless a conan inspect or search about
\* that very package failed in it: not what an install of the same or an earlier job
\* brought or built, which the builder finds up to date like its own work.
THEOREM JobRebuildsNothing == JobSpec => NoRedundantRebuild
<1> DEFINE A == \A r \in Recipes :
                  exported[r] # Absent /\ exported'[r] = Absent =>
                      ~UpToDate(r) \/ Calling("purge", r) \/ r \in misread
<1>1. StepInv /\ RebuildInv /\ [JobNext]_jobVars => A
  BY CoreParts, JobMoves, RemovesStale DEF StepInv
<1>2. StepInv /\ RebuildInv /\ [JobNext]_jobVars => [A]_vars
  BY <1>1
<1> QED
  BY <1>2, JobRebuildInvariant, PTL DEF JobSpec, NoRedundantRebuild

\* In a job, too, calls are nested less deep than there are recipes, if none needs itself.
THEOREM JobNestingStaysBounded ==
    ASSUME IsFiniteSet(Recipes)
    PROVE  JobSpec => []NestingBounded
<1>1. StepInv /\ RebuildInv => NestingBounded
  BY CoreParts, RebuildNesting DEF StepInv, RebuildInv
<1> QED
  BY <1>1, JobRebuildInvariant, PTL

\* conan install builds from the HEAD of the branch, a clone, or downloads.
LEMMA ObtainFromBranch ==
    ASSUME TypeOK, FromBranch, NEW recipes, NEW sources, NEW binaries,
           Obtain(recipes, sources, binaries), NEW d \in Recipes
    PROVE  LocalFromBranch(d)
<1>1. /\ src[d] <= head[d]
      /\ \A t \in BuildTypes : bin[d][t] <= head[d] /\ remoteBin[d][t] <= head[d]
  BY DEF FromBranch
<1>2. SourceOf(d) <= head[d]
  BY <1>1, Values DEF SourceOf
<1>3. \A t \in BuildTypes : BinaryOf(d, t) <= head[d]
  BY <1>1, <1>2 DEF BinaryOf
<1>4. /\ src'[d] = IF d \in sources THEN SourceOf(d) ELSE src[d]
      /\ \A t \in BuildTypes :
            bin'[d][t] = IF <<d, t>> \in binaries THEN BinaryOf(d, t) ELSE bin[d][t]
  BY DEF Obtain
<1> QED
  BY <1>1, <1>2, <1>3, <1>4 DEF LocalFromBranch

LEMMA InstallFromBranch ==
    ASSUME TypeOK, FromBranch, NEW t \in BuildTypes, InstallSucceeds(t) \/ InstallFails(t),
           NEW d \in Recipes
    PROVE  LocalFromBranch(d)
<1>1. CASE InstallSucceeds(t)
  <2>1. PICK required \in SUBSET MayBeRequired(t) :
           LET binaries == (conanfile \X {t}) \cup (required \X BuildTypes)
           IN Obtain(conanfile \cup required, BuiltFrom(binaries), binaries)
    BY <1>1 DEF InstallSucceeds
  <2> DEFINE binaries == (conanfile \X {t}) \cup (required \X BuildTypes)
  <2>2. Obtain(conanfile \cup required, BuiltFrom(binaries), binaries)
    BY <2>1
  <2> HIDE DEF binaries
  <2> QED
    BY <2>2, ObtainFromBranch
<1>2. CASE InstallFails(t)
  <2>1. PICK recipes, sources, binaries : Obtain(recipes, sources, binaries)
    BY <1>2 DEF InstallFails, ObtainSome
  <2> QED
    BY <2>1, ObtainFromBranch
<1> QED
  BY <1>1, <1>2

LEMMA JobFreshStep ==
    ASSUME StepInv, FreshInv, [JobNext]_jobVars
    PROVE  FreshInv'
<1>1. DoneInv /\ TypeOK /\ FromBranch /\ ReadInv
  BY CoreParts DEF StepInv, FreshInv
<1>2. CASE [Next]_vars
  BY <1>1, <1>2, FreshStep
<1>3. ASSUME UNCHANGED <<head, checkout, remote>>,
             UNCHANGED meta \/ meta' = [r \in Recipes |-> Absent],
             \A d \in Recipes : LocalFromBranch(d)
      PROVE  FreshInv'
  <2>1. FromBranch'
    BY <1>1, <1>3 DEF FromBranch, LocalFromBranch, remote
  <2>2. ReadInv'
    BY <1>1, <1>3 DEF ReadInv, remote
  <2> QED
    BY <2>1, <2>2 DEF FreshInv
<1>4. UNCHANGED local => \A d \in Recipes : LocalFromBranch(d)
  BY <1>1 DEF local, FromBranch, LocalFromBranch
<1>5. (\E t \in BuildTypes : InstallSucceeds(t) \/ InstallFails(t))
          => \A d \in Recipes : LocalFromBranch(d)
  BY <1>1, InstallFromBranch
<1> QED
  BY <1>2, <1>3, <1>4, <1>5, JobMoves

LEMMA JobFreshInvariant == JobSpec => [](StepInv /\ FreshInv)
<1>1. JobInit => FreshInv
  BY FreshInit DEF JobInit
<1>2. StepInv /\ FreshInv /\ [JobNext]_jobVars => FreshInv'
  BY JobFreshStep
<1> QED
  BY <1>1, <1>2, StepInvariant, PTL DEF JobSpec

\* The job is a Publisher too: the remote sees its builder's uploads, one publication each,
\* and none of what its installs build, whatever they leave in the cache for the next run
\* of the builder to upload or to link with.
THEOREM JobIsPublisher == JobSpec => ImplementsPublisher
<1>1. JobInit => Published!Init
  BY PublisherInit DEF JobInit
<1>2. StepInv /\ FreshInv /\ [JobNext]_jobVars => [Published!Next]_(Published!vars)
  <2> SUFFICES ASSUME StepInv, FreshInv, [JobNext]_jobVars
               PROVE  [Published!Next]_(Published!vars)
    OBVIOUS
  <2>1. DoneInv
    BY CoreParts DEF StepInv
  <2>2. UNCHANGED <<head, remote>> => UNCHANGED Published!vars
    BY DEF remote, Published!vars
  <2> QED
    BY <2>1, <2>2, JobMoves, PublisherStep
<1> QED
  BY <1>1, <1>2, JobFreshInvariant, PTL DEF JobSpec, ImplementsPublisher, Published!Spec

\* What others download is whole while projects are configured on the CI machine: it follows
\* from the abstract specification alone.
COROLLARY JobRemoteNeverNewer == JobSpec => []RemoteNotNewer
  BY JobIsPublisher, PublishersAreSound
=============================================================================

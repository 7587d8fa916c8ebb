----------------------- MODULE ConfigureProjectProofs -----------------------
(***************************************************************************)
(* Proofs that ConfigureProject keeps its invariants, for every set of     *)
(* build types, any number of editions and faults.                         *)
(***************************************************************************)
EXTENDS ConfigureProject, TLAPS

-----------------------------------------------------------------------------
(* Files.                                                                  *)

LEMMA WrittenKeeps ==
    ASSUME NEW files, NEW new
    PROVE  /\ new \subseteq Written(files, new)
           /\ Written(files, new) \subseteq files \cup new
           /\ files = {} => Written(files, new) = new
BY DEF Written

LEMMA BundleIsWeb ==
    ASSUME NEW e \in Editions, NEW d \in Editions \cup {Partial}
    PROVE  /\ Bundle(e, d) \subseteq WebFiles
           /\ \E f \in Bundle(e, d) : f.name = "index"
<1>1. Bundle(e, d) \subseteq WebFiles
  BY DEF WebFiles
<1>2. [name |-> "index", of |-> e, with |-> d] \in Bundle(e, d)
  BY DEF Bundle
<1>3. [name |-> "index", of |-> e, with |-> d].name = "index"
  OBVIOUS
<1> QED BY <1>1, <1>2, <1>3

LEMMA GeneratedType ==
    ASSUME NEW t \in BuildTypes, NEW parts \in SUBSET Parts
    PROVE  /\ Generated(parts, t) \subseteq DepsFiles
           /\ \A f, g \in Generated(parts, t) : f.type = g.type
           /\ {f.part : f \in Generated(parts, t)} = parts
<1>0. ConanType(t) \in {"Debug", "Release"}
  BY DEF ConanType
<1>1. Generated(parts, t) \subseteq DepsFiles
  BY <1>0 DEF Generated, DepsFiles
<1>2. \A f \in Generated(parts, t) : f.type = ConanType(t) /\ f.part \in parts
  BY DEF Generated
<1>3. ASSUME NEW p \in parts PROVE \E f \in Generated(parts, t) : f.part = p
  <2>1. [part |-> p, type |-> ConanType(t)] \in Generated(parts, t)
    BY DEF Generated
  <2>2. [part |-> p, type |-> ConanType(t)].part = p
    OBVIOUS
  <2> QED BY <2>1, <2>2
<1> QED BY <1>1, <1>2, <1>3

LEMMA DirType ==
    ASSUME NEW files, NEW new \in SUBSET files
    PROVE  /\ IsDir(Dir(new), files)
           /\ IsDir(NoDir, files)
           /\ Dir(new).files = new /\ Dir(new).made
BY DEF IsDir, Dir, NoDir

LEMMA KeptType ==
    ASSUME NEW files, NEW d, IsDir(d, files), NEW kept \in SUBSET d.files
    PROVE  IsDir([made |-> d.made, files |-> kept], files)
BY DEF IsDir

-----------------------------------------------------------------------------
(* Type correctness, with the steps at which each process can be.          *)

Control ==
    /\ process.run = "none" <=> at = "idle"
    /\ process.run = "rebuild" => at \notin {"conan", "conan install", "nodejs", "targets"}
    /\ at \in {"conan", "conan install", "nodejs"} => process.found = cache
    /\ at \in {"npm install", "npm build", "remove", "copy", "targets"} =>
           process.found # Nowhere
    /\ process.edition <= edition
    /\ modules.of <= edition

\* What an interrupted command leaves is of the right types; it never touches what
\* another step writes.
LEMMA InterruptedEffect ==
    ASSUME TypeOK, Interrupted
    PROVE  /\ IsDir(deps', DepsFiles)
           /\ modules' \in [made : BOOLEAN, of : Editions \cup {Partial}]
           /\ IsDir(dist', WebFiles)
           /\ IsDir(output', WebFiles)
           /\ at # "conan install" => deps' = deps
           /\ modules' = modules \/ modules'.of = Partial
           /\ at \in Steps
<1>0. /\ IsDir(deps, DepsFiles) /\ IsDir(dist, WebFiles) /\ IsDir(output, WebFiles)
      /\ modules \in [made : BOOLEAN, of : Editions \cup {Partial}]
      /\ edition \in Editions
  BY DEF TypeOK
<1>f. /\ deps.files \subseteq DepsFiles
      /\ dist.files \subseteq WebFiles
      /\ output.files \subseteq WebFiles
  BY <1>0 DEF IsDir
<1>1. CASE at = "conan install" /\ UNCHANGED <<modules, dist, output>>
  <2>1. PICK t \in BuildTypes, parts \in SUBSET Parts :
            deps' = Dir(deps.files \cup Generated(parts, t))
    BY <1>1 DEF Interrupted
  <2>2. IsDir(deps', DepsFiles)
    BY <2>1, <1>f, GeneratedType, DirType
  <2> QED BY <1>1, <2>2, <1>0 DEF Steps
<1>2. CASE at = "npm install" /\ UNCHANGED <<deps, dist, output>>
  <2>1. modules' \in {modules, [made |-> TRUE, of |-> Partial]}
    BY <1>2 DEF Interrupted
  <2>2. [made |-> TRUE, of |-> Partial] \in [made : BOOLEAN, of : Editions \cup {Partial}]
    OBVIOUS
  <2>3. modules' \in [made : BOOLEAN, of : Editions \cup {Partial}]
    BY <1>0, <2>1, <2>2
  <2>4. modules' = modules \/ modules'.of = Partial
    BY <2>1
  <2> QED BY <1>2, <2>3, <2>4, <1>0 DEF Steps
<1>3. CASE at = "npm build" /\ UNCHANGED <<deps, modules, output>>
  <2>1. dist' = dist \/ \E new \in SUBSET Bundle(edition, modules.of) : dist' = Dir(new)
    BY <1>3 DEF Interrupted
  <2>2. Bundle(edition, modules.of) \subseteq WebFiles
    BY <1>0, BundleIsWeb
  <2>3. IsDir(dist', WebFiles)
    BY <2>1, <2>2, <1>0, DirType
  <2> QED BY <1>3, <2>3, <1>0 DEF Steps
<1>4. CASE at = "remove" /\ UNCHANGED <<deps, modules, dist>>
  <2>1. PICK kept \in SUBSET output.files : output' = [made |-> output.made, files |-> kept]
    BY <1>4 DEF Interrupted
  <2>2. IsDir(output', WebFiles)
    BY <2>1, <1>0, KeptType
  <2> QED BY <1>4, <2>2, <1>0 DEF Steps
<1>5. CASE at = "copy" /\ UNCHANGED <<deps, modules, dist>>
  <2>1. PICK new \in SUBSET dist.files : output' = Dir(Written(output.files, new))
    BY <1>5 DEF Interrupted
  <2>2. IsDir(output', WebFiles)
    BY <2>1, <1>f, WrittenKeeps, DirType
  <2> QED BY <1>5, <2>2, <1>0 DEF Steps
<1> QED BY <1>1, <1>2, <1>3, <1>4, <1>5 DEF Interrupted

LEMMA TypeInit == Init => TypeOK /\ Control
<1> SUFFICES ASSUME Init PROVE TypeOK /\ Control
  OBVIOUS
<1>1. /\ edition = 1 /\ web \in BOOLEAN /\ node \in Nowhere..Places /\ cache = Nowhere
      /\ targets = {} /\ deps = NoDir /\ dist = NoDir /\ output = NoDir
      /\ modules = [made |-> FALSE, of |-> Partial]
      /\ at = "idle" /\ process = NoProcess /\ faults = {}
  BY DEF Init
<1>2. 1 \in Editions /\ Nowhere \in Nowhere..Places
  BY ProjectAssumption DEF Editions, Nowhere
<1>3. IsDir(deps, DepsFiles) /\ IsDir(dist, WebFiles) /\ IsDir(output, WebFiles)
  BY <1>1, DirType
<1>4. modules \in [made : BOOLEAN, of : Editions \cup {Partial}] /\ modules.of <= 1
  BY <1>1 DEF Partial
<1>5. /\ process \in ProcessType
      /\ process.run = "none" /\ process.edition = 1
  BY <1>1, <1>2 DEF NoProcess, ProcessType
<1> QED BY <1>1, <1>2, <1>3, <1>4, <1>5 DEF TypeOK, Control

\* A process begins with what is there.
LEMMA Beginning ==
    ASSUME TypeOK, NEW name \in {"configure", "force", "rebuild"}, NEW step, Begin(name, step)
    PROVE  /\ process' \in ProcessType
           /\ process'.run = name /\ process'.found = cache
           /\ process'.edition = edition /\ process'.installs = ~deps.made
           /\ at' = step
           /\ UNCHANGED <<sources, build, disk, faults>>
<1>1. deps.made \in BOOLEAN /\ cache \in Nowhere..Places /\ edition \in Editions
  BY DEF TypeOK, IsDir
<1>2. process' = [run |-> name, found |-> cache, edition |-> edition, installs |-> ~deps.made]
  BY DEF Begin
<1>3. process' \in ProcessType
  BY <1>1, <1>2 DEF ProcessType
<1>4. /\ process'.run = name /\ process'.found = cache
      /\ process'.edition = edition /\ process'.installs = ~deps.made
  BY <1>2
<1> QED BY <1>3, <1>4 DEF Begin

\* No process is left when one fails or is killed, or the build tree is removed.
LEMMA Gone ==
    ASSUME process' = NoProcess
    PROVE  /\ process' \in ProcessType
           /\ process'.run = "none" /\ process'.edition = 1
BY ProjectAssumption DEF NoProcess, ProcessType, Editions, Nowhere

LEMMA FaultType ==
    ASSUME TypeOK, NEW k \in FaultKinds, Fault(k)
    PROVE  faults' \in SUBSET FaultKinds /\ faults \subseteq faults'
BY DEF Fault, TypeOK

\* Which commands may fail, and what of the faults is known then.
LEMMA Failing ==
    ASSUME TypeOK, MayFail
    PROVE  /\ faults' \in SUBSET FaultKinds /\ faults \subseteq faults'
           /\ at \in {"conan install", "npm install", "npm build", "copy", "remove"}
<1>1. CASE NoFault /\ at \in {"npm install", "npm build"}
  BY <1>1 DEF NoFault, TypeOK
<1>2. CASE Fault("command") /\ at \in {"conan install", "npm install", "npm build", "copy"}
  BY <1>2, FaultType DEF FaultKinds
<1>3. CASE Fault("locked") /\ at = "remove"
  BY <1>3, FaultType DEF FaultKinds
<1> QED BY <1>1, <1>2, <1>3 DEF MayFail

LEMMA Found ==
    ASSUME TypeOK
    PROVE  FindNodejs \in Nowhere..Places
BY DEF TypeOK, FindNodejs, ProcessType
LEMMA TypeStep == TypeOK /\ Control /\ [Next]_vars => TypeOK' /\ Control'
<1> SUFFICES ASSUME TypeOK, Control, [Next]_vars PROVE TypeOK' /\ Control'
  OBVIOUS
<1>t. /\ edition \in Editions /\ web \in BOOLEAN
      /\ node \in Nowhere..Places /\ cache \in Nowhere..Places
      /\ targets \in {{}, {"rebuild", "app"}} /\ (targets # {} => cache # Nowhere)
      /\ IsDir(deps, DepsFiles) /\ IsDir(dist, WebFiles) /\ IsDir(output, WebFiles)
      /\ modules \in [made : BOOLEAN, of : Editions \cup {Partial}]
      /\ at \in Steps \cup {"idle", "done"}
      /\ process \in ProcessType /\ faults \in SUBSET FaultKinds
  BY DEF TypeOK
<1>c. /\ process.run = "none" <=> at = "idle"
      /\ process.run = "rebuild" => at \notin {"conan", "conan install", "nodejs", "targets"}
      /\ at \in {"conan", "conan install", "nodejs"} => process.found = cache
      /\ at \in {"npm install", "npm build", "remove", "copy", "targets"} =>
             process.found # Nowhere
      /\ process.edition <= edition /\ modules.of <= edition
  BY DEF Control
<1>f. /\ deps.files \subseteq DepsFiles /\ output.files \subseteq WebFiles
      /\ dist.files \subseteq WebFiles
      /\ process.found \in Nowhere..Places /\ process.edition \in Editions
      /\ modules.of \in Editions \cup {Partial}
  BY <1>t DEF IsDir, ProcessType
<1>e. Editions \subseteq Nat /\ 1 \in Editions /\ \A e \in Editions : 1 <= e
  BY ProjectAssumption DEF Editions
<1>m. edition \in Nat /\ Partial \in Nat /\ Editions \cup {Partial} \subseteq Nat
  BY <1>t, <1>e DEF Partial
<1>n. edition \in Nat /\ modules.of \in Nat /\ Partial <= edition
  <2>1. modules.of \in Nat
    BY <1>f, <1>m
  <2>2. Partial <= edition
    BY <1>m DEF Partial
  <2> QED BY <1>m, <2>1, <2>2
<1> USE DEF sources, build, disk
<1>1. CASE UNCHANGED vars
  BY <1>1, <1>t, <1>c DEF TypeOK, Control, vars
<1>2. CASE MakeDepsDir
  <2>1. IsDir(deps', DepsFiles)
    BY <1>2, DirType DEF MakeDepsDir
  <2> QED BY <1>2, <2>1, <1>t, <1>c DEF MakeDepsDir, TypeOK, Control, Steps
<1>3. CASE KeepDeps
  BY <1>3, <1>t, <1>c DEF KeepDeps, TypeOK, Control, Steps
<1>4. CASE ConanInstallSucceeds
  <2>1. PICK t \in BuildTypes : deps' = Dir(deps.files \cup Generated(Parts, t))
    BY <1>4 DEF ConanInstallSucceeds
  <2>2. IsDir(deps', DepsFiles)
    BY <2>1, <1>f, GeneratedType, DirType
  <2> QED BY <1>4, <2>2, <1>t, <1>c DEF ConanInstallSucceeds, TypeOK, Control, Steps
<1>5. CASE SkipFrontEnd
  BY <1>5, <1>t, <1>c, Found DEF SkipFrontEnd, Generate, TypeOK, Control, Steps
<1>6. CASE LookAtFrontEnd
  <2>1. process' = [process EXCEPT !.found = FindNodejs]
    BY <1>6 DEF LookAtFrontEnd
  <2>2. /\ process' \in ProcessType /\ process'.run = process.run
        /\ process'.found = FindNodejs /\ process'.edition = process.edition
    BY <2>1, <1>t, Found DEF ProcessType
  <2>3. at = "nodejs" /\ at' \in {"remove", "npm build", "npm install"} /\ FindNodejs # Nowhere
    BY <1>6 DEF LookAtFrontEnd
  <2>4. UNCHANGED <<sources, build, disk, faults>>
    BY <1>6 DEF LookAtFrontEnd
  <2> QED BY <2>2, <2>3, <2>4, <1>t, <1>c DEF TypeOK, Control, Steps
<1>7. CASE NpmInstallSucceeds
  <2>1. modules' \in [made : BOOLEAN, of : Editions \cup {Partial}]
    BY <1>7, <1>t DEF NpmInstallSucceeds
  <2>2. modules'.of = edition /\ edition <= edition
    <3>1. modules' = [made |-> TRUE, of |-> edition]
      BY <1>7 DEF NpmInstallSucceeds
    <3>2. edition <= edition
      BY <1>n
    <3> QED BY <3>1, <3>2
  <2> QED BY <1>7, <2>1, <2>2, <1>t, <1>c DEF NpmInstallSucceeds, TypeOK, Control, Steps
<1>8. CASE NpmBuildSucceeds
  <2>1. IsDir(dist', WebFiles)
    BY <1>8, <1>t, <1>f, BundleIsWeb, DirType DEF NpmBuildSucceeds
  <2> QED BY <1>8, <2>1, <1>t, <1>c DEF NpmBuildSucceeds, TypeOK, Control, Steps
<1>9. CASE Remove
  <2>1. IsDir(output', WebFiles)
    BY <1>9, DirType DEF Remove
  <2> QED BY <1>9, <2>1, <1>t, <1>c DEF Remove, TypeOK, Control, Steps
<1>10. CASE RemoveLocked
  <2>1. IsDir(output', WebFiles)
    BY <1>10, <1>t, KeptType DEF RemoveLocked
  <2>2. faults' \in SUBSET FaultKinds
    BY <1>10, FaultType DEF RemoveLocked, FaultKinds
  <2> QED BY <1>10, <2>1, <2>2, <1>t, <1>c DEF RemoveLocked, TypeOK, Control, Steps
<1>11. CASE Copy
  <2>1. IsDir(output', WebFiles)
    BY <1>11, <1>f, WrittenKeeps, DirType DEF Copy
  <2>2. at = "copy" /\ at' = IF process.run = "rebuild" THEN "done" ELSE "targets"
    BY <1>11 DEF Copy
  <2>3. UNCHANGED <<sources, build, deps, modules, dist, process, faults>>
    BY <1>11 DEF Copy
  <2> QED BY <2>1, <2>2, <2>3, <1>t, <1>c DEF TypeOK, Control, Steps
<1>12. CASE AddTargets
  BY <1>12, <1>t, <1>c, <1>f DEF AddTargets, Generate, TypeOK, Control, Steps
<1>13. CASE CommandFails
  <2>1. /\ faults' \in SUBSET FaultKinds
        /\ at \in {"conan install", "npm install", "npm build", "copy", "remove"}
    BY <1>13, Failing DEF CommandFails
  <2>2. /\ IsDir(deps', DepsFiles) /\ IsDir(dist', WebFiles) /\ IsDir(output', WebFiles)
        /\ modules' \in [made : BOOLEAN, of : Editions \cup {Partial}]
        /\ modules' = modules \/ modules'.of = Partial
    BY <1>13, InterruptedEffect DEF CommandFails
  <2>3. process' \in ProcessType /\ process'.run = "none" /\ process'.edition = 1
    BY <1>13, Gone DEF CommandFails
  <2>4. /\ cache' = process.found /\ at' = "idle"
        /\ UNCHANGED <<sources, targets>>
    BY <1>13 DEF CommandFails
  <2>5. targets # {} => cache' # Nowhere
    BY <2>1, <2>4, <1>t, <1>c
  <2>6. modules'.of <= edition
    BY <2>2, <1>c, <1>n
  <2> QED BY <2>1, <2>2, <2>3, <2>4, <2>5, <2>6, <1>t, <1>f, <1>e DEF TypeOK, Control
<1>14. CASE \E force \in BOOLEAN : Configure(force)
  <2>1. PICK name \in {"configure", "force"} : Begin(name, "conan")
    BY <1>14 DEF Configure
  <2>2. /\ process' \in ProcessType /\ process'.run = name
        /\ process'.found = cache /\ process'.edition = edition
        /\ at' = "conan" /\ UNCHANGED <<sources, build, disk, faults>>
    BY <2>1, Beginning
  <2>3. edition <= edition
    BY <1>t, <1>e
  <2> QED BY <2>2, <2>3, <1>t DEF TypeOK, Control, Steps
<1>15. CASE Rebuild
  <2>1. /\ process' \in ProcessType /\ process'.run = "rebuild"
        /\ process'.found = cache /\ process'.edition = edition
        /\ at' = "npm install" /\ UNCHANGED <<sources, build, disk, faults>>
    BY <1>15, Beginning DEF Rebuild
  <2>2. cache # Nowhere
    BY <1>15, <1>t DEF Rebuild
  <2>3. edition <= edition
    BY <1>t, <1>e
  <2> QED BY <2>1, <2>2, <2>3, <1>t DEF TypeOK, Control, Steps
<1>16. CASE Kill
  <2>1. /\ IsDir(deps', DepsFiles) /\ IsDir(dist', WebFiles) /\ IsDir(output', WebFiles)
        /\ modules' \in [made : BOOLEAN, of : Editions \cup {Partial}]
        /\ modules' = modules \/ modules'.of = Partial
    BY <1>16, InterruptedEffect, <1>t DEF Kill
  <2>2. faults' \in SUBSET FaultKinds
    BY <1>16, FaultType DEF Kill, FaultKinds
  <2>3. process' \in ProcessType /\ process'.run = "none" /\ process'.edition = 1
    BY <1>16, Gone DEF Kill
  <2>4. at' = "idle" /\ UNCHANGED <<sources, build>>
    BY <1>16 DEF Kill
  <2>5. modules'.of <= edition
    BY <2>1, <1>c, <1>n
  <2> QED BY <2>1, <2>2, <2>3, <2>4, <2>5, <1>t, <1>e DEF TypeOK, Control
<1>17. CASE Edit
  <2>1. edition' \in Editions /\ edition' >= edition
    BY <1>17, <1>t, ProjectAssumption DEF Edit, Editions
  <2>2. UNCHANGED <<web, node, build, disk, at, process, faults>>
    BY <1>17 DEF Edit
  <2>3. process.edition \in Nat /\ edition \in Nat /\ edition' \in Nat /\ modules.of \in Nat
    BY <2>1, <1>f, <1>e, <1>n
  <2>4. process.edition <= edition /\ edition <= edition' /\ modules.of <= edition
    BY <2>1, <2>3, <1>c
  <2>5. process.edition <= edition' /\ modules.of <= edition'
    BY <2>3, <2>4
  <2> QED BY <2>1, <2>2, <2>5, <1>t, <1>c DEF TypeOK, Control
<1>18. CASE CheckOut
  BY <1>18, <1>t, <1>c DEF CheckOut, TypeOK, Control
<1>19. CASE CleanBuild
  <2>1. process' \in ProcessType /\ process'.run = "none" /\ process'.edition = 1
    BY <1>19, Gone DEF CleanBuild
  <2>2. IsDir(deps', DepsFiles) /\ Nowhere \in Nowhere..Places
    BY <1>19, DirType, ProjectAssumption DEF CleanBuild, Nowhere
  <2> QED BY <1>19, <2>1, <2>2, <1>t, <1>e DEF CleanBuild, TypeOK, Control
<1>20. CASE \E p \in Nowhere..Places : NodeMoves(p)
  BY <1>20, <1>t, <1>c DEF NodeMoves, TypeOK, Control
<1> QED
  BY <1>1, <1>2, <1>3, <1>4, <1>5, <1>6, <1>7, <1>8, <1>9, <1>10, <1>11, <1>12, <1>13,
     <1>14, <1>15, <1>16, <1>17, <1>18, <1>19, <1>20 DEF Next, Step

\* The types of all variables, for any build types, editions and faults: what an
\* interrupted command leaves is never mistaken for something else, and a rebuild target
\* that is there was generated after npm was found.
THEOREM TypeCorrect == Spec => []TypeOK
<1>1. Spec => [](TypeOK /\ Control)
  BY TypeInit, TypeStep, PTL DEF Spec
<1> QED BY <1>1, PTL
-----------------------------------------------------------------------------
(* The deps directory is filled by one conan install, or left alone.       *)

AfterConan == {"nodejs", "npm install", "npm build", "remove", "copy", "targets", "done"}

Installing ==
    /\ \A f, g \in deps.files : f.type = g.type
    /\ at = "conan" => process.installs = ~deps.made
    /\ at = "conan install" => deps.files = {}
    /\ at \in AfterConan /\ process.run # "rebuild" /\ process.installs =>
           {f.part : f \in deps.files} = Parts

LEMMA InstallingInit == Init => Installing
BY DEF Init, Installing, NoDir, AfterConan

\* Once conan has been run or passed over, the process leaves deps as it is.
LEMMA InstallingKept ==
    ASSUME Installing, at \in AfterConan, at' \in AfterConan, deps' = deps,
           process'.run = process.run, process'.installs = process.installs
    PROVE  Installing'
BY DEF Installing, AfterConan

LEMMA InstallingStep == TypeOK /\ Control /\ Installing /\ [Next]_vars => Installing'
<1> SUFFICES ASSUME TypeOK, Control, Installing, [Next]_vars PROVE Installing'
  OBVIOUS
<1>t. /\ IsDir(deps, DepsFiles) /\ deps.made \in BOOLEAN /\ (deps.files # {} => deps.made)
      /\ process \in ProcessType
  BY DEF TypeOK, IsDir
<1> USE DEF sources, build, disk
<1>1. CASE UNCHANGED <<deps, at, process>>
  BY <1>1 DEF Installing
<1>2. CASE MakeDepsDir
  <2>1. deps'.files = {}
    BY <1>2 DEF MakeDepsDir, Dir
  <2> QED BY <1>2, <2>1 DEF MakeDepsDir, Installing, AfterConan
<1>3. CASE KeepDeps
  <2>1. ~process.installs
    BY <1>3, <1>t DEF KeepDeps, Installing
  <2> QED BY <1>3, <2>1 DEF KeepDeps, Installing, AfterConan
<1>4. CASE ConanInstallSucceeds
  <2>1. PICK t \in BuildTypes : deps' = Dir(deps.files \cup Generated(Parts, t))
    BY <1>4 DEF ConanInstallSucceeds
  <2>2. deps'.files = Generated(Parts, t)
    BY <1>4, <2>1 DEF ConanInstallSucceeds, Installing, Dir
  <2>3. /\ \A f, g \in deps'.files : f.type = g.type
        /\ {f.part : f \in deps'.files} = Parts
    BY <2>2, GeneratedType
  <2> QED BY <1>4, <2>3 DEF ConanInstallSucceeds, Installing, AfterConan
<1>5. CASE SkipFrontEnd
  BY <1>5, InstallingKept DEF SkipFrontEnd, Generate, AfterConan
<1>6. CASE LookAtFrontEnd
  <2>1. process'.run = process.run /\ process'.installs = process.installs
    BY <1>6, <1>t DEF LookAtFrontEnd, ProcessType
  <2>2. at = "nodejs" /\ at' \in {"remove", "npm build", "npm install"} /\ deps' = deps
    BY <1>6 DEF LookAtFrontEnd
  <2> QED BY <2>1, <2>2, InstallingKept DEF AfterConan
<1>7. CASE NpmInstallSucceeds \/ NpmBuildSucceeds \/ Remove \/ RemoveLocked \/ AddTargets
  <2>1. at \in AfterConan /\ at' \in AfterConan /\ UNCHANGED <<deps, process>>
    BY <1>7 DEF NpmInstallSucceeds, NpmBuildSucceeds, Remove, RemoveLocked, AddTargets,
                Generate, AfterConan
  <2> QED BY <2>1, InstallingKept
<1>8. CASE Copy
  <2>1. at = "copy" /\ at' \in {"targets", "done"} /\ UNCHANGED <<deps, process>>
    BY <1>8 DEF Copy
  <2> QED BY <2>1, InstallingKept DEF AfterConan
<1>9. CASE Interrupted /\ at' = "idle"
  <2>1. CASE at = "conan install"
    <3>1. PICK t \in BuildTypes, parts \in SUBSET Parts :
              deps' = Dir(deps.files \cup Generated(parts, t))
      BY <1>9, <2>1 DEF Interrupted
    <3>2. deps'.files = Generated(parts, t)
      BY <2>1, <3>1 DEF Installing, Dir
    <3>3. \A f, g \in deps'.files : f.type = g.type
      BY <3>2, GeneratedType
    <3> QED BY <1>9, <3>3 DEF Installing, AfterConan
  <2>2. CASE at # "conan install"
    <3>1. deps' = deps
      BY <1>9, <2>2, InterruptedEffect
    <3> QED BY <1>9, <3>1 DEF Installing, AfterConan
  <2> QED BY <2>1, <2>2
<1>10. CASE Kill
  <2>1. CASE UNCHANGED disk
    BY <1>10, <2>1 DEF Kill, Installing, AfterConan
  <2> QED BY <1>10, <2>1, <1>9 DEF Kill
<1>11. CASE \E force \in BOOLEAN : Configure(force)
  <2>1. PICK name \in {"configure", "force"} : Begin(name, "conan")
    BY <1>11 DEF Configure
  <2>2. process'.installs = ~deps.made /\ at' = "conan" /\ deps' = deps
    BY <2>1, Beginning
  <2> QED BY <2>2 DEF Installing, AfterConan
<1>12. CASE Rebuild
  <2>1. process'.run = "rebuild" /\ at' = "npm install" /\ deps' = deps
    BY <1>12, Beginning DEF Rebuild
  <2> QED BY <2>1 DEF Installing
<1>13. CASE CleanBuild
  BY <1>13 DEF CleanBuild, NoDir, Installing, AfterConan
<1> QED
  BY <1>1, <1>2, <1>3, <1>4, <1>5, <1>6, <1>7, <1>8, <1>9, <1>10, <1>11, <1>12, <1>13
  DEF Next, Step, vars, CommandFails, Edit, CheckOut, NodeMoves

\* However configures were interrupted and whatever build types they had, deps never mixes
\* two conan installs, and a configure that makes it and succeeds has all of it.
THEOREM OneInstall == Spec => []DepsOfOneInstall
<1>1. Spec => [](TypeOK /\ Control /\ Installing)
  BY TypeInit, TypeStep, InstallingInit, InstallingStep, PTL DEF Spec
<1>2. Installing => DepsOfOneInstall
  BY DEF Installing, DepsOfOneInstall, AfterConan
<1> QED BY <1>1, <1>2, PTL

-----------------------------------------------------------------------------
(* What is copied is what was built, and is served.                        *)

HasTargets == at = "targets" \/ (at = "done" /\ targets # {})

Serving ==
    /\ at \in {"remove", "copy"} => HasIndex(dist) /\ dist.made
    /\ at = "copy" /\ "locked" \notin faults => output = NoDir
    /\ HasTargets =>
           /\ HasIndex(output)
           /\ dist.files \subseteq output.files
           /\ "locked" \notin faults => output = dist

LEMMA ServingInit == Init => Serving
BY DEF Init, Serving, HasTargets
LEMMA ServingStep == TypeOK /\ Control /\ Serving /\ [Next]_vars => Serving'
<1> SUFFICES ASSUME TypeOK, Control, Serving, [Next]_vars PROVE Serving'
  OBVIOUS
<1>t. /\ IsDir(dist, WebFiles) /\ IsDir(output, WebFiles)
      /\ edition \in Editions /\ modules.of \in Editions \cup {Partial}
  BY DEF TypeOK
<1>s. HasIndex(dist) => dist.made
  BY <1>t DEF HasIndex, IsDir
<1> USE DEF sources, build, disk
<1>1. CASE UNCHANGED <<dist, output, at, targets, faults>>
  BY <1>1 DEF Serving, HasTargets, HasIndex
\* Steps that neither copy nor serve.
<1>2. CASE at' \notin {"remove", "copy", "targets", "done"}
  BY <1>2 DEF Serving, HasTargets
<1>3. CASE SkipFrontEnd
  <2>1. at' = "done" /\ targets' = {}
    BY <1>3 DEF SkipFrontEnd, Generate
  <2> QED BY <2>1 DEF Serving, HasTargets
<1>4. CASE LookAtFrontEnd
  <2>1. CASE BuildNeeded
    <3>1. at' \in {"npm build", "npm install"}
      BY <1>4, <2>1 DEF LookAtFrontEnd
    <3> QED BY <3>1, <1>2
  <2>2. CASE ~BuildNeeded
    <3>1. at' = "remove" /\ dist' = dist /\ HasIndex(dist)
      BY <1>4, <2>2 DEF LookAtFrontEnd, BuildNeeded
    <3> QED BY <3>1, <1>s DEF Serving, HasTargets
  <2> QED BY <2>1, <2>2
<1>5. CASE NpmBuildSucceeds
  <2>1. dist' = Dir(Bundle(edition, modules.of)) /\ at' = "remove"
    BY <1>5 DEF NpmBuildSucceeds
  <2>2. \E f \in Bundle(edition, modules.of) : f.name = "index"
    BY <1>t, BundleIsWeb
  <2>3. HasIndex(dist)' /\ dist'.made
    BY <2>1, <2>2 DEF HasIndex, Dir
  <2> QED BY <2>1, <2>3 DEF Serving, HasTargets
<1>6. CASE Remove
  BY <1>6 DEF Remove, Serving, HasTargets, HasIndex
<1>7. CASE RemoveLocked
  <2>1. "locked" \in faults'
    BY <1>7 DEF RemoveLocked, Fault
  <2>2. at = "remove" /\ at' = "copy" /\ dist' = dist
    BY <1>7 DEF RemoveLocked
  <2> QED BY <2>1, <2>2 DEF Serving, HasTargets, HasIndex
<1>8. CASE Copy
  <2>1. /\ output' = Dir(Written(output.files, dist.files))
        /\ at = "copy" /\ at' \in {"targets", "done"}
        /\ UNCHANGED <<dist, targets, faults>>
    BY <1>8 DEF Copy
  <2>2. dist.files \subseteq output'.files
    BY <2>1, WrittenKeeps DEF Dir
  <2>3. HasIndex(dist) /\ dist.made
    BY <2>1 DEF Serving
  <2>4. HasIndex(output)'
    BY <2>2, <2>3 DEF HasIndex
  <2>5. ASSUME "locked" \notin faults PROVE output' = dist
    <3>1. output.files = {}
      BY <2>1, <2>5 DEF Serving, NoDir
    <3>2. output' = Dir(dist.files)
      BY <2>1, <3>1, WrittenKeeps
    <3>3. dist = [made |-> dist.made, files |-> dist.files]
      BY <1>t DEF IsDir
    <3> QED BY <3>2, <3>3, <2>3, <1>t DEF Dir, IsDir
  <2> QED BY <2>1, <2>2, <2>4, <2>5 DEF Serving, HasTargets
<1>9. CASE AddTargets
  <2>1. at = "targets" /\ at' = "done" /\ UNCHANGED <<dist, output, faults>>
    BY <1>9 DEF AddTargets, Generate
  <2> QED BY <2>1 DEF Serving, HasTargets, HasIndex
<1>10. CASE Rebuild
  <2>1. at' = "npm install"
    BY <1>10 DEF Rebuild, Begin
  <2> QED BY <2>1, <1>2
<1>11. CASE \E force \in BOOLEAN : Configure(force)
  <2>1. at' = "conan"
    BY <1>11 DEF Configure, Begin
  <2> QED BY <2>1, <1>2
<1> QED
  BY <1>1, <1>2, <1>3, <1>4, <1>5, <1>6, <1>7, <1>8, <1>9, <1>10, <1>11
  DEF Next, Step, vars, MakeDepsDir, KeepDeps, ConanInstallSucceeds, NpmInstallSucceeds,
      CommandFails, Kill, Edit, CheckOut, CleanBuild, NodeMoves

\* After every success that leaves the project its targets, what is served is exactly what
\* npm built, if no file was ever locked; if one was, it is all of it at least.
THEOREM ServesDist == Spec => []OutputIsDist
<1>1. Spec => [](TypeOK /\ Control /\ Serving)
  BY TypeInit, TypeStep, ServingInit, ServingStep, PTL DEF Spec
<1>2. Serving => OutputIsDist
  BY DEF Serving, OutputIsDist, HasTargets
<1> QED BY <1>1, <1>2, PTL

-----------------------------------------------------------------------------
(* What the rebuild target and FORCE promise.                              *)

\* The promise of the process about some directory's files.
Promise(files) ==
    /\ process.run = "rebuild" => WholeSince(process.edition, edition, files)
    /\ process.run = "force" => SourcesSince(process.edition, edition, files)

Fresh ==
    /\ at = "npm build" /\ process.run = "rebuild" =>
           modules.of \in process.edition..edition
    /\ process.run = "rebuild" => targets # {}
    /\ at \in {"remove", "copy"} => Promise(dist.files)
    /\ HasTargets => Promise(output.files)

LEMMA FreshInit == Init => Fresh
BY DEF Init, Fresh, HasTargets, NoProcess

\* A front end that is whole stays so when files are added, and is no older for an edit.
LEMMA PromiseKept ==
    ASSUME TypeOK, NEW files, NEW more, files \subseteq more, Promise(files),
           edition' \in Editions, edition' >= edition, process' = process
    PROVE  /\ process.run = "rebuild" => WholeSince(process.edition, edition', more)
           /\ process.run = "force" => SourcesSince(process.edition, edition', more)
<1>1. edition \in Nat /\ edition' \in Nat /\ process.edition \in Nat
  BY DEF TypeOK, Editions, ProcessType
<1>2. /\ process.edition..edition \subseteq process.edition..edition'
      /\ 0..edition \subseteq 0..edition'
  BY <1>1
<1> QED BY <1>2 DEF Promise, WholeSince, SourcesSince
LEMMA FreshStep == TypeOK /\ Control /\ Serving /\ Fresh /\ [Next]_vars => Fresh'
<1> SUFFICES ASSUME TypeOK, Control, Serving, Fresh, [Next]_vars PROVE Fresh'
  OBVIOUS
<1>t. /\ edition \in Editions /\ modules.of \in Editions \cup {Partial}
      /\ process \in ProcessType /\ process.edition \in Editions
      /\ process.edition <= edition /\ modules.of <= edition
  BY DEF TypeOK, ProcessType, Control
<1>e. /\ Editions \subseteq Nat /\ 0 \in 0..edition
      /\ Editions \cup {Partial} \subseteq Nat
      /\ edition \in process.edition..edition
  BY <1>t DEF Editions, Partial
<1> USE DEF sources, build, disk
<1>1. CASE UNCHANGED <<edition, modules, dist, output, at, targets, process>>
  BY <1>1 DEF Fresh, HasTargets, Promise
\* Steps of no rebuild that neither copy nor serve.
<1>2. CASE process'.run # "rebuild" /\ at' \notin {"remove", "copy", "targets", "done"}
  BY <1>2 DEF Fresh, HasTargets
<1>3. CASE SkipFrontEnd
  <2>1. at = "nodejs" /\ at' = "done" /\ targets' = {} /\ process' = process
    BY <1>3 DEF SkipFrontEnd, Generate
  <2> QED BY <2>1 DEF Fresh, HasTargets, Control
<1>4. CASE LookAtFrontEnd
  <2>1. process'.run = process.run /\ process.run # "rebuild"
    BY <1>4, <1>t DEF LookAtFrontEnd, Control, ProcessType
  <2>2. CASE BuildNeeded
    <3>1. at' \in {"npm build", "npm install"}
      BY <1>4, <2>2 DEF LookAtFrontEnd
    <3> QED BY <3>1, <2>1, <1>2
  <2>3. CASE ~BuildNeeded
    <3>1. at' = "remove" /\ process.run # "force"
      BY <1>4, <2>3 DEF LookAtFrontEnd, BuildNeeded
    <3> QED BY <3>1, <2>1 DEF Fresh, HasTargets, Promise
  <2> QED BY <2>2, <2>3
<1>5. CASE NpmInstallSucceeds
  <2>1. /\ modules'.of = edition /\ at' = "npm build"
        /\ UNCHANGED <<edition, process, targets>>
    BY <1>5 DEF NpmInstallSucceeds
  <2> QED BY <2>1, <1>e DEF Fresh, HasTargets
<1>6. CASE NpmBuildSucceeds
  <2>1. /\ dist' = Dir(Bundle(edition, modules.of)) /\ at = "npm build" /\ at' = "remove"
        /\ UNCHANGED <<edition, process, targets>>
    BY <1>6 DEF NpmBuildSucceeds
  <2>2. dist'.files = Bundle(edition, modules.of)
    BY <2>1 DEF Dir
  <2>3. process.run = "rebuild" => WholeSince(process.edition, edition, dist'.files)
    BY <2>1, <2>2, <1>e DEF Fresh, WholeSince
  <2>4. process.run = "force" => SourcesSince(process.edition, edition, dist'.files)
    <3>1. modules.of \in 0..edition
      BY <1>t, <1>e
    <3> QED BY <3>1, <2>2, <1>e DEF SourcesSince
  <2> QED BY <2>1, <2>3, <2>4 DEF Fresh, HasTargets, Promise
<1>7. CASE Remove \/ RemoveLocked
  <2>1. at = "remove" /\ at' = "copy" /\ UNCHANGED <<edition, dist, process, targets>>
    BY <1>7 DEF Remove, RemoveLocked
  <2> QED BY <2>1 DEF Fresh, HasTargets, Promise
<1>8. CASE Copy
  <2>1. /\ output' = Dir(Written(output.files, dist.files))
        /\ at = "copy" /\ at' \in {"targets", "done"}
        /\ UNCHANGED <<edition, process, targets>>
    BY <1>8 DEF Copy
  <2>2. dist.files \subseteq output'.files /\ Promise(dist.files)
    BY <2>1, WrittenKeeps DEF Dir, Fresh
  <2>3. edition' \in Editions /\ edition' >= edition
    BY <2>1, <1>t, <1>e
  <2>4. Promise(output.files)'
    BY <2>1, <2>2, <2>3, PromiseKept DEF Promise
  <2> QED BY <2>1, <2>4 DEF Fresh, HasTargets
<1>9. CASE AddTargets
  <2>1. /\ at = "targets" /\ at' = "done" /\ process.run # "rebuild"
        /\ UNCHANGED <<edition, output, process>>
    BY <1>9 DEF AddTargets, Generate, Control
  <2> QED BY <2>1 DEF Fresh, HasTargets, Promise
<1>10. CASE Edit
  <2>1. edition' \in Editions /\ edition' >= edition
    BY <1>10, <1>t, ProjectAssumption DEF Edit, Editions
  <2>2. UNCHANGED <<build, disk, at, process>>
    BY <1>10 DEF Edit
  <2>3. at \in {"remove", "copy"} => Promise(dist.files)'
    BY <2>1, <2>2, PromiseKept DEF Fresh, Promise
  <2>4. HasTargets => Promise(output.files)'
    BY <2>1, <2>2, PromiseKept DEF Fresh, Promise
  <2>5. process.edition..edition \subseteq process.edition..edition'
    BY <2>1, <1>t, <1>e
  <2> QED BY <2>2, <2>3, <2>4, <2>5 DEF Fresh, HasTargets
<1>11. CASE Rebuild
  <2>1. process'.run = "rebuild" /\ at' = "npm install" /\ targets' = targets
    BY <1>11, Beginning DEF Rebuild
  <2>2. targets # {}
    BY <1>11 DEF Rebuild
  <2> QED BY <2>1, <2>2 DEF Fresh, HasTargets
<1>12. CASE \E force \in BOOLEAN : Configure(force)
  <2>1. PICK name \in {"configure", "force"} : Begin(name, "conan")
    BY <1>12 DEF Configure
  <2>2. process'.run = name /\ at' = "conan"
    BY <2>1, Beginning
  <2> QED BY <2>2, <1>2
<1>13. CASE process' = NoProcess /\ at' = "idle"
  BY <1>13, <1>2, Gone
<1>14. CASE MakeDepsDir \/ KeepDeps \/ ConanInstallSucceeds
  <2>1. /\ at \in {"conan", "conan install"} /\ at' \in {"conan install", "nodejs"}
        /\ process' = process
    BY <1>14 DEF MakeDepsDir, KeepDeps, ConanInstallSucceeds
  <2> QED BY <2>1, <1>2 DEF Control
<1> QED
  BY <1>1, <1>3, <1>4, <1>5, <1>6, <1>7, <1>8, <1>9, <1>10, <1>11, <1>12, <1>13, <1>14
  DEF Next, Step, vars, CommandFails, Kill, CheckOut, CleanBuild, NodeMoves
\* For any editions, faults and interleaving of edits: a rebuild target that succeeds
\* serves a whole front end of sources and dependencies no older than it began with, and
\* a configure with FORCE one of such sources.
THEOREM RebuildIsFresh == Spec => []RebuiltFresh
<1>1. Spec => [](TypeOK /\ Control /\ Serving /\ Fresh)
  BY TypeInit, TypeStep, ServingInit, ServingStep, FreshInit, FreshStep, PTL DEF Spec
<1>2. Fresh => RebuiltFresh
  BY DEF Fresh, RebuiltFresh, HasTargets, Promise
<1> QED BY <1>1, <1>2, PTL
=============================================================================

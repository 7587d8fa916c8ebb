---------------------- MODULE DependencyBuilderProofs ----------------------
(***************************************************************************)
(* The recursive builder, for every set of packages, every conanfile and   *)
(* every failure: no package is processed twice, and no failure is lost on *)
(* its way to build().  If packages do not need each other, requirements   *)
(* are processed first, and without failures success means installed.      *)
(***************************************************************************)
EXTENDS DependencyBuilder, ToSetLemmas, TLAPS

\* An active process_dependencies call.
Call == [pkg : Packages \cup {Root}, todo : Seq(Packages), success : BOOLEAN]

-----------------------------------------------------------------------------
(* What the three changes of the call stack do.                            *)

\* Advanced: the innermost call of f goes on to its next dependency.
Looped(f, s) ==
    [f EXCEPT ![Len(f)] = [pkg |-> f[Len(f)].pkg, todo |-> Tail(f[Len(f)].todo), success |-> s]]

LEMMA LoopEffect ==
    ASSUME NEW f \in Seq(Call), f # << >>, f[Len(f)].todo # << >>, NEW s \in BOOLEAN,
           NEW g, g = Looped(f, s)
    PROVE  /\ g \in Seq(Call) /\ Len(g) = Len(f)
           /\ DOMAIN f = 1..Len(f) /\ DOMAIN g = DOMAIN f /\ Len(f) \in DOMAIN f
           /\ \A i \in DOMAIN f : /\ g[i].pkg = f[i].pkg
                                  /\ i # Len(f) => g[i] = f[i]
           /\ g[Len(f)].todo = Tail(f[Len(f)].todo)
           /\ g[Len(f)].success = s
<1> DEFINE n == Len(f)
           top == [pkg |-> f[n].pkg, todo |-> Tail(f[n].todo), success |-> s]
<1>1. n \in DOMAIN f /\ f[n] \in Call /\ DOMAIN f = 1..n /\ n \in Nat
  OBVIOUS
<1>2. Tail(f[n].todo) \in Seq(Packages)
  BY <1>1, TailElements DEF Call
<1>3. top \in Call /\ top.pkg = f[n].pkg /\ top.todo = Tail(f[n].todo) /\ top.success = s
  BY <1>1, <1>2 DEF Call
<1>4. g = [f EXCEPT ![n] = top]
  BY DEF Looped
<1> HIDE DEF top
<1>5. g = [i \in DOMAIN f |-> IF i = n THEN top ELSE f[i]]
  BY <1>4
<1>6. g[n] = top /\ DOMAIN g = 1..n /\ \A i \in DOMAIN f : i # n => g[i] = f[i]
  BY <1>1, <1>5
<1>7. g \in Seq(Call) /\ Len(g) = n
  <2>1. \A i \in 1..n : f[i] \in Call
    BY <1>1
  <2>2. g \in [1..n -> Call]
    BY <1>1, <1>3, <1>5, <2>1
  <2> QED BY <1>1, <2>2
<1> QED BY <1>1, <1>3, <1>6, <1>7

\* Recurse: the innermost call goes on to its next dependency, and makes the call c for it.
LEMMA CallEffect ==
    ASSUME NEW f \in Seq(Call), f # << >>, NEW c \in Call,
           NEW g, g = Append(f, c)
    PROVE  /\ g \in Seq(Call) /\ Len(g) = Len(f) + 1 /\ Len(f) \in Nat
           /\ DOMAIN f = 1..Len(f) /\ DOMAIN g = 1..(Len(f) + 1)
           /\ \A i \in DOMAIN f : g[i] = f[i]
           /\ g[Len(f) + 1] = c
BY AppendElements

\* ReturnTo: the innermost call of f ends; its caller's dependency has succeeded or not.
Returned(f, s) ==
    Append(SubSeq(f, 1, Len(f) - 2), [f[Len(f) - 1] EXCEPT !.success = @ /\ s])

LEMMA ReturnEffect ==
    ASSUME NEW f \in Seq(Call), Len(f) > 1, NEW s \in BOOLEAN,
           NEW g, g = Returned(f, s)
    PROVE  /\ g \in Seq(Call) /\ Len(g) = Len(f) - 1
           /\ DOMAIN f = 1..Len(f) /\ DOMAIN g = 1..(Len(f) - 1) /\ Len(f) \in Nat
           /\ \A i \in DOMAIN g : /\ g[i].pkg = f[i].pkg /\ g[i].todo = f[i].todo
                                  /\ g[i].success => f[i].success
                                  /\ s \/ i # Len(f) - 1 => g[i].success = f[i].success
           /\ g[Len(f) - 1].success => s
<1> DEFINE n == Len(f)
           top == [f[n - 1] EXCEPT !.success = @ /\ s]
           h == SubSeq(f, 1, n - 2)
<1>1. n \in Nat /\ n > 1 /\ DOMAIN f = 1..n /\ n - 1 \in DOMAIN f /\ f[n - 1] \in Call
  OBVIOUS
<1>2. f[n - 1].success \in BOOLEAN
  BY <1>1 DEF Call
<1>3. /\ top \in Call /\ top.pkg = f[n - 1].pkg /\ top.todo = f[n - 1].todo
      /\ top.success = (f[n - 1].success /\ s)
  BY <1>1, <1>2 DEF Call
<1>4. h \in Seq(Call) /\ Len(h) = n - 2 /\ \A i \in 1..(n - 2) : h[i] = f[i]
  BY <1>1
<1>5. g = Append(h, top)
  BY DEF Returned
<1> HIDE DEF top, h
<1> DEFINE a == Append(h, top)
<1>6. /\ g \in Seq(Call) /\ Len(g) = n - 1 /\ DOMAIN g = 1..(n - 1)
      /\ \A i \in 1..(n - 2) : g[i] = f[i]
      /\ g[n - 1] = top
  <2>1. /\ a \in Seq(Call) /\ Len(a) = Len(h) + 1
        /\ DOMAIN h = 1..Len(h) /\ DOMAIN a = 1..(Len(h) + 1)
        /\ \A i \in DOMAIN h : a[i] = h[i]
        /\ a[Len(h) + 1] = top
    BY <1>3, <1>4, AppendElements
  <2>2. g = a
    BY <1>5
  <2> HIDE DEF a
  <2>3. Len(h) + 1 = n - 1 /\ DOMAIN h = 1..(n - 2)
    BY <2>1, <1>1, <1>4
  <2> QED BY <2>1, <2>2, <2>3, <1>4
<1>7. ASSUME NEW i \in DOMAIN g
      PROVE  /\ g[i].pkg = f[i].pkg /\ g[i].todo = f[i].todo
             /\ g[i].success => f[i].success
             /\ s \/ i # n - 1 => g[i].success = f[i].success
  <2>1. CASE i = n - 1
    BY <2>1, <1>2, <1>3, <1>6
  <2>2. CASE i \in 1..(n - 2)
    BY <2>2, <1>1, <1>6
  <2>3. i = n - 1 \/ i \in 1..(n - 2)
    BY <1>1, <1>6
  <2> QED BY <2>1, <2>2, <2>3
<1>8. g[n - 1].success => s
  BY <1>2, <1>3, <1>6
<1>9. n - 1 \in DOMAIN g
  BY <1>1, <1>6
<1> QED BY <1>1, <1>6, <1>7, <1>8, <1>9

-----------------------------------------------------------------------------
(* The invariant of the call stack.                                        *)

\* One call for each of distinct packages, none of them built; each call has seen its
\* requirements, or has them still to do.
Stack(f, vis, blt) ==
    /\ f # << >> => f[1].pkg = Root
    /\ \A i \in DOMAIN f :
        /\ i > 1 => f[i].pkg \in vis
        /\ f[i].pkg \notin blt
        /\ \A j \in DOMAIN f : f[i].pkg = f[j].pkg => i = j
        /\ ToSet(f[i].todo) \subseteq DepsOf(f[i].pkg)
        /\ DepsOf(f[i].pkg) \subseteq vis \cup ToSet(f[i].todo)
    /\ \A p \in blt : DepsOf(p) \subseteq vis

StackInv == TypeOK /\ Stack(frames, visited, built)

LEMMA DepsType == \A p \in Packages \cup {Root} :
                      Requires[p] \in Seq(Packages) /\ DepsOf(p) \subseteq Packages
BY RequiresAssumption, ElementsIn DEF DepsOf

LEMMA FrameType ==
    ASSUME NEW p \in Packages \cup {Root}
    PROVE  /\ Frame(p) \in Call
           /\ Frame(p).pkg = p /\ Frame(p).todo = Requires[p] /\ Frame(p).success = TRUE
BY DepsType DEF Frame, Call

\* The innermost loop goes on over d.
LEMMA StackLoop ==
    ASSUME NEW f \in Seq(Call), NEW vis, NEW blt, Stack(f, vis, blt),
           f # << >>, f[Len(f)].todo # << >>, NEW s \in BOOLEAN,
           NEW d, d = Head(f[Len(f)].todo)
    PROVE  Stack(Looped(f, s), vis \cup {d}, blt)
<1> DEFINE n == Len(f)
           g == Looped(f, s)
<1>1. /\ DOMAIN f = 1..n /\ DOMAIN g = DOMAIN f /\ n \in DOMAIN f
      /\ \A i \in DOMAIN f : /\ g[i].pkg = f[i].pkg
                             /\ i # n => g[i] = f[i]
      /\ g[n].todo = Tail(f[n].todo)
  BY LoopEffect
<1>2. g # << >>
  BY <1>1
<1>3. f[n].todo \in Seq(Packages)
  <2>1. f[n] \in Call
    BY <1>1
  <2> QED BY <2>1 DEF Call
<1>4. ToSet(f[n].todo) = {d} \cup ToSet(g[n].todo)
  BY <1>1, <1>3, TailElements
<1> HIDE DEF g, n
<1>5. \A i \in DOMAIN f : /\ ToSet(g[i].todo) \subseteq ToSet(f[i].todo)
                          /\ ToSet(f[i].todo) \subseteq {d} \cup ToSet(g[i].todo)
  BY <1>1, <1>4
<1>6. g[1].pkg = f[1].pkg
  BY <1>1
<1> QED BY <1>1, <1>2, <1>5, <1>6 DEF Stack, g

\* A call for d, not visited so far.
LEMMA StackCall ==
    ASSUME NEW f \in Seq(Call), NEW vis \in SUBSET Packages, NEW blt \in SUBSET vis, Stack(f, vis, blt),
           f # << >>, NEW d \in Packages, d \in vis,
           \A i \in DOMAIN f : f[i].pkg # d, d \notin blt
    PROVE  Stack(Append(f, Frame(d)), vis, blt)
<1> DEFINE n == Len(f)
           g == Append(f, Frame(d))
<1>1. /\ Frame(d) \in Call /\ Frame(d).pkg = d
      /\ ToSet(Frame(d).todo) = DepsOf(d)
  BY FrameType DEF DepsOf
<1>2. /\ DOMAIN f = 1..n /\ DOMAIN g = 1..(n + 1) /\ n \in Nat
      /\ \A i \in DOMAIN f : g[i] = f[i]
      /\ g[n + 1] = Frame(d)
  BY <1>1, CallEffect
<1>3. g # << >> /\ n # 0
  BY <1>2
<1> HIDE DEF g, n
<1>4. g[1].pkg = Root
  BY <1>2, <1>3 DEF Stack
<1>5. \A i \in DOMAIN g : i = n + 1 \/ i \in DOMAIN f
  BY <1>2
<1>6. \A i \in DOMAIN g :
        /\ i > 1 => g[i].pkg \in vis
        /\ g[i].pkg \notin blt
        /\ ToSet(g[i].todo) \subseteq DepsOf(g[i].pkg)
        /\ DepsOf(g[i].pkg) \subseteq vis \cup ToSet(g[i].todo)
  BY <1>1, <1>2, <1>5 DEF Stack
<1>7. ASSUME NEW i \in DOMAIN g, NEW j \in DOMAIN g, g[i].pkg = g[j].pkg
      PROVE  i = j
  BY <1>1, <1>2, <1>5, <1>7 DEF Stack
<1> QED BY <1>4, <1>6, <1>7 DEF Stack, g

\* The innermost call, for p, returns; p was built or not.
LEMMA StackReturn ==
    ASSUME NEW f \in Seq(Call), NEW vis, NEW blt, Stack(f, vis, blt),
           Len(f) > 1, f[Len(f)].todo = << >>, NEW s \in BOOLEAN,
           NEW new \in SUBSET {f[Len(f)].pkg}
    PROVE  Stack(Returned(f, s), vis, blt \cup new)
<1> DEFINE n == Len(f)
           g == Returned(f, s)
<1>1. /\ DOMAIN f = 1..n /\ DOMAIN g = 1..(n - 1) /\ n \in Nat
      /\ \A i \in DOMAIN g : g[i].pkg = f[i].pkg /\ g[i].todo = f[i].todo
  BY ReturnEffect
<1>2. \A i \in DOMAIN g : i \in DOMAIN f /\ i # n
  BY <1>1
<1>3. n \in DOMAIN f /\ 1 \in DOMAIN g /\ f # << >>
  BY <1>1
<1>4. ToSet(f[n].todo) = {}
  BY EmptyElements
<1> HIDE DEF g, n
<1>5. DepsOf(f[n].pkg) \subseteq vis /\ new \subseteq {f[n].pkg}
  BY <1>3, <1>4 DEF Stack, n
<1>6. g[1].pkg = Root
  BY <1>1, <1>3 DEF Stack
<1>7. \A i \in DOMAIN g : g[i].pkg \notin new
  BY <1>1, <1>2, <1>3, <1>5 DEF Stack
<1> QED BY <1>1, <1>2, <1>5, <1>6, <1>7 DEF Stack, g

-----------------------------------------------------------------------------
(* The actions, by what they do to the stack.                              *)

Others == <<verdict, runs>>

Todo == frames[Len(frames)].todo

LEMMA LoopSteps ==
    ASSUME TypeOK, NEW d \in Packages, Skip(d) \/ Installed(d) \/ NoConanfile(d)
    PROVE  /\ frames # << >> /\ Todo # << >> /\ Head(Todo) = d
           /\ visited' = visited \cup {d} /\ built' = built
           /\ listed' = listed \/ listed' = listed \cup {d}
           /\ \E s \in BOOLEAN :
                /\ frames' = Looped(frames, s)
                /\ s => Top.success
                /\ s => d \in visited \/ d \in listed'
           /\ UNCHANGED <<cache, orphans, Others>>
           /\ faults' = faults
<1>1. frames \in Seq(Call)
  BY DEF TypeOK, Call
<1>2. frames # << >> => Top \in Call
  BY <1>1 DEF Top
<1>3. \A s : NextDependency(s) => frames' = Looped(frames, s)
  BY DEF NextDependency, Advanced, Looped, Top
<1>4. CASE Skip(d)
  <2>1. frames # << >> /\ Top.success \in BOOLEAN
    BY <1>2, <1>4 DEF Skip, Running, Call
  <2> QED BY <1>1, <1>3, <1>4, <2>1 DEF Skip, Running, Top, Todo, Others
<1>5. CASE Installed(d)
  <2>1. frames # << >> /\ Top.success \in BOOLEAN
    BY <1>2, <1>5 DEF Installed, Dependency, Running, Call
  <2> QED BY <1>1, <1>3, <1>5, <2>1 DEF Installed, Dependency, Running, Top, Todo, Others
<1>6. CASE NoConanfile(d)
  <2> QED BY <1>3, <1>6 DEF NoConanfile, Dependency, Running, Top, Todo, Others
<1> QED BY <1>4, <1>5, <1>6

LEMMA CallSteps ==
    ASSUME TypeOK, NEW d \in Packages, Recurse(d)
    PROVE  /\ frames # << >> /\ Todo # << >> /\ Head(Todo) = d
           /\ d \notin visited
           /\ visited' = visited \cup {d} /\ built' = built /\ listed' = listed
           /\ frames' = Append(Looped(frames, Top.success), Frame(d))
           /\ Top.success \in BOOLEAN
           /\ UNCHANGED <<cache, orphans, Others>>
           /\ faults' = faults
<1>1. frames \in Seq(Call)
  BY DEF TypeOK, Call
<1>2. frames # << >> /\ Top \in Call
  BY <1>1 DEF Recurse, Dependency, Running, Top
<1>3. Top.success \in BOOLEAN
  BY <1>2 DEF Call
<1>4. Advanced(Top.success) = Looped(frames, Top.success)
  BY DEF Advanced, Looped, Top
<1> QED BY <1>2, <1>3, <1>4 DEF Recurse, Dependency, Top, Todo, Others

Returns(p) ==
    DependenciesFailed(p) \/ BuildSucceeds(p) \/ BuildFails(p) \/ BuildTimesOut(p)

LEMMA ReturnSteps ==
    ASSUME TypeOK, NEW p \in Packages, Returns(p)
    PROVE  /\ Len(frames) > 1 /\ Todo = << >> /\ frames[Len(frames)].pkg = p
           /\ visited' = visited /\ listed' = listed
           /\ \E s \in BOOLEAN :
                /\ frames' = Returned(frames, s)
                /\ s => Top.success
                /\ built' = built \cup (IF s THEN {p} ELSE {})
           /\ UNCHANGED Others
           /\ binaries' \in [Packages -> SUBSET BuildTypes]
           /\ exported' \subseteq Packages
           /\ orphans' \subseteq Packages \X BuildTypes
           /\ faults' \in 0..MaxFaults
<1>1. /\ faults \in 0..MaxFaults /\ MaxFaults \in Nat
      /\ binaries \in [Packages -> SUBSET BuildTypes]
      /\ exported \subseteq Packages
      /\ orphans \subseteq Packages \X BuildTypes
  BY BoundsAssumption DEF TypeOK
<1>2. \A s : ReturnTo(s) => frames' = Returned(frames, s)
  BY DEF ReturnTo, Returned
<1>3. LoopEnded(p)
  BY DEF Returns, DependenciesFailed, BuildSucceeds, BuildFails, BuildTimesOut
<1>4. Len(frames) > 1 /\ Todo = << >> /\ frames[Len(frames)].pkg = p
  BY <1>3 DEF LoopEnded, Todo, Top
<1>5. CASE DependenciesFailed(p)
  BY <1>1, <1>2, <1>4, <1>5 DEF DependenciesFailed, cache, Others
<1>6. CASE BuildSucceeds(p)
  <2>1. faults' \in 0..MaxFaults
    BY <1>1, <1>6 DEF BuildSucceeds, CreateTypes, Fault, NoFault
  <2>2. binaries' \in [Packages -> SUBSET BuildTypes]
    <3>1. \A S \in SUBSET BuildTypes :
            [binaries EXCEPT ![p] = @ \cup {t \in S : Creatable(p, t)}]
                \in [Packages -> SUBSET BuildTypes]
      BY <1>1
    <3>2. \E S \in SUBSET BuildTypes :
            binaries' = [binaries EXCEPT ![p] = @ \cup {t \in S : Creatable(p, t)}]
      BY <1>6 DEF BuildSucceeds, CreateTypes, Created
    <3> QED BY <3>1, <3>2
  <2>3. exported' \subseteq Packages
    BY <1>1, <1>6 DEF BuildSucceeds, CreateTypes, Exports
  <2> QED BY <1>1, <1>2, <1>4, <1>6, <2>1, <2>2, <2>3 DEF BuildSucceeds, Others
<1>7. CASE BuildFails(p)
  <2>1. faults' \in 0..MaxFaults
    BY <1>1, <1>7 DEF BuildFails, Fault
  <2> QED BY <1>1, <1>2, <1>4, <1>7, <2>1 DEF BuildFails, cache, Others
<1>8. CASE BuildTimesOut(p)
  <2>1. faults' \in 0..MaxFaults
    BY <1>1, <1>8 DEF BuildTimesOut, Fault
  <2>2. orphans' \subseteq Packages \X BuildTypes
    BY <1>1, <1>8 DEF BuildTimesOut, BuildTypes
  <2>3. binaries' \in [Packages -> SUBSET BuildTypes]
    <3>1. \A S \in {{}, {"Debug"}} :
            [binaries EXCEPT ![p] = @ \cup {t \in S : Creatable(p, t)}]
                \in [Packages -> SUBSET BuildTypes]
      BY <1>1 DEF BuildTypes
    <3>2. \/ binaries' = binaries
          \/ \E S \in {{}, {"Debug"}} :
                binaries' = [binaries EXCEPT ![p] = @ \cup {t \in S : Creatable(p, t)}]
      BY <1>8 DEF BuildTimesOut, Created
    <3> QED BY <3>1, <3>2, <1>1
  <2>4. exported' \subseteq Packages
    BY <1>1, <1>8 DEF BuildTimesOut, Exports
  <2> QED BY <1>2, <1>4, <1>8, <2>1, <2>2, <2>3, <2>4 DEF BuildTimesOut, Others
<1> QED BY <1>5, <1>6, <1>7, <1>8 DEF Returns

-----------------------------------------------------------------------------
LEMMA StackInit == Init => StackInv
<1> SUFFICES ASSUME Init PROVE StackInv
  OBVIOUS
<1>1. binaries \in [Packages -> SUBSET BuildTypes] /\ exported \subseteq Packages
  BY DEF Init
<1>2. runs \in 0..MaxRuns /\ faults \in 0..MaxFaults
  BY BoundsAssumption DEF Init
<1>3. TypeOK
  BY <1>1, <1>2 DEF Init, TypeOK
<1>4. Stack(frames, visited, built)
  BY DEF Init, Stack
<1> QED BY <1>3, <1>4 DEF StackInv

\* The rest of a run keeps the stack, or begins or ends it.
LEMMA OtherSteps ==
    ASSUME TypeOK,
           \/ Start \/ Return \/ UNCHANGED vars
           \/ \E p \in Packages, t \in BuildTypes : OrphanEnds(p, t)
    PROVE  /\ TypeOK'
           /\ \/ frames' = <<Frame(Root)>> /\ visited' = {} /\ built' = {} /\ listed' = {}
                                           /\ verdict' = "none"
              \/ /\ Len(frames) = 1 /\ frames' = << >>
                 /\ visited' = visited /\ built' = built /\ listed' = listed
                 /\ verdict' = "success" => Top.success
                 /\ Todo = << >>
              \/ UNCHANGED run
<1>1. CASE Start
  <2>1. Frame(Root) \in Call
    BY FrameType
  <2>2. <<Frame(Root)>> \in Seq(Call)
    BY <2>1
  <2>3. runs' \in 0..MaxRuns
    BY <1>1, BoundsAssumption DEF Start, TypeOK
  <2> QED BY <1>1, <2>2, <2>3 DEF Start, cache, TypeOK, Call
<1>2. CASE Return
  <2>1. frames' \in Seq(Call)
    BY <1>2 DEF Return
  <2>2. verdict' \in {"success", "failure"} /\ (verdict' = "success" => Top.success)
    BY <1>2 DEF Return
  <2>3. TypeOK'
    BY <1>2, <2>1, <2>2 DEF Return, cache, TypeOK, Call
  <2> QED BY <1>2, <2>2, <2>3 DEF Return, Top, Todo
<1>3. CASE UNCHANGED vars
  BY <1>3 DEF TypeOK, vars, cache, run
<1>4. CASE \E p \in Packages, t \in BuildTypes : OrphanEnds(p, t)
  <2>1. UNCHANGED <<exported, run, faults>>
    BY <1>4 DEF OrphanEnds
  <2>2. binaries' \in [Packages -> SUBSET BuildTypes] /\ orphans' \subseteq Packages \X BuildTypes
    BY <1>4 DEF OrphanEnds, TypeOK
  <2> QED BY <2>1, <2>2 DEF TypeOK, run
<1> QED BY <1>1, <1>2, <1>3, <1>4

LEMMA StackStep == StackInv /\ [Next]_vars => StackInv'
<1> SUFFICES ASSUME StackInv, [Next]_vars PROVE StackInv'
  OBVIOUS
<1>1. /\ TypeOK /\ Stack(frames, visited, built)
      /\ frames \in Seq(Call) /\ visited \subseteq Packages
      /\ built \subseteq visited /\ listed \subseteq visited
  BY DEF StackInv, TypeOK, Call
<1>2. ASSUME NEW d \in Packages, Skip(d) \/ Installed(d) \/ NoConanfile(d)
      PROVE  StackInv'
  <2>1. /\ frames # << >> /\ Todo # << >> /\ Head(Todo) = d
        /\ visited' = visited \cup {d} /\ built' = built
        /\ listed' = listed \/ listed' = listed \cup {d}
        /\ UNCHANGED <<cache, orphans, Others>>
        /\ faults' = faults
    BY <1>1, <1>2, LoopSteps
  <2>2. PICK s \in BOOLEAN : frames' = Looped(frames, s)
    BY <1>1, <1>2, LoopSteps
  <2>3. Looped(frames, s) \in Seq(Call)
    BY <1>1, <2>1, LoopEffect DEF Todo
  <2>4. TypeOK'
    BY <1>1, <2>1, <2>2, <2>3 DEF TypeOK, cache, Others, Call
  <2>5. Stack(frames', visited', built')
    BY <1>1, <2>1, <2>2, StackLoop DEF Todo
  <2> QED BY <2>4, <2>5 DEF StackInv, Stack
<1>3. ASSUME NEW d \in Packages, Recurse(d)
      PROVE  StackInv'
  <2>1. /\ frames # << >> /\ Todo # << >> /\ Head(Todo) = d
        /\ d \notin visited
        /\ visited' = visited \cup {d} /\ built' = built /\ listed' = listed
        /\ frames' = Append(Looped(frames, Top.success), Frame(d))
        /\ Top.success \in BOOLEAN
        /\ UNCHANGED <<cache, orphans, Others>>
        /\ faults' = faults
    BY <1>1, <1>3, CallSteps
  <2> DEFINE f == Looped(frames, Top.success)
  <2>2. /\ f \in Seq(Call) /\ DOMAIN f = DOMAIN frames /\ f # << >>
        /\ \A i \in DOMAIN frames : f[i].pkg = frames[i].pkg
    <3>1. /\ f \in Seq(Call) /\ Len(f) = Len(frames) /\ DOMAIN f = DOMAIN frames
          /\ Len(frames) \in DOMAIN frames
          /\ \A i \in DOMAIN frames : f[i].pkg = frames[i].pkg
      BY <1>1, <2>1, LoopEffect DEF Todo
    <3> QED BY <3>1
  <2>3. Stack(f, visited', built')
    BY <1>1, <2>1, StackLoop DEF Todo
  <2>4. \A i \in DOMAIN f : f[i].pkg # d
    <3>1. \A i \in DOMAIN frames : i > 1 => frames[i].pkg \in visited
      BY <1>1 DEF Stack
    <3>2. frames[1].pkg = Root /\ Root # d
      BY <1>1, <2>1, RequiresAssumption DEF Stack
    <3>3. \A i \in DOMAIN frames : i = 1 \/ i > 1
      BY <1>1
    <3> QED BY <3>1, <3>2, <3>3, <2>1, <2>2
  <2>5. frames' \in Seq(Call)
    <3>1. Frame(d) \in Call
      BY FrameType
    <3> QED BY <2>1, <2>2, <3>1
  <2>6. TypeOK'
    BY <1>1, <2>1, <2>5 DEF TypeOK, cache, Others, Call
  <2>7. Stack(Append(f, Frame(d)), visited', built')
    <3>1. visited' \in SUBSET Packages /\ built' \in SUBSET visited' /\ d \in visited' /\ d \notin built'
      BY <1>1, <2>1
    <3> QED BY <2>2, <2>3, <2>4, <3>1, StackCall
  <2> QED BY <2>1, <2>6, <2>7 DEF StackInv, Stack
<1>4. ASSUME NEW p \in Packages, Returns(p)
      PROVE  StackInv'
  <2>1. /\ Len(frames) > 1 /\ Todo = << >> /\ frames[Len(frames)].pkg = p
        /\ visited' = visited /\ listed' = listed
        /\ UNCHANGED Others
        /\ binaries' \in [Packages -> SUBSET BuildTypes]
        /\ exported' \subseteq Packages
        /\ orphans' \subseteq Packages \X BuildTypes
        /\ faults' \in 0..MaxFaults
    BY <1>1, <1>4, ReturnSteps
  <2>2. PICK s \in BOOLEAN : /\ frames' = Returned(frames, s)
                             /\ built' = built \cup (IF s THEN {p} ELSE {})
    BY <1>1, <1>4, ReturnSteps
  <2>3. Returned(frames, s) \in Seq(Call)
    BY <1>1, <2>1, ReturnEffect
  <2>4. p \in visited
    BY <1>1, <2>1 DEF Stack
  <2>5. TypeOK'
    BY <1>1, <2>1, <2>2, <2>3, <2>4 DEF TypeOK, cache, Others, Call
  <2>6. Stack(frames', visited', built')
    <3>1. (IF s THEN {p} ELSE {}) \in SUBSET {frames[Len(frames)].pkg}
      BY <2>1
    <3> QED BY <1>1, <2>1, <2>2, <3>1, StackReturn DEF Todo
  <2> QED BY <2>5, <2>6 DEF StackInv, Stack
<1>5. ASSUME \/ Start \/ Return \/ UNCHANGED vars
             \/ \E p \in Packages, t \in BuildTypes : OrphanEnds(p, t)
      PROVE  StackInv'
  <2>1. TypeOK'
    BY <1>1, <1>5, OtherSteps
  <2>2. CASE frames' = <<Frame(Root)>> /\ visited' = {} /\ built' = {}
    <3>1. Frame(Root).pkg = Root /\ ToSet(Frame(Root).todo) = DepsOf(Root)
      BY FrameType DEF DepsOf
    <3>2. frames' # << >> /\ DOMAIN frames' = {1} /\ frames'[1] = Frame(Root)
      BY <2>2
    <3>3. Stack(frames', visited', built')
      BY <2>2, <3>1, <3>2 DEF Stack
    <3> QED BY <2>1, <3>3 DEF StackInv, Stack
  <2>3. CASE frames' = << >> /\ visited' = visited /\ built' = built
    <3>1. Stack(frames', visited', built')
      BY <1>1, <2>3 DEF Stack
    <3> QED BY <2>1, <3>1 DEF StackInv, Stack
  <2>4. CASE UNCHANGED run
    BY <1>1, <2>1, <2>4 DEF StackInv, Stack, run
  <2> QED BY <1>1, <1>5, <2>2, <2>3, <2>4, OtherSteps
<1> QED BY <1>2, <1>3, <1>4, <1>5 DEF Next, Run, Returns

LEMMA StackInvariant == Spec => []StackInv
BY StackInit, StackStep, PTL DEF Spec

\* The variables keep their types, for every requirement and every failure
\* (ConanDependencyBuilder); what is built or found was visited.
THEOREM TypeCorrect == Spec => []TypeOK
BY StackInvariant, PTL DEF StackInv

\* Whatever needs what, and whatever fails: no package is processed twice at a time, or
\* after it was built (process_dependencies); so the recursion is bounded.
THEOREM NothingProcessedTwice == Spec => []ProcessedOnce
<1>1. StackInv => ProcessedOnce
  BY DEF StackInv, Stack, ProcessedOnce
<1> QED BY <1>1, StackInvariant, PTL

-----------------------------------------------------------------------------
(* Failures reach the outermost call.                                      *)

AllSucceed(f) == \A i \in DOMAIN f : f[i].success

PkgsOf(f) == {f[i].pkg : i \in DOMAIN f}

\* As long as no active call has failed, whatever was visited is done or under way.
Told(f, vis, fin) == AllSucceed(f) => vis \subseteq fin \cup PkgsOf(f)

ReportInv ==
    /\ frames # << >> => verdict = "none" /\ Told(frames, visited, listed \cup built)
    /\ verdict = "success" => visited \subseteq listed \cup built /\ DepsOf(Root) \subseteq visited

LEMMA ToldLoop ==
    ASSUME NEW f \in Seq(Call), f # << >>, f[Len(f)].todo # << >>, NEW s \in BOOLEAN,
           s => f[Len(f)].success
    PROVE  /\ AllSucceed(Looped(f, s)) => AllSucceed(f) /\ s
           /\ PkgsOf(Looped(f, s)) = PkgsOf(f)
<1> DEFINE g == Looped(f, s)
<1>1. /\ DOMAIN g = DOMAIN f /\ Len(f) \in DOMAIN f
      /\ \A i \in DOMAIN f : /\ g[i].pkg = f[i].pkg
                             /\ i # Len(f) => g[i] = f[i]
      /\ g[Len(f)].success = s
  BY LoopEffect
<1> HIDE DEF g
<1>2. PkgsOf(g) = PkgsOf(f)
  BY <1>1 DEF PkgsOf
<1>3. AllSucceed(g) => s
  BY <1>1 DEF AllSucceed
<1>4. ASSUME AllSucceed(g), NEW i \in DOMAIN f
      PROVE  f[i].success
  <2>1. CASE i = Len(f)
    BY <1>3, <1>4, <2>1
  <2>2. CASE i # Len(f)
    <3>1. g[i].success
      BY <1>1, <1>4 DEF AllSucceed
    <3> QED BY <3>1, <2>2, <1>1
  <2> QED BY <2>1, <2>2
<1> QED BY <1>2, <1>3, <1>4 DEF AllSucceed, g

LEMMA ToldCall ==
    ASSUME NEW f \in Seq(Call), f # << >>, NEW c \in Call
    PROVE  /\ AllSucceed(Append(f, c)) => AllSucceed(f)
           /\ PkgsOf(Append(f, c)) = PkgsOf(f) \cup {c.pkg}
<1> DEFINE g == Append(f, c)
<1>1. /\ DOMAIN f = 1..Len(f) /\ DOMAIN g = 1..(Len(f) + 1) /\ Len(f) \in Nat
      /\ \A i \in DOMAIN f : g[i] = f[i]
      /\ g[Len(f) + 1] = c
  BY CallEffect
<1> HIDE DEF g
<1>2. /\ \A i \in DOMAIN f : i \in DOMAIN g
      /\ Len(f) + 1 \in DOMAIN g
      /\ \A i \in DOMAIN g : i \in DOMAIN f \/ i = Len(f) + 1
  BY <1>1
<1> QED BY <1>1, <1>2 DEF AllSucceed, PkgsOf, g

LEMMA ToldReturn ==
    ASSUME NEW f \in Seq(Call), Len(f) > 1, NEW s \in BOOLEAN, s => f[Len(f)].success
    PROVE  /\ Returned(f, s) # << >>
           /\ AllSucceed(Returned(f, s)) => AllSucceed(f) /\ s
           /\ PkgsOf(f) = PkgsOf(Returned(f, s)) \cup {f[Len(f)].pkg}
<1> DEFINE n == Len(f)
           g == Returned(f, s)
<1>1. /\ DOMAIN f = 1..n /\ DOMAIN g = 1..(n - 1) /\ n \in Nat
      /\ \A i \in DOMAIN g : /\ g[i].pkg = f[i].pkg
                             /\ g[i].success => f[i].success
      /\ g[n - 1].success => s
  BY ReturnEffect
<1>2. /\ n - 1 \in DOMAIN g /\ n \in DOMAIN f
      /\ \A i \in DOMAIN f : i \in DOMAIN g \/ i = n
      /\ \A i \in DOMAIN g : i \in DOMAIN f
  BY <1>1
<1> HIDE DEF g, n
<1>3. AllSucceed(g) => s
  BY <1>1, <1>2 DEF AllSucceed
<1>4. ASSUME AllSucceed(g), NEW i \in DOMAIN f
      PROVE  f[i].success
  BY <1>1, <1>2, <1>3, <1>4 DEF AllSucceed, n
<1>5. PkgsOf(f) = PkgsOf(g) \cup {f[n].pkg}
  BY <1>1, <1>2 DEF PkgsOf
<1>6. g # << >>
  BY <1>2
<1> QED BY <1>3, <1>4, <1>5, <1>6 DEF AllSucceed, g, n

LEMMA ReportStep == StackInv /\ ReportInv /\ [Next]_vars => ReportInv'
<1> SUFFICES ASSUME StackInv, ReportInv, [Next]_vars PROVE ReportInv'
  OBVIOUS
<1>1. /\ TypeOK /\ Stack(frames, visited, built)
      /\ frames \in Seq(Call) /\ visited \subseteq Packages
  BY DEF StackInv, TypeOK, Call
<1>2. DepsOf(Root)' = DepsOf(Root)
  BY DEF DepsOf
<1>3. ASSUME frames # << >>, frames' # << >>, verdict' = verdict,
             Told(frames', visited', listed' \cup built')
      PROVE  ReportInv'
  BY <1>3 DEF ReportInv, Told, AllSucceed, PkgsOf
<1>4. ASSUME NEW d \in Packages, Skip(d) \/ Installed(d) \/ NoConanfile(d)
      PROVE  ReportInv'
  <2>1. /\ frames # << >> /\ Todo # << >>
        /\ visited' = visited \cup {d} /\ built' = built
        /\ listed' = listed \/ listed' = listed \cup {d}
        /\ verdict' = verdict
    BY <1>1, <1>4, LoopSteps DEF Others
  <2>2. PICK s \in BOOLEAN : /\ frames' = Looped(frames, s)
                             /\ s => Top.success
                             /\ s => d \in visited \/ d \in listed'
    BY <1>1, <1>4, LoopSteps
  <2>3. /\ AllSucceed(frames') => AllSucceed(frames) /\ s
        /\ PkgsOf(frames') = PkgsOf(frames)
    BY <1>1, <2>1, <2>2, ToldLoop DEF Todo, Top
  <2>4. frames' # << >>
    <3>1. DOMAIN Looped(frames, s) = DOMAIN frames /\ Len(frames) \in DOMAIN frames
      BY <1>1, <2>1, LoopEffect DEF Todo
    <3> QED BY <3>1, <2>2
  <2>5. Told(frames', visited', listed' \cup built')
    BY <2>1, <2>2, <2>3 DEF ReportInv, Told
  <2> QED BY <1>3, <2>1, <2>4, <2>5
<1>5. ASSUME NEW d \in Packages, Recurse(d)
      PROVE  ReportInv'
  <2>1. /\ frames # << >> /\ Todo # << >>
        /\ visited' = visited \cup {d} /\ built' = built /\ listed' = listed
        /\ frames' = Append(Looped(frames, Top.success), Frame(d))
        /\ Top.success \in BOOLEAN
        /\ verdict' = verdict
    BY <1>1, <1>5, CallSteps DEF Others
  <2> DEFINE f == Looped(frames, Top.success)
  <2>2. f \in Seq(Call) /\ f # << >>
    <3>1. f \in Seq(Call) /\ DOMAIN f = DOMAIN frames /\ Len(frames) \in DOMAIN frames
      BY <1>1, <2>1, LoopEffect DEF Todo
    <3> QED BY <3>1
  <2>3. /\ AllSucceed(f) => AllSucceed(frames)
        /\ PkgsOf(f) = PkgsOf(frames)
    BY <1>1, <2>1, ToldLoop DEF Todo, Top
  <2>4. /\ AllSucceed(Append(f, Frame(d))) => AllSucceed(f)
        /\ PkgsOf(Append(f, Frame(d))) = PkgsOf(f) \cup {d}
    <3>1. Frame(d) \in Call /\ Frame(d).pkg = d
      BY FrameType
    <3> QED BY <2>2, <3>1, ToldCall
  <2>5. Told(frames', visited', listed' \cup built')
    BY <2>1, <2>3, <2>4 DEF ReportInv, Told
  <2>6. frames' # << >>
    BY <2>1, <2>2
  <2> QED BY <1>3, <2>1, <2>5, <2>6
<1>6. ASSUME NEW p \in Packages, Returns(p)
      PROVE  ReportInv'
  <2>1. /\ Len(frames) > 1 /\ frames[Len(frames)].pkg = p
        /\ visited' = visited /\ listed' = listed /\ verdict' = verdict
    BY <1>1, <1>6, ReturnSteps DEF Others
  <2>2. PICK s \in BOOLEAN : /\ frames' = Returned(frames, s)
                             /\ s => Top.success
                             /\ built' = built \cup (IF s THEN {p} ELSE {})
    BY <1>1, <1>6, ReturnSteps
  <2>3. /\ frames' # << >>
        /\ AllSucceed(frames') => AllSucceed(frames) /\ s
        /\ PkgsOf(frames) = PkgsOf(frames') \cup {p}
    BY <1>1, <2>1, <2>2, ToldReturn DEF Top
  <2>4. frames # << >>
    BY <2>1
  <2>5. Told(frames', visited', listed' \cup built')
    BY <2>1, <2>2, <2>3, <2>4 DEF ReportInv, Told
  <2> QED BY <1>3, <2>1, <2>3, <2>4, <2>5
<1>7. ASSUME \/ Start \/ Return \/ UNCHANGED vars
             \/ \E p \in Packages, t \in BuildTypes : OrphanEnds(p, t)
      PROVE  ReportInv'
  <2>1. CASE frames' = <<Frame(Root)>> /\ visited' = {} /\ verdict' = "none"
    BY <2>1 DEF ReportInv, Told
  <2>2. CASE /\ Len(frames) = 1 /\ frames' = << >>
             /\ visited' = visited /\ built' = built /\ listed' = listed
             /\ verdict' = "success" => Top.success
             /\ Todo = << >>
    <3>1. /\ DOMAIN frames = {1} /\ frames # << >> /\ frames[1] = Top
          /\ frames[1].pkg = Root /\ ToSet(frames[1].todo) = {}
      BY <1>1, <2>2, EmptyElements DEF Stack, Top, Todo
    <3>2. DepsOf(Root) \subseteq visited
      BY <1>1, <3>1 DEF Stack
    <3>3. PkgsOf(frames) = {Root} /\ Root \notin visited
      BY <1>1, <3>1, RequiresAssumption DEF PkgsOf
    <3>4. Top.success => AllSucceed(frames)
      BY <3>1 DEF AllSucceed
    <3>5. Top.success => visited \subseteq listed \cup built
      BY <3>1, <3>3, <3>4 DEF ReportInv, Told
    <3> QED BY <1>2, <2>2, <3>2, <3>5 DEF ReportInv
  <2>3. CASE UNCHANGED run
    BY <1>2, <2>3 DEF ReportInv, Told, AllSucceed, PkgsOf, run
  <2> QED BY <1>1, <1>7, <2>1, <2>2, <2>3, OtherSteps
<1> QED BY <1>4, <1>5, <1>6, <1>7 DEF Next, Run, Returns

LEMMA ReportInvariant == Spec => []ReportInv
<1>1. Init => ReportInv
  BY DEF Init, ReportInv
<1> QED BY <1>1, ReportStep, StackInvariant, PTL DEF Spec

\* For every graph, cyclic or not, and every failure: if build() returns True, all that is
\* needed was found installed or went through create.py, so no failure was swallowed on
\* its way up (process_dependencies, build).
THEOREM FailuresReported == Spec => []FailureReported
<1>1. StackInv /\ ReportInv => FailureReported
  <2> SUFFICES ASSUME StackInv, ReportInv, verdict = "success", NEW p \in built \cup {Root}
               PROVE  DepsOf(p) \subseteq listed \cup built
    BY DEF FailureReported
  <2>1. DepsOf(p) \subseteq visited
    BY DEF StackInv, Stack, ReportInv
  <2> QED BY <2>1 DEF ReportInv
<1> QED BY <1>1, StackInvariant, ReportInvariant, PTL

-----------------------------------------------------------------------------
(* Packages that do not need each other.                                   *)

\* rank goes down from a package to what it needs.
Ranked(rank) ==
    /\ rank \in [Packages \cup {Root} -> Nat]
    /\ \A p \in Packages \cup {Root} : \A d \in DepsOf(p) : rank[d] < rank[p]

Acyclic == \E rank : Ranked(rank)

Rank == CHOOSE rank : Ranked(rank)

\* It goes down along the stack, too.
Descends(f) == \A i, j \in DOMAIN f : i < j => Rank[f[j].pkg] < Rank[f[i].pkg]

DescendInv == Descends(frames)

LEMMA RankIsRanked == Acyclic => Ranked(Rank)
BY DEF Acyclic, Rank

LEMMA DescendsCall ==
    ASSUME NEW f \in Seq(Call), f # << >>, NEW c \in Call, Descends(f), Ranked(Rank),
           c.pkg \in DepsOf(f[Len(f)].pkg)
    PROVE  Descends(Append(f, c))
<1> DEFINE n == Len(f)
           g == Append(f, c)
<1>1. /\ DOMAIN f = 1..n /\ DOMAIN g = 1..(n + 1) /\ n \in Nat \ {0}
      /\ \A i \in DOMAIN f : g[i] = f[i]
      /\ g[n + 1] = c
  BY CallEffect
<1>2. \A i \in DOMAIN f : f[i].pkg \in Packages \cup {Root}
  <2> SUFFICES ASSUME NEW i \in DOMAIN f PROVE f[i].pkg \in Packages \cup {Root}
    OBVIOUS
  <2>1. f[i] \in Call
    OBVIOUS
  <2> QED BY <2>1 DEF Call
<1>3. c.pkg \in Packages \cup {Root}
  BY DEF Call
<1>4. \A i \in DOMAIN f : Rank[f[i].pkg] \in Nat
  BY <1>2 DEF Ranked
<1>5. Rank[c.pkg] \in Nat
  BY <1>3 DEF Ranked
<1>6. n \in DOMAIN f
  BY <1>1
<1>7. Rank[c.pkg] < Rank[f[n].pkg]
  BY <1>2, <1>6 DEF Ranked
<1> HIDE DEF g, n
<1>8. \A i \in DOMAIN f : i = n \/ i < n
  BY <1>1
<1>9. \A i \in DOMAIN f : Rank[c.pkg] < Rank[f[i].pkg]
  <2> SUFFICES ASSUME NEW i \in DOMAIN f, i < n PROVE Rank[c.pkg] < Rank[f[i].pkg]
    BY <1>7, <1>8
  <2>1. Rank[f[n].pkg] < Rank[f[i].pkg]
    BY <1>6 DEF Descends
  <2> QED BY <2>1, <1>4, <1>5, <1>6, <1>7
<1>10. ASSUME NEW i \in DOMAIN g, NEW j \in DOMAIN g, i < j
       PROVE  Rank[g[j].pkg] < Rank[g[i].pkg]
  <2>1. i \in DOMAIN f
    BY <1>1, <1>10
  <2>2. CASE j \in DOMAIN f
    BY <1>1, <1>10, <2>1, <2>2 DEF Descends
  <2>3. CASE j = n + 1
    BY <1>1, <1>9, <2>1, <2>3
  <2> QED BY <1>1, <2>2, <2>3
<1> QED BY <1>10 DEF Descends, g

LEMMA DescendStep == Acyclic /\ StackInv /\ DescendInv /\ [Next]_vars => DescendInv'
<1> SUFFICES ASSUME Acyclic, StackInv, DescendInv, [Next]_vars PROVE Descends(frames')
  BY DEF DescendInv, Descends
<1>1. /\ TypeOK /\ Stack(frames, visited, built) /\ Descends(frames) /\ Ranked(Rank)
      /\ frames \in Seq(Call)
  BY RankIsRanked DEF StackInv, TypeOK, Call, DescendInv
<1>2. ASSUME frames # << >>, Todo # << >>, NEW s \in BOOLEAN
      PROVE  /\ Looped(frames, s) \in Seq(Call) /\ Descends(Looped(frames, s))
             /\ Looped(frames, s) # << >>
             /\ Len(Looped(frames, s)) = Len(frames) /\ Len(frames) \in DOMAIN frames
             /\ Looped(frames, s)[Len(frames)].pkg = frames[Len(frames)].pkg
  <2> DEFINE g == Looped(frames, s)
  <2>1. /\ g \in Seq(Call) /\ Len(g) = Len(frames) /\ DOMAIN g = DOMAIN frames
        /\ Len(frames) \in DOMAIN frames
        /\ \A i \in DOMAIN frames : g[i].pkg = frames[i].pkg
    BY <1>1, <1>2, LoopEffect DEF Todo
  <2> HIDE DEF g
  <2>2. Descends(g) /\ g # << >>
    BY <1>1, <2>1 DEF Descends
  <2> QED BY <2>1, <2>2 DEF g
<1>3. ASSUME NEW d \in Packages, Skip(d) \/ Installed(d) \/ NoConanfile(d)
      PROVE  Descends(frames')
  BY <1>1, <1>2, <1>3, LoopSteps
<1>4. ASSUME NEW d \in Packages, Recurse(d)
      PROVE  Descends(frames')
  <2>1. /\ frames # << >> /\ Todo # << >> /\ Head(Todo) = d
        /\ frames' = Append(Looped(frames, Top.success), Frame(d))
        /\ Top.success \in BOOLEAN
    BY <1>1, <1>4, CallSteps
  <2>2. Frame(d) \in Call /\ Frame(d).pkg = d
    BY FrameType
  <2>3. frames[Len(frames)] \in Call /\ Len(frames) \in DOMAIN frames
    BY <1>1, <2>1
  <2>4. d \in ToSet(Todo)
    BY <2>1, <2>3, TailElements DEF Call, Todo
  <2>5. d \in DepsOf(frames[Len(frames)].pkg)
    BY <1>1, <2>3, <2>4 DEF Stack, Todo
  <2> DEFINE f == Looped(frames, Top.success)
  <2>6. /\ f \in Seq(Call) /\ Descends(f) /\ f # << >>
        /\ f[Len(f)].pkg = frames[Len(frames)].pkg
    BY <1>2, <2>1
  <2> HIDE DEF f
  <2>7. Descends(Append(f, Frame(d)))
    BY <1>1, <2>2, <2>5, <2>6, DescendsCall
  <2> QED BY <2>1, <2>7 DEF f
<1>5. ASSUME NEW p \in Packages, Returns(p)
      PROVE  Descends(frames')
  <2>1. Len(frames) > 1 /\ \E s \in BOOLEAN : frames' = Returned(frames, s)
    BY <1>1, <1>5, ReturnSteps
  <2>2. PICK s \in BOOLEAN : frames' = Returned(frames, s)
    BY <2>1
  <2>3. \A i \in DOMAIN frames' : i \in DOMAIN frames /\ frames'[i].pkg = frames[i].pkg
    BY <1>1, <2>1, <2>2, ReturnEffect
  <2> QED BY <1>1, <2>3 DEF Descends
<1>6. ASSUME \/ Start \/ Return \/ UNCHANGED vars
             \/ \E p \in Packages, t \in BuildTypes : OrphanEnds(p, t)
      PROVE  Descends(frames')
  <2>1. frames' = <<Frame(Root)>> \/ frames' = << >> \/ frames' = frames
    BY <1>1, <1>6, OtherSteps DEF run
  <2> QED BY <1>1, <2>1 DEF Descends
<1> QED BY <1>3, <1>4, <1>5, <1>6 DEF Next, Run, Returns

LEMMA NeedsSettled ==
    ASSUME StackInv, DescendInv, Ranked(Rank), NEW p \in Packages, LoopEnded(p)
    PROVE  DepsOf(p) \subseteq visited \ Active
<1> DEFINE n == Len(frames)
<1>1. /\ Stack(frames, visited, built) /\ frames \in Seq(Call) /\ Descends(frames)
      /\ n \in DOMAIN frames /\ frames[n].pkg = p /\ ToSet(frames[n].todo) = {}
      /\ DOMAIN frames = 1..n /\ n \in Nat
  BY EmptyElements DEF StackInv, TypeOK, Call, DescendInv, LoopEnded, Top
<1>2. DepsOf(p) \subseteq visited
  BY <1>1 DEF Stack
<1>3. ASSUME NEW i \in DOMAIN frames, frames[i].pkg \in DepsOf(p)
      PROVE  FALSE
  <2>1. Rank[frames[i].pkg] < Rank[p]
    BY <1>3 DEF Ranked
  <2>2. Rank[frames[i].pkg] \in Nat /\ Rank[p] \in Nat
    BY <1>3, DepsType DEF Ranked
  <2>3. i = n \/ i < n
    BY <1>1
  <2>4. i < n => Rank[p] < Rank[frames[i].pkg]
    BY <1>1 DEF Descends
  <2> QED BY <2>1, <2>2, <2>3, <2>4, <1>1
<1> QED BY <1>2, <1>3 DEF Active

LEMMA DescendInvariant == Acyclic => (Spec => []DescendInv)
<1> SUFFICES ASSUME Acyclic PROVE Spec => []DescendInv
  OBVIOUS
<1>1. Init => DescendInv
  BY DEF Init, DescendInv, Descends
<1>2. StackInv /\ DescendInv /\ [Next]_vars => DescendInv'
  BY DescendStep
<1> QED BY <1>1, <1>2, StackInvariant, PTL DEF Spec

\* If no packages need each other, whatever fails: when a package's turn to be built comes,
\* all its requirements were processed before (process_dependencies).
THEOREM RequirementsComeFirst == Acyclic => (Spec => []RequirementsFirst)
<1> SUFFICES ASSUME Acyclic PROVE Spec => []RequirementsFirst
  OBVIOUS
<1>1. StackInv /\ DescendInv => RequirementsFirst
  BY NeedsSettled, RankIsRanked DEF RequirementsFirst
<1> QED BY <1>1, StackInvariant, DescendInvariant, PTL

-----------------------------------------------------------------------------
(* Without failures, success means installed.                              *)

\* Those that were built have both binaries, as long as every active call goes well and
\* those found installed have them.
Full(bin, lst, blt, ok) ==
    ok /\ (\A p \in lst : bin[p] = BuildTypes) => \A p \in blt : bin[p] = BuildTypes

\* No active call has failed, nor has a run that is over.
GoesWell == AllSucceed(frames) /\ verdict # "failure"

FullInv == faults = 0 => orphans = {} /\ Full(binaries, listed, built, GoesWell)

\* What was found installed is not being processed, and so is not built in this run.
ListedApart == listed \cap PkgsOf(frames) = {}

LEMMA ApartStep == StackInv /\ ListedApart /\ [Next]_vars => ListedApart'
<1> SUFFICES ASSUME StackInv, ListedApart, [Next]_vars
             PROVE  listed' \cap PkgsOf(frames') = {}
  BY DEF ListedApart, PkgsOf
<1>1. /\ TypeOK /\ Stack(frames, visited, built)
      /\ frames \in Seq(Call) /\ listed \subseteq visited
  BY DEF StackInv, TypeOK, Call
<1>2. ASSUME NEW d \in Packages, Skip(d) \/ Installed(d) \/ NoConanfile(d)
      PROVE  listed' \cap PkgsOf(frames') = {}
  <2>1. frames # << >> /\ Todo # << >>
    BY <1>1, <1>2, LoopSteps
  <2>2. PICK s \in BOOLEAN : frames' = Looped(frames, s) /\ (s => Top.success)
    BY <1>1, <1>2, LoopSteps
  <2>3. PkgsOf(frames') = PkgsOf(frames)
    BY <1>1, <2>1, <2>2, ToldLoop DEF Todo, Top
  <2>4. listed' = listed \/ (listed' = listed \cup {d} /\ d \notin visited)
    BY <1>2 DEF Skip, Installed, Dependency, NoConanfile
  <2>5. d \notin visited => d \notin PkgsOf(frames)
    <3>1. \A i \in DOMAIN frames : i = 1 \/ i > 1
      BY <1>1
    <3>2. frames[1].pkg = Root /\ Root # d
      BY <1>1, <2>1, RequiresAssumption DEF Stack
    <3> QED BY <1>1, <3>1, <3>2 DEF Stack, PkgsOf
  <2> QED BY <2>3, <2>4, <2>5 DEF ListedApart
<1>3. ASSUME NEW d \in Packages, Recurse(d)
      PROVE  listed' \cap PkgsOf(frames') = {}
  <2>1. /\ frames # << >> /\ Todo # << >> /\ d \notin visited /\ listed' = listed
        /\ frames' = Append(Looped(frames, Top.success), Frame(d))
        /\ Top.success \in BOOLEAN
    BY <1>1, <1>3, CallSteps
  <2> DEFINE f == Looped(frames, Top.success)
  <2>2. f \in Seq(Call) /\ f # << >>
    <3>1. f \in Seq(Call) /\ DOMAIN f = DOMAIN frames /\ Len(frames) \in DOMAIN frames
      BY <1>1, <2>1, LoopEffect DEF Todo
    <3> QED BY <3>1
  <2>3. PkgsOf(f) = PkgsOf(frames)
    BY <1>1, <2>1, ToldLoop DEF Todo, Top
  <2>4. PkgsOf(Append(f, Frame(d))) = PkgsOf(f) \cup {d}
    <3>1. Frame(d) \in Call /\ Frame(d).pkg = d
      BY FrameType
    <3> QED BY <2>2, <3>1, ToldCall
  <2> QED BY <1>1, <2>1, <2>3, <2>4 DEF ListedApart
<1>4. ASSUME NEW p \in Packages, Returns(p)
      PROVE  listed' \cap PkgsOf(frames') = {}
  <2>1. /\ Len(frames) > 1 /\ listed' = listed
        /\ \E s \in BOOLEAN : frames' = Returned(frames, s) /\ (s => Top.success)
    BY <1>1, <1>4, ReturnSteps
  <2>2. PkgsOf(frames') \subseteq PkgsOf(frames)
    BY <1>1, <2>1, ToldReturn DEF Top
  <2> QED BY <2>1, <2>2 DEF ListedApart
<1>5. ASSUME \/ Start \/ Return \/ UNCHANGED vars
             \/ \E p \in Packages, t \in BuildTypes : OrphanEnds(p, t)
      PROVE  listed' \cap PkgsOf(frames') = {}
  <2>1. listed' = {} \/ frames' = << >> \/ (listed' = listed /\ frames' = frames)
    BY <1>1, <1>5, OtherSteps DEF run
  <2>2. PkgsOf(<< >>) = {}
    BY DEF PkgsOf
  <2> QED BY <2>1, <2>2 DEF ListedApart
<1> QED BY <1>2, <1>3, <1>4, <1>5 DEF Next, Run, Returns

LEMMA ApartInvariant == Spec => []ListedApart
<1>1. Init => ListedApart
  BY DEF Init, ListedApart
<1> QED BY <1>1, ApartStep, StackInvariant, PTL DEF Spec

\* A package that is built after its requirements were, gets both binaries.
LEMMA FullBuild ==
    ASSUME StackInv, ReportInv, DescendInv, ListedApart, FullInv, Ranked(Rank),
           NEW p \in Packages, BuildSucceeds(p), faults' = 0
    PROVE  orphans' = {} /\ Full(binaries', listed', built', AllSucceed(frames))
<1>1. LoopEnded(p) /\ CreateTypes(p) /\ orphans' = orphans
      /\ listed' = listed /\ built' = built \cup {p}
  BY DEF BuildSucceeds
<1>2. TypeOK /\ built \subseteq Packages /\ listed \subseteq Packages
      /\ binaries \in [Packages -> SUBSET BuildTypes] /\ faults \in Nat
      /\ verdict # "failure" /\ frames # << >>
  <2>1. frames # << >>
    BY <1>1 DEF LoopEnded
  <2> QED BY <2>1 DEF StackInv, TypeOK, ReportInv
<1>3. faults = 0 /\ binaries' = [binaries EXCEPT ![p] = @ \cup {t \in BuildTypes : Creatable(p, t)}]
  BY <1>1, <1>2 DEF CreateTypes, Created, Fault, NoFault
<1>4. orphans = {} /\ Full(binaries, listed, built, AllSucceed(frames))
  BY <1>2, <1>3 DEF FullInv, GoesWell, Full
<1>5. DepsOf(p) \subseteq visited \ PkgsOf(frames) /\ DepsOf(p) \subseteq Packages
  BY <1>1, NeedsSettled, DepsType DEF Active, PkgsOf
<1>6. p \notin listed
  <2>1. Len(frames) \in DOMAIN frames /\ frames[Len(frames)].pkg = p
    BY <1>1, <1>2 DEF LoopEnded, Top, TypeOK
  <2> QED BY <2>1 DEF ListedApart, PkgsOf
<1>7. /\ \A q \in Packages : q # p => binaries'[q] = binaries[q]
      /\ binaries'[p] = binaries[p] \cup {t \in BuildTypes : Creatable(p, t)}
  BY <1>2, <1>3
<1>8. SUFFICES ASSUME AllSucceed(frames), \A q \in listed : binaries'[q] = BuildTypes
               PROVE  \A q \in built \cup {p} : binaries'[q] = BuildTypes
  BY <1>1, <1>4 DEF Full
<1>9. \A q \in listed \cup built : binaries[q] = BuildTypes
  BY <1>2, <1>4, <1>6, <1>7, <1>8 DEF Full
<1>10. {t \in BuildTypes : Creatable(p, t)} = BuildTypes
  <2> SUFFICES ASSUME NEW d \in DepsOf(p) PROVE binaries[d] = BuildTypes
    BY DEF Creatable
  <2>1. visited \subseteq (listed \cup built) \cup PkgsOf(frames)
    BY <1>2, <1>8 DEF ReportInv, Told
  <2> QED BY <1>5, <1>9, <2>1
<1>11. binaries[p] \subseteq BuildTypes
  BY <1>2
<1> QED BY <1>2, <1>7, <1>9, <1>10, <1>11

LEMMA FullStep ==
    Acyclic /\ StackInv /\ ReportInv /\ DescendInv /\ ListedApart /\ FullInv /\ [Next]_vars
        => FullInv'
<1> SUFFICES ASSUME Acyclic, StackInv, ReportInv, DescendInv, ListedApart, FullInv,
                    [Next]_vars, faults' = 0
             PROVE  orphans' = {} /\ Full(binaries', listed', built', GoesWell')
  BY DEF FullInv, Full
<1>1. /\ TypeOK /\ Stack(frames, visited, built) /\ Ranked(Rank)
      /\ frames \in Seq(Call) /\ faults \in Nat
      /\ frames # << >> => verdict # "failure"
  BY RankIsRanked DEF StackInv, TypeOK, Call, ReportInv
<1>2. GoesWell' <=> AllSucceed(frames') /\ verdict' # "failure"
  BY DEF GoesWell, AllSucceed
<1>3. ASSUME NEW d \in Packages, Skip(d) \/ Installed(d) \/ NoConanfile(d)
      PROVE  orphans' = {} /\ Full(binaries', listed', built', GoesWell')
  <2>1. /\ frames # << >> /\ Todo # << >> /\ built' = built
        /\ binaries' = binaries /\ orphans' = orphans
    BY <1>1, <1>3, LoopSteps DEF cache
  <2>2. PICK s \in BOOLEAN : frames' = Looped(frames, s) /\ (s => Top.success)
    BY <1>1, <1>3, LoopSteps
  <2>3. AllSucceed(frames') => AllSucceed(frames)
    BY <1>1, <2>1, <2>2, ToldLoop DEF Todo, Top
  <2>4. faults = 0
    BY <1>1, <1>3, LoopSteps
  <2>5. orphans = {} /\ Full(binaries, listed, built, GoesWell)
    BY <2>4 DEF FullInv
  <2>6. listed \subseteq listed'
    BY <1>1, <1>3, LoopSteps
  <2>7. GoesWell' => GoesWell
    BY <1>1, <1>2, <2>1, <2>3 DEF GoesWell
  <2> QED BY <2>1, <2>5, <2>6, <2>7 DEF Full
<1>4. ASSUME NEW d \in Packages, Recurse(d)
      PROVE  orphans' = {} /\ Full(binaries', listed', built', GoesWell')
  <2>1. /\ frames # << >> /\ Todo # << >>
        /\ built' = built /\ listed' = listed /\ binaries' = binaries /\ orphans' = orphans
        /\ frames' = Append(Looped(frames, Top.success), Frame(d))
        /\ Top.success \in BOOLEAN
    BY <1>1, <1>4, CallSteps DEF cache
  <2> DEFINE f == Looped(frames, Top.success)
  <2>2. f \in Seq(Call) /\ f # << >>
    <3>1. f \in Seq(Call) /\ DOMAIN f = DOMAIN frames /\ Len(frames) \in DOMAIN frames
      BY <1>1, <2>1, LoopEffect DEF Todo
    <3> QED BY <3>1
  <2>3. AllSucceed(f) => AllSucceed(frames)
    BY <1>1, <2>1, ToldLoop DEF Todo, Top
  <2>4. AllSucceed(Append(f, Frame(d))) => AllSucceed(f)
    BY <2>2, FrameType, ToldCall
  <2>5. faults = 0
    BY <1>1, <1>4, CallSteps
  <2>6. GoesWell' => GoesWell
    BY <1>1, <1>2, <2>1, <2>3, <2>4 DEF GoesWell
  <2> QED BY <2>1, <2>5, <2>6 DEF FullInv, Full
<1>5. ASSUME NEW p \in Packages, BuildSucceeds(p)
      PROVE  orphans' = {} /\ Full(binaries', listed', built', GoesWell')
  <2>1. orphans' = {} /\ Full(binaries', listed', built', AllSucceed(frames))
    BY <1>1, <1>5, FullBuild
  <2>2. Len(frames) > 1 /\ \E s \in BOOLEAN : frames' = Returned(frames, s) /\ (s => Top.success)
    BY <1>1, <1>5, ReturnSteps DEF Returns
  <2>3. AllSucceed(frames') => AllSucceed(frames)
    BY <1>1, <2>2, ToldReturn DEF Top
  <2> QED BY <1>2, <2>1, <2>3 DEF Full
<1>6. ASSUME NEW p \in Packages, DependenciesFailed(p)
      PROVE  orphans' = {} /\ Full(binaries', listed', built', GoesWell')
  <2>1. Len(frames) > 1 /\ \E s \in BOOLEAN : frames' = Returned(frames, s) /\ (s => Top.success)
    BY <1>1, <1>6, ReturnSteps DEF Returns
  <2>2. AllSucceed(frames') => AllSucceed(frames)
    BY <1>1, <2>1, ToldReturn DEF Top
  <2>3. UNCHANGED <<binaries, orphans, built, listed, verdict, faults>>
    BY <1>6 DEF DependenciesFailed, cache
  <2>4. GoesWell' => GoesWell
    BY <1>2, <2>2, <2>3 DEF GoesWell
  <2> QED BY <2>3, <2>4 DEF FullInv, Full
<1>7. ASSUME NEW p \in Packages, BuildFails(p) \/ BuildTimesOut(p)
      PROVE  FALSE
  <2>1. Fault
    BY <1>7 DEF BuildFails, BuildTimesOut
  <2> QED BY <1>1, <2>1 DEF Fault
<1>8. ASSUME Start
      PROVE  orphans' = {} /\ Full(binaries', listed', built', GoesWell')
  BY <1>8 DEF Start, FullInv, Full
<1>9. ASSUME Return
      PROVE  orphans' = {} /\ Full(binaries', listed', built', GoesWell')
  <2>1. Len(frames) = 1 /\ UNCHANGED <<binaries, orphans, built, listed, faults>>
    BY <1>9 DEF Return, cache
  <2>2. frames # << >> /\ DOMAIN frames = {1} /\ frames[1] = Top
    <3>1. DOMAIN frames = 1..Len(frames)
      BY <1>1
    <3>2. DOMAIN frames = {1}
      BY <2>1, <3>1
    <3> QED BY <2>1, <3>2 DEF Top
  <2>3. verdict' # "failure" => Top.success
    BY <1>9 DEF Return
  <2>4. GoesWell' => GoesWell
    BY <1>1, <1>2, <2>2, <2>3 DEF GoesWell, AllSucceed
  <2> QED BY <2>1, <2>4 DEF FullInv, Full
<1>10. ASSUME UNCHANGED vars
       PROVE  orphans' = {} /\ Full(binaries', listed', built', GoesWell')
  BY <1>2, <1>10 DEF vars, cache, run, FullInv, Full, GoesWell
<1>11. ASSUME NEW p \in Packages, NEW t \in BuildTypes, OrphanEnds(p, t)
       PROVE  FALSE
  BY <1>11 DEF OrphanEnds, FullInv
<1> QED BY <1>3, <1>4, <1>5, <1>6, <1>7, <1>8, <1>9, <1>10, <1>11 DEF Next, Run

\* If no packages need each other, no command fails, and what check_package_exists took for
\* installed has both binaries: when build() returns True, all that it built, and all that
\* its conanfile needs, has both its binaries (build, create.py), over any cache that
\* earlier runs left.
THEOREM SuccessMeansInstalled == Acyclic => (Spec => []SuccessInstalls)
<1> SUFFICES ASSUME Acyclic PROVE Spec => []SuccessInstalls
  OBVIOUS
<1>1. Init => FullInv
  BY DEF Init, FullInv, Full
<1>2. StackInv /\ ReportInv /\ DescendInv /\ ListedApart /\ FullInv /\ [Next]_vars => FullInv'
  BY FullStep
<1>3. ReportInv /\ FullInv => SuccessInstalls
  <2> SUFFICES ASSUME ReportInv, FullInv, verdict = "success", faults = 0,
                      \A d \in listed : binaries[d] = BuildTypes,
                      NEW p \in built \cup DepsOf(Root)
               PROVE  binaries[p] = BuildTypes
    BY DEF SuccessInstalls
  <2>1. Full(binaries, listed, built, GoesWell) /\ frames = << >>
    BY DEF FullInv, ReportInv
  <2>2. GoesWell
    BY <2>1 DEF GoesWell, AllSucceed
  <2>3. p \in listed \cup built
    BY DEF ReportInv
  <2> QED BY <2>1, <2>2, <2>3 DEF Full
<1> QED BY <1>1, <1>2, <1>3, StackInvariant, ReportInvariant, DescendInvariant, ApartInvariant,
       PTL DEF Spec
=============================================================================

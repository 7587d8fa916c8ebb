------------------------ MODULE CircleCreatorProofs ------------------------
(***************************************************************************)
(* Theorems about CircleCreator, for all recipes, dependencies and bounds. *)
(*                                                                         *)
(* The argument goes in layers, each using the ones before it: the agenda  *)
(* (what start_cache has read when create_circle_recipe runs), the types,  *)
(* the commits (nothing is newer than the branch), what a build leaves in  *)
(* the local cache and on the remote, the order of the builds, and what    *)
(* all of it looks like from outside (Publisher).                          *)
(***************************************************************************)
EXTENDS CircleCreator, SequenceTheorems, FiniteSetTheorems, TLAPS

CallSet == [op : Ops, lib : Recipes]

-----------------------------------------------------------------------------
(* Sequences of calls.                                                     *)

\* The calls made on a list of recipes are calls, in the order of the list.
LEMMA CallsProperties ==
    ASSUME NEW op \in Ops, NEW libs \in Seq(Recipes)
    PROVE  /\ Calls(op, libs) \in Seq(CallSet)
           /\ Len(Calls(op, libs)) = Len(libs)
           /\ \A i \in 1..Len(libs) :
                 Calls(op, libs)[i] = [op |-> op, lib |-> libs[i]]
<1>1. /\ Len(libs) \in Nat
      /\ DOMAIN libs = 1..Len(libs)
      /\ \A i \in 1..Len(libs) : libs[i] \in Recipes
  OBVIOUS
<1>2. Calls(op, libs) = [i \in 1..Len(libs) |-> [op |-> op, lib |-> libs[i]]]
  BY <1>1 DEF Calls
<1>3. \A i \in 1..Len(libs) : [op |-> op, lib |-> libs[i]] \in CallSet
  BY <1>1 DEF CallSet
<1> QED
  BY <1>1, <1>2, <1>3

\* Indices of a sequence whose first element was taken off.
LEMMA TailProperties ==
    ASSUME NEW S, NEW s \in Seq(S), s # << >>
    PROVE  /\ Head(s) \in S
           /\ Head(s) = s[1]
           /\ 1 \in DOMAIN s
           /\ Tail(s) \in Seq(S)
           /\ \A i \in DOMAIN Tail(s) : i + 1 \in DOMAIN s /\ Tail(s)[i] = s[i + 1]
           /\ \A j \in DOMAIN s :
                 j # 1 => j - 1 \in DOMAIN Tail(s) /\ Tail(s)[j - 1] = s[j]
OBVIOUS

\* g is the sequence f followed by s without its first element.
Fronted(g, f, s) ==
    /\ DOMAIN g = 1..Len(g) /\ Len(g) \in Nat
    /\ DOMAIN f = 1..Len(f) /\ Len(f) \in Nat
    /\ DOMAIN s = 1..Len(s) /\ Len(s) \in Nat
    /\ \A i \in DOMAIN f : i \in DOMAIN g /\ g[i] = f[i]
    /\ \A i \in DOMAIN g :
          \/ i \in DOMAIN f /\ g[i] = f[i]
          \/ /\ i > Len(f)
             /\ i - Len(f) + 1 \in DOMAIN s
             /\ g[i] = s[i - Len(f) + 1]
    /\ \A j \in DOMAIN s :
          j # 1 => Len(f) + j - 1 \in DOMAIN g /\ g[Len(f) + j - 1] = s[j]

\* Calls put in the place of the first call of an agenda.
LEMMA FrontProperties ==
    ASSUME NEW f \in Seq(CallSet), NEW s \in Seq(CallSet), s # << >>
    PROVE  f \o Tail(s) \in Seq(CallSet) /\ Fronted(f \o Tail(s), f, s)
BY DEF Fronted

\* g is the sequence s followed by t.
Joined(g, s, t) ==
    /\ Len(g) = Len(s) + Len(t)
    /\ \A i \in 1..(Len(s) + Len(t)) :
          g[i] = IF i <= Len(s) THEN s[i] ELSE t[i - Len(s)]

LEMMA JoinProperties ==
    ASSUME NEW s \in Seq(CallSet), NEW t \in Seq(CallSet)
    PROVE  s \o t \in Seq(CallSet) /\ Joined(s \o t, s, t)
BY ConcatProperties DEF Joined

\* The calls that a stale recipe is replaced by: its dependencies, then its build.
LEMMA StaleProperties ==
    ASSUME NEW r \in Recipes, NEW libs \in Seq(Recipes)
    PROVE  LET f == Calls("create", libs) \o Calls("build", <<r>>) IN
           /\ f \in Seq(CallSet)
           /\ Len(f) = Len(libs) + 1
           /\ \A i \in 1..Len(libs) : f[i] = [op |-> "create", lib |-> libs[i]]
           /\ f[Len(libs) + 1] = [op |-> "build", lib |-> r]
<1> DEFINE c == Calls("create", libs)
           b == Calls("build", <<r>>)
<1>1. /\ c \in Seq(CallSet)
      /\ Len(c) = Len(libs)
      /\ \A i \in 1..Len(libs) : c[i] = [op |-> "create", lib |-> libs[i]]
  BY CallsProperties DEF Ops
<1>2. <<r>> \in Seq(Recipes) /\ Len(<<r>>) = 1 /\ <<r>>[1] = r
  OBVIOUS
<1>3. /\ b \in Seq(CallSet)
      /\ Len(b) = Len(<<r>>)
      /\ \A i \in 1..Len(<<r>>) : b[i] = [op |-> "build", lib |-> <<r>>[i]]
  <2>1. "build" \in Ops
    BY DEF Ops
  <2> QED
    BY <1>2, <2>1, CallsProperties
<1>4. b[1] = [op |-> "build", lib |-> r]
  BY <1>2, <1>3
<1>5. Len(libs) \in Nat /\ Len(b) = 1
  BY <1>2, <1>3
<1> HIDE DEF c, b
<1>6. /\ c \o b \in Seq(CallSet)
      /\ Len(c \o b) = Len(libs) + 1
      /\ \A i \in 1..Len(libs) : (c \o b)[i] = c[i]
      /\ (c \o b)[Len(libs) + 1] = b[1]
  <2>1. c \in Seq(CallSet) /\ b \in Seq(CallSet) /\ Len(c) = Len(libs)
    BY <1>1, <1>3
  <2>2. /\ c \o b \in Seq(CallSet)
        /\ Len(c \o b) = Len(c) + Len(b)
        /\ \A i \in 1..(Len(c) + Len(b)) :
              (c \o b)[i] = IF i <= Len(c) THEN c[i] ELSE b[i - Len(c)]
    BY <2>1, ConcatProperties
  <2>3. \A i \in 1..Len(libs) : (c \o b)[i] = c[i]
    BY <2>1, <2>2, <1>5
  <2>4. (c \o b)[Len(libs) + 1] = b[1]
    BY <2>1, <2>2, <1>5
  <2> QED
    BY <2>1, <2>2, <2>3, <2>4, <1>5
<1> QED
  BY <1>1, <1>4, <1>6 DEF c, b

-----------------------------------------------------------------------------
(* The invariant.                                                          *)

Making == {"create", "build"}

\* start_cache has read recipe d, or will before it is done.
Known(d) ==
    \/ meta[d] # Absent
    \/ \E i \in DOMAIN agenda : agenda[i] = [op |-> "cache", lib |-> d]

CachesFirst ==
    \A i, j \in DOMAIN agenda :
        i < j /\ agenda[i].op \in Making => agenda[j].op \in Making

BuildsLast ==
    \A i, j \in DOMAIN agenda : agenda[i].op = "build" => agenda[j].op \in Making

LibsKnown == \A i \in DOMAIN agenda : agenda[i].op \in Making => Known(agenda[i].lib)

DepsKnown == \A r \in Recipes : \A d \in Deps(r) : Known(d)

AgendaInv == CachesFirst /\ BuildsLast /\ LibsKnown /\ DepsKnown

\* No commit that was read or recorded is newer than the branch.
CommitInv ==
    \A r \in Recipes :
        /\ checkout[r] <= head[r]
        /\ meta[r] <= head[r]
        /\ exported[r] <= head[r]
        /\ remoteRecipe[r] <= head[r]

\* Source and binaries belong to a recipe, and the source is not older than it.
LocalInv ==
    \A r \in Recipes :
        /\ exported[r] = Absent =>
              src[r] = NoBinary /\ \A t \in BuildTypes : bin[r][t] = NoBinary
        /\ src[r] # NoBinary => exported[r] <= src[r]

\* The binary of type t that the running build of r made.
Made(r, t) == bin[r][t] # NoBinary /\ exported[r] <= bin[r][t]

\* What the running build has done so far.
StageInv ==
    /\ stage # "remove" => agenda # << >> /\ Head(agenda).op = "build"
    /\ \A r \in Recipes : Calling("build", r) =>
          /\ stage \in {"Release", "upload"} => exported[r] = meta[r] /\ Made(r, "Debug")
          /\ stage = "upload" => Made(r, "Release")

\* A build later in the agenda comes after its dependencies, done or still to be done.
OrderInv ==
    \A i \in DOMAIN agenda, r \in Recipes : agenda[i] = [op |-> "build", lib |-> r] =>
        \A d \in Deps(r) :
            \/ Settled(d)
            \/ \E j \in DOMAIN agenda :
                  j < i /\ agenda[j].op \in Making /\ agenda[j].lib = d

\* While a package is built, what it needs has all its binaries.
ObtainedInv ==
    \A r \in Recipes : Calling("build", r) /\ stage # "remove" =>
        /\ ~ReachesCycle(r)
        /\ stage # "Debug" =>
              \A d \in Requires(r), t \in BuildTypes : bin[d][t] # NoBinary

\* Only if conan search and remove work: a build starts without the package it is to make.
RemovedInv ==
    \A r \in Recipes : Calling("build", r) /\ stage = "Debug" => exported[r] = Absent

-----------------------------------------------------------------------------
(* The agenda.                                                             *)

LEMMA AgendaInit == Init => AgendaInv
<1> SUFFICES ASSUME Init PROVE AgendaInv
  OBVIOUS
<1>1. agenda = << >> /\ DOMAIN agenda = {}
  BY DEF Init
<1>2. \A r \in Recipes : Deps(r) = {}
  BY DEF Init, Deps
<1> QED
  BY <1>1, <1>2 DEF AgendaInv, CachesFirst, BuildsLast, LibsKnown, DepsKnown

\* The first call is replaced by calls that need what is known already.
LEMMA AgendaFront ==
    ASSUME AgendaInv, agenda \in Seq(CallSet), agenda # << >>, UNCHANGED meta,
           NEW f \in Seq(CallSet), agenda' = f \o Tail(agenda),
           Head(agenda).op = "cache" => meta[Head(agenda).lib] # Absent,
           f # << >> => Head(agenda).op \in Making,
           \A i \in DOMAIN f : f[i].op \in Making /\ meta[f[i].lib] # Absent
    PROVE  AgendaInv'
<1> USE DEF Making
<1>1. /\ Head(agenda) = agenda[1] /\ 1 \in DOMAIN agenda
      /\ \A i \in DOMAIN agenda : agenda[i] \in CallSet
  BY TailProperties
<1>2. agenda' \in Seq(CallSet) /\ Fronted(agenda', f, agenda)
  BY FrontProperties
<1>3. Len(f) \in Nat /\ DOMAIN f = 1..Len(f)
  OBVIOUS
<1>4. /\ DOMAIN agenda = 1..Len(agenda) /\ Len(agenda) \in Nat
      /\ DOMAIN agenda' = 1..Len(agenda') /\ Len(agenda') \in Nat
  BY <1>2 DEF Fronted
<1>5. \A d : Known(d) => Known(d)'
  <2> SUFFICES ASSUME NEW d, Known(d) PROVE Known(d)'
    OBVIOUS
  <2>1. CASE meta[d] # Absent
    BY <2>1 DEF Known
  <2>2. CASE meta[d] = Absent
    <3>1. PICK i \in DOMAIN agenda : agenda[i] = [op |-> "cache", lib |-> d]
      BY <2>2 DEF Known
    <3>2. i # 1
      BY <3>1, <2>2, <1>1
    <3>3. /\ Len(f) + i - 1 \in DOMAIN agenda'
          /\ agenda'[Len(f) + i - 1] = [op |-> "cache", lib |-> d]
      BY <3>1, <3>2, <1>2 DEF Fronted
    <3> QED
      BY <3>3 DEF Known
  <2> QED
    BY <2>1, <2>2
<1>6. CachesFirst'
  <2> SUFFICES ASSUME NEW i \in DOMAIN agenda', NEW j \in DOMAIN agenda',
                      i < j, agenda'[i].op \in Making
               PROVE  agenda'[j].op \in Making
    BY DEF CachesFirst
  <2>1. CASE j \in DOMAIN f /\ agenda'[j] = f[j]
    BY <2>1
  <2>2. CASE /\ j > Len(f)
             /\ j - Len(f) + 1 \in DOMAIN agenda
             /\ agenda'[j] = agenda[j - Len(f) + 1]
    <3>1. CASE i \in DOMAIN f
      <4>1. agenda[1].op \in Making /\ 1 < j - Len(f) + 1
        BY <3>1, <2>2, <1>1, <1>3, <1>4
      <4> QED
        BY <4>1, <2>2, <1>1 DEF AgendaInv, CachesFirst
    <3>2. CASE /\ i > Len(f)
               /\ i - Len(f) + 1 \in DOMAIN agenda
               /\ agenda'[i] = agenda[i - Len(f) + 1]
      <4>1. i - Len(f) + 1 < j - Len(f) + 1
        BY <1>3, <1>4
      <4> QED
        BY <4>1, <3>2, <2>2 DEF AgendaInv, CachesFirst
    <3> QED
      BY <3>1, <3>2, <1>2 DEF Fronted
  <2> QED
    BY <2>1, <2>2, <1>2 DEF Fronted
<1>7. BuildsLast'
  <2> SUFFICES ASSUME NEW i \in DOMAIN agenda', NEW j \in DOMAIN agenda',
                      agenda'[i].op = "build"
               PROVE  agenda'[j].op \in Making
    BY DEF BuildsLast
  <2>1. \A k \in DOMAIN agenda : k # 1 => agenda[k].op \in Making
    <3>1. CASE f # << >>
      <4>1. agenda[1].op \in Making
        BY <3>1, <1>1
      <4>2. \A k \in DOMAIN agenda : k # 1 => 1 < k
        BY <1>4
      <4> QED
        BY <4>1, <4>2, <1>1 DEF AgendaInv, CachesFirst
    <3>2. CASE f = << >>
      <4>1. i - Len(f) + 1 \in DOMAIN agenda /\ agenda'[i] = agenda[i - Len(f) + 1]
        BY <3>2, <1>2 DEF Fronted
      <4> QED
        BY <4>1 DEF AgendaInv, BuildsLast
    <3> QED
      BY <3>1, <3>2
  <2>2. CASE j \in DOMAIN f /\ agenda'[j] = f[j]
    BY <2>2
  <2>3. CASE /\ j > Len(f)
             /\ j - Len(f) + 1 \in DOMAIN agenda
             /\ agenda'[j] = agenda[j - Len(f) + 1]
    <3>1. j - Len(f) + 1 # 1
      BY <2>3, <1>3, <1>4
    <3> QED
      BY <2>1, <2>3, <3>1
  <2> QED
    BY <2>2, <2>3, <1>2 DEF Fronted
<1>8. LibsKnown'
  <2> SUFFICES ASSUME NEW i \in DOMAIN agenda', agenda'[i].op \in Making,
                      NEW l, l = agenda'[i].lib
               PROVE  Known(l)'
    BY DEF LibsKnown, Known
  <2>1. CASE i \in DOMAIN f /\ agenda'[i] = f[i]
    BY <2>1 DEF Known
  <2>2. CASE /\ i > Len(f)
             /\ i - Len(f) + 1 \in DOMAIN agenda
             /\ agenda'[i] = agenda[i - Len(f) + 1]
    <3>1. Known(l)
      BY <2>2 DEF AgendaInv, LibsKnown
    <3> QED
      BY <3>1, <1>5
  <2> QED
    BY <2>1, <2>2, <1>2 DEF Fronted
<1>9. DepsKnown'
  <2>1. \A r : Deps(r)' = Deps(r)
    BY DEF Deps
  <2> QED
    BY <2>1, <1>5 DEF AgendaInv, DepsKnown
<1> QED
  BY <1>6, <1>7, <1>8, <1>9 DEF AgendaInv

\* The first call is done.
LEMMA AgendaReturn ==
    ASSUME AgendaInv, agenda \in Seq(CallSet), agenda # << >>, UNCHANGED meta, Return,
           Head(agenda).op = "cache" => meta[Head(agenda).lib] # Absent
    PROVE  AgendaInv'
<1>1. Tail(agenda) \in Seq(CallSet)
  BY TailProperties
<1>2. << >> \o Tail(agenda) = Tail(agenda)
  BY <1>1, ConcatEmptySeq
<1>3. << >> \in Seq(CallSet) /\ DOMAIN << >> = {}
  OBVIOUS
<1>4. agenda' = << >> \o Tail(agenda)
  BY <1>2 DEF Return
<1> QED
  BY <1>3, <1>4, AgendaFront

\* The process is gone.
LEMMA AgendaExit == Exit => AgendaInv'
<1> SUFFICES ASSUME Exit PROVE AgendaInv'
  OBVIOUS
<1>1. agenda' = << >> /\ DOMAIN agenda' = {}
  BY DEF Exit
<1>2. \A r \in Recipes : Deps(r)' = {}
  BY DEF Exit, Deps
<1> QED
  BY <1>1, <1>2 DEF AgendaInv, CachesFirst, BuildsLast, LibsKnown, DepsKnown

\* start_cache has read the first recipe: the calls on its build_deps come first now.
LEMMA AgendaCache ==
    ASSUME AgendaInv, agenda \in Seq(CallSet), meta \in [Recipes -> -1..MaxCommit],
           NEW r \in Recipes, Calling("cache", r), NEW c \in 0..MaxCommit,
           meta' = [meta EXCEPT ![r] = c],
           agenda' = Calls("cache", DepsAt[r][c]) \o Tail(agenda)
    PROVE  AgendaInv' /\ agenda' \in Seq(CallSet)
<1> DEFINE ds == DepsAt[r][c]
           f == Calls("cache", ds)
<1>1. /\ agenda # << >>
      /\ agenda[1] = [op |-> "cache", lib |-> r] /\ 1 \in DOMAIN agenda
      /\ DOMAIN agenda = 1..Len(agenda) /\ Len(agenda) \in Nat
  BY TailProperties DEF Calling
<1>2. ds \in Seq(Recipes) /\ DOMAIN ds = 1..Len(ds) /\ Len(ds) \in Nat
  <2>1. ds \in Seq(Recipes)
    BY DepsAssumption
  <2> QED
    BY <2>1
<1>3. /\ f \in Seq(CallSet) /\ Len(f) = Len(ds) /\ DOMAIN f = 1..Len(ds)
      /\ \A i \in DOMAIN f : f[i] = [op |-> "cache", lib |-> ds[i]]
  <2>1. "cache" \in Ops
    BY DEF Ops
  <2>2. /\ f \in Seq(CallSet) /\ Len(f) = Len(ds)
        /\ \A i \in 1..Len(ds) : f[i] = [op |-> "cache", lib |-> ds[i]]
    BY <1>2, <2>1, CallsProperties
  <2> HIDE DEF f
  <2>3. DOMAIN f = 1..Len(f)
    BY <2>2
  <2> QED
    BY <2>2, <2>3
<1> HIDE DEF f
<1> DEFINE g == f \o Tail(agenda)
<1>4. g \in Seq(CallSet) /\ Fronted(g, f, agenda)
  BY <1>1, <1>3, FrontProperties
<1>5. agenda' = g
  BY DEF f
<1> HIDE DEF g, ds
<1>6. DOMAIN g = 1..Len(g) /\ Len(g) \in Nat
  BY <1>4 DEF Fronted
<1>7. meta'[r] = c /\ c # Absent /\ \A q \in Recipes : q # r => meta'[q] = meta[q]
  BY DEF Absent
<1>8. \A i \in DOMAIN agenda : agenda[i].op # "build" /\ agenda[i] \in CallSet
  BY <1>1 DEF AgendaInv, BuildsLast, Making
<1>9. ASSUME NEW d \in Recipes, Known(d) PROVE Known(d)'
  <2>1. CASE meta'[d] # Absent
    BY <2>1 DEF Known
  <2>2. CASE meta'[d] = Absent
    <3>1. d # r /\ meta[d] = Absent
      BY <2>2, <1>7
    <3>2. PICK i \in DOMAIN agenda : agenda[i] = [op |-> "cache", lib |-> d]
      BY <1>9, <3>1 DEF Known
    <3>3. i # 1
      BY <3>1, <3>2, <1>1
    <3>4. /\ Len(f) + i - 1 \in DOMAIN agenda'
          /\ agenda'[Len(f) + i - 1] = [op |-> "cache", lib |-> d]
      BY <3>2, <3>3, <1>4, <1>5 DEF Fronted
    <3> QED
      BY <3>4 DEF Known
  <2> QED
    BY <2>1, <2>2
<1>10. CachesFirst'
  <2> SUFFICES ASSUME NEW i \in DOMAIN g, NEW j \in DOMAIN g, i < j, g[i].op \in Making
               PROVE  g[j].op \in Making
    BY <1>5 DEF CachesFirst
  <2>1. /\ i > Len(f)
        /\ i - Len(f) + 1 \in DOMAIN agenda
        /\ g[i] = agenda[i - Len(f) + 1]
    BY <1>3, <1>4 DEF Fronted, Making
  <2>2. /\ j - Len(f) + 1 \in DOMAIN agenda
        /\ g[j] = agenda[j - Len(f) + 1]
        /\ i - Len(f) + 1 < j - Len(f) + 1
    BY <2>1, <1>2, <1>3, <1>4, <1>6 DEF Fronted
  <2> QED
    BY <2>1, <2>2 DEF AgendaInv, CachesFirst
<1>11. BuildsLast'
  <2>1. \A i \in DOMAIN g : g[i].op # "build"
    BY <1>3, <1>4, <1>8 DEF Fronted
  <2> QED
    BY <2>1, <1>5 DEF BuildsLast
<1>12. LibsKnown'
  <2> SUFFICES ASSUME NEW i \in DOMAIN g, g[i].op \in Making, NEW l, l = g[i].lib
               PROVE  Known(l)'
    BY <1>5 DEF LibsKnown, Known
  <2>1. /\ i - Len(f) + 1 \in DOMAIN agenda
        /\ g[i] = agenda[i - Len(f) + 1]
    BY <1>3, <1>4 DEF Fronted, Making
  <2>2. Known(l) /\ l \in Recipes
    BY <2>1, <1>8 DEF AgendaInv, LibsKnown, CallSet
  <2> QED
    BY <2>2, <1>9
<1>13. DepsKnown'
  <2> SUFFICES ASSUME NEW q \in Recipes, NEW d, d \in Deps(q)' PROVE Known(d)'
    BY DEF DepsKnown, Known
  <2>1. CASE q = r
    <3>1. PICK i \in DOMAIN ds : d = ds[i]
      BY <2>1, <1>7 DEF Deps, ds
    <3>2. i \in DOMAIN agenda' /\ agenda'[i] = [op |-> "cache", lib |-> d]
      BY <3>1, <1>2, <1>3, <1>4, <1>5 DEF Fronted
    <3> QED
      BY <3>2 DEF Known
  <2>2. CASE q # r
    <3>1. d \in Deps(q)
      BY <2>2, <1>7 DEF Deps
    <3>2. d \in Recipes
      <4>1. meta[q] \in 0..MaxCommit /\ meta[q] # Absent
        BY <3>1, CommitAssumption DEF Deps, Absent
      <4>2. DepsAt[q][meta[q]] \in Seq(Recipes)
        BY <4>1, DepsAssumption
      <4>3. PICK i \in DOMAIN DepsAt[q][meta[q]] : d = DepsAt[q][meta[q]][i]
        BY <3>1, <4>1 DEF Deps
      <4> QED
        BY <4>2, <4>3
    <3> QED
      BY <3>1, <3>2, <1>9 DEF AgendaInv, DepsKnown
  <2> QED
    BY <2>1, <2>2
<1> QED
  BY <1>4, <1>5, <1>10, <1>11, <1>12, <1>13 DEF AgendaInv

\* The calls a run starts with: maybe removals, then start_cache, then create_circle_recipe.
LEMMA StartProperties ==
    ASSUME NEW M \in Seq(Recipes), NEW L \in Seq(Recipes)
    PROVE  LET s == Calls("purge", M) \o Calls("cache", L) \o Calls("create", L) IN
           /\ s \in Seq(CallSet)
           /\ Len(s) = Len(M) + Len(L) + Len(L)
           /\ \A i \in 1..Len(s) :
                 s[i] = IF i <= Len(M) THEN [op |-> "purge", lib |-> M[i]]
                        ELSE IF i <= Len(M) + Len(L)
                               THEN [op |-> "cache", lib |-> L[i - Len(M)]]
                        ELSE [op |-> "create", lib |-> L[i - (Len(M) + Len(L))]]
<1> DEFINE p == Calls("purge", M)
           c == Calls("cache", L)
           e == Calls("create", L)
<1>1. Len(M) \in Nat /\ Len(L) \in Nat
  OBVIOUS
<1>2. /\ p \in Seq(CallSet) /\ Len(p) = Len(M)
      /\ \A i \in 1..Len(M) : p[i] = [op |-> "purge", lib |-> M[i]]
  BY CallsProperties DEF Ops
<1>3. /\ c \in Seq(CallSet) /\ Len(c) = Len(L)
      /\ \A i \in 1..Len(L) : c[i] = [op |-> "cache", lib |-> L[i]]
  BY CallsProperties DEF Ops
<1>4. /\ e \in Seq(CallSet) /\ Len(e) = Len(L)
      /\ \A i \in 1..Len(L) : e[i] = [op |-> "create", lib |-> L[i]]
  BY CallsProperties DEF Ops
<1> HIDE DEF p, c, e
<1> DEFINE h == p \o c
<1>5. h \in Seq(CallSet) /\ Joined(h, p, c)
  BY <1>2, <1>3, JoinProperties
<1> HIDE DEF h
<1>6. Len(h) = Len(M) + Len(L)
  BY <1>2, <1>3, <1>5 DEF Joined
<1>7. \A i \in 1..(Len(M) + Len(L)) :
            h[i] = IF i <= Len(M) THEN p[i] ELSE c[i - Len(M)]
  BY <1>2, <1>3, <1>5 DEF Joined
<1>8. h \o e \in Seq(CallSet) /\ Joined(h \o e, h, e)
  BY <1>4, <1>5, JoinProperties
<1>9. \A i \in 1..(Len(h) + Len(e)) :
         (h \o e)[i] =
             IF i <= Len(M) THEN [op |-> "purge", lib |-> M[i]]
             ELSE IF i <= Len(M) + Len(L) THEN [op |-> "cache", lib |-> L[i - Len(M)]]
             ELSE [op |-> "create", lib |-> L[i - (Len(M) + Len(L))]]
  <2> SUFFICES ASSUME NEW i \in 1..(Len(h) + Len(e))
               PROVE  (h \o e)[i] =
                   IF i <= Len(M) THEN [op |-> "purge", lib |-> M[i]]
                   ELSE IF i <= Len(M) + Len(L) THEN [op |-> "cache", lib |-> L[i - Len(M)]]
                   ELSE [op |-> "create", lib |-> L[i - (Len(M) + Len(L))]]
    OBVIOUS
  <2>1. CASE i <= Len(M)
    <3>1. (h \o e)[i] = h[i] /\ h[i] = p[i] /\ i \in 1..Len(M)
      BY <2>1, <1>1, <1>4, <1>6, <1>7, <1>8 DEF Joined
    <3> QED
      BY <3>1, <2>1, <1>2
  <2>2. CASE ~(i <= Len(M)) /\ i <= Len(M) + Len(L)
    <3>1. (h \o e)[i] = h[i] /\ h[i] = c[i - Len(M)] /\ i - Len(M) \in 1..Len(L)
      BY <2>2, <1>1, <1>4, <1>6, <1>7, <1>8 DEF Joined
    <3> QED
      BY <3>1, <2>2, <1>3
  <2>3. CASE ~(i <= Len(M)) /\ ~(i <= Len(M) + Len(L))
    <3>1. /\ (h \o e)[i] = e[i - (Len(M) + Len(L))]
          /\ i - (Len(M) + Len(L)) \in 1..Len(L)
      BY <2>3, <1>1, <1>4, <1>6, <1>8 DEF Joined
    <3> QED
      BY <3>1, <2>3, <1>4
  <2> QED
    BY <2>1, <2>2, <2>3
<1> QED
  BY <1>4, <1>6, <1>8, <1>9 DEF Joined, h, p, c, e

LEMMA AgendaStarted ==
    ASSUME NEW M \in Seq(Recipes), NEW L \in Seq(Recipes),
           agenda' = Calls("purge", M) \o Calls("cache", L) \o Calls("create", L),
           meta' = [r \in Recipes |-> Absent]
    PROVE  AgendaInv' /\ agenda' \in Seq(CallSet)
<1> DEFINE s == Calls("purge", M) \o Calls("cache", L) \o Calls("create", L)
<1>1. /\ s \in Seq(CallSet)
      /\ Len(s) = Len(M) + Len(L) + Len(L)
      /\ \A i \in 1..Len(s) :
            s[i] = IF i <= Len(M) THEN [op |-> "purge", lib |-> M[i]]
                   ELSE IF i <= Len(M) + Len(L)
                          THEN [op |-> "cache", lib |-> L[i - Len(M)]]
                   ELSE [op |-> "create", lib |-> L[i - (Len(M) + Len(L))]]
  BY StartProperties
<1>2. agenda' = s
  OBVIOUS
<1> HIDE DEF s
<1>3. Len(M) \in Nat /\ Len(L) \in Nat /\ DOMAIN s = 1..Len(s)
  BY <1>1
<1>4. \A i \in DOMAIN s : s[i].op \in Making <=> i > Len(M) + Len(L)
  BY <1>1, <1>3 DEF Making
<1>5. \A i \in DOMAIN s : s[i].op # "build"
  BY <1>1, <1>3
<1>6. CachesFirst'
  <2> SUFFICES ASSUME NEW i \in DOMAIN s, NEW j \in DOMAIN s, i < j, s[i].op \in Making
               PROVE  s[j].op \in Making
    BY <1>2 DEF CachesFirst
  <2>1. i > Len(M) + Len(L)
    BY <1>4
  <2>2. j > Len(M) + Len(L)
    BY <2>1, <1>3, <1>1
  <2> QED
    BY <2>2, <1>4
<1>7. BuildsLast'
  BY <1>2, <1>5 DEF BuildsLast
<1>8. LibsKnown'
  <2> SUFFICES ASSUME NEW i \in DOMAIN s, s[i].op \in Making, NEW l, l = s[i].lib
               PROVE  Known(l)'
    BY <1>2 DEF LibsKnown, Known
  <2>1. i > Len(M) + Len(L)
    BY <1>4
  <2>2. s[i] = [op |-> "create", lib |-> L[i - (Len(M) + Len(L))]]
    BY <2>1, <1>1, <1>3
  <2>3. s[i - Len(L)] = [op |-> "cache", lib |-> L[(i - Len(L)) - Len(M)]]
    BY <2>1, <1>1, <1>3
  <2>4. i - (Len(M) + Len(L)) = (i - Len(L)) - Len(M) /\ i - Len(L) \in DOMAIN s
    BY <2>1, <1>1, <1>3
  <2>5. s[i - Len(L)] = [op |-> "cache", lib |-> l]
    BY <2>2, <2>3, <2>4
  <2> QED
    BY <2>4, <2>5, <1>2 DEF Known
<1>9. DepsKnown'
  BY DEF DepsKnown, Deps
<1> QED
  BY <1>1, <1>2, <1>6, <1>7, <1>8, <1>9 DEF AgendaInv

\* When create_circle_recipe runs, start_cache has read every recipe it will meet.
LEMMA AllKnown ==
    ASSUME AgendaInv, agenda \in Seq(CallSet), NEW r \in Recipes,
           Calling("create", r) \/ Calling("build", r)
    PROVE  /\ \A i \in DOMAIN agenda : agenda[i].op \in Making
           /\ \A d \in Recipes : Known(d) => meta[d] # Absent
           /\ meta[r] # Absent
           /\ \A q \in Recipes : \A d \in Deps(q) : d \in Recipes => meta[d] # Absent
<1>1. agenda # << >> /\ Head(agenda) = agenda[1] /\ 1 \in DOMAIN agenda
  BY TailProperties DEF Calling
<1>2. agenda[1].op \in Making /\ agenda[1].lib = r
  BY <1>1 DEF Calling, Making
<1>3. ASSUME NEW i \in DOMAIN agenda PROVE agenda[i].op \in Making
  <2>1. i = 1 \/ 1 < i
    OBVIOUS
  <2> QED
    BY <2>1, <1>1, <1>2 DEF AgendaInv, CachesFirst
<1>4. \A d \in Recipes : Known(d) => meta[d] # Absent
  BY <1>3 DEF Known, Making
<1>5. Known(r)
  BY <1>1, <1>2 DEF AgendaInv, LibsKnown
<1>6. \A q \in Recipes : \A d \in Deps(q) : Known(d)
  BY DEF AgendaInv, DepsKnown
<1> QED
  BY <1>3, <1>4, <1>5, <1>6

LEMMA DepsType ==
    ASSUME meta \in [Recipes -> -1..MaxCommit], NEW r \in Recipes
    PROVE  /\ Deps(r) \subseteq Recipes
           /\ meta[r] # Absent => /\ meta[r] \in 0..MaxCommit
                                  /\ DepsAt[r][meta[r]] \in Seq(Recipes)
                                  /\ Deps(r) = {DepsAt[r][meta[r]][i] :
                                                   i \in 1..Len(DepsAt[r][meta[r]])}
<1>1. CASE meta[r] = Absent
  BY <1>1 DEF Deps
<1>2. CASE meta[r] # Absent
  <2>1. meta[r] \in 0..MaxCommit
    BY <1>2, CommitAssumption DEF Absent
  <2>2. DepsAt[r][meta[r]] \in Seq(Recipes)
    BY <2>1, DepsAssumption
  <2>3. \A i \in DOMAIN DepsAt[r][meta[r]] : DepsAt[r][meta[r]][i] \in Recipes
    BY <2>2
  <2>4. DOMAIN DepsAt[r][meta[r]] = 1..Len(DepsAt[r][meta[r]])
    BY <2>2
  <2> QED
    BY <1>2, <2>1, <2>2, <2>3, <2>4 DEF Deps
<1> QED
  BY <1>1, <1>2

\* What every step that runs the process does to the agenda.
LEMMA AgendaRun ==
    ASSUME AgendaInv, TypeOK, NEW r \in Recipes, Run(r)
    PROVE  AgendaInv' /\ agenda' \in Seq(CallSet)
<1>1. /\ agenda \in Seq(CallSet)
      /\ meta \in [Recipes -> -1..MaxCommit]
      /\ checkout \in [Recipes -> 0..MaxCommit]
      /\ head \in [Recipes -> Commits]
  BY DEF TypeOK, CallSet
<1>2. ASSUME agenda # << >>, Return, UNCHANGED meta,
             Head(agenda).op = "cache" => meta[Head(agenda).lib] # Absent
      PROVE  AgendaInv' /\ agenda' \in Seq(CallSet)
  <2>1. AgendaInv'
    BY <1>1, <1>2, AgendaReturn
  <2>2. Tail(agenda) \in Seq(CallSet)
    BY <1>1, <1>2, TailProperties
  <2> QED
    BY <2>1, <2>2, <1>2 DEF Return
<1>3. ASSUME agenda # << >>, UNCHANGED agenda, UNCHANGED meta
      PROVE  AgendaInv' /\ agenda' \in Seq(CallSet)
  BY <1>1, <1>3 DEF AgendaInv, CachesFirst, BuildsLast, LibsKnown, DepsKnown, Known, Deps
<1>4. ASSUME Exit PROVE AgendaInv' /\ agenda' \in Seq(CallSet)
  <2>1. agenda' \in Seq(CallSet)
    BY <1>4 DEF Exit
  <2> QED
    BY <2>1, <1>4, AgendaExit
<1>5. CASE Purge(r)
  BY <1>5, <1>2 DEF Purge, Calling
<1>6. CASE CacheHit(r)
  BY <1>6, <1>2 DEF CacheHit, Calling
<1>7. CASE Cache(r)
  <2>1. Calling("cache", r) /\ agenda' = Calls("cache", DepsAt[r][meta'[r]]) \o Tail(agenda)
    BY <1>7 DEF Cache
  <2>2. PICK c \in 0..MaxCommit : meta' = [meta EXCEPT ![r] = c]
    <3>1. checkout'[r] \in 0..MaxCommit
      <4>1. checkout' = [checkout EXCEPT ![r] = head[r]] \/ checkout' = checkout
        BY <1>7 DEF Cache
      <4>2. head[r] \in 0..MaxCommit
        BY <1>1, CommitAssumption DEF Commits
      <4> QED
        BY <4>1, <4>2, <1>1
    <3>2. meta' = [meta EXCEPT ![r] = checkout'[r]]
      BY <1>7 DEF Cache
    <3> QED
      BY <3>1, <3>2
  <2>3. meta'[r] = c
    BY <2>2, <1>1
  <2> QED
    BY <2>1, <2>2, <2>3, <1>1, AgendaCache
<1>8. CASE CreateUpdated(r)
  BY <1>8, <1>2 DEF CreateUpdated, Calling
<1>9. CASE CreateStale(r)
  <2> DEFINE ds == DepsAt[r][meta[r]]
             f == Calls("create", ds) \o Calls("build", <<r>>)
  <2>1. Calling("create", r) /\ agenda' = f \o Tail(agenda) /\ UNCHANGED meta
    BY <1>9 DEF CreateStale
  <2>2. /\ meta[r] # Absent
        /\ \A q \in Recipes : \A d \in Deps(q) : d \in Recipes => meta[d] # Absent
    BY <2>1, <1>1, AllKnown
  <2>3. ds \in Seq(Recipes) /\ Deps(r) \subseteq Recipes
        /\ Deps(r) = {ds[i] : i \in 1..Len(ds)}
    BY <2>2, <1>1, DepsType
  <2> HIDE DEF ds
  <2>4. /\ f \in Seq(CallSet)
        /\ Len(f) = Len(ds) + 1
        /\ \A i \in 1..Len(ds) : f[i] = [op |-> "create", lib |-> ds[i]]
        /\ f[Len(ds) + 1] = [op |-> "build", lib |-> r]
    BY <2>3, StaleProperties
  <2> HIDE DEF f
  <2>5. \A i \in 1..Len(ds) : meta[ds[i]] # Absent
    BY <2>2, <2>3
  <2>6. \A i \in DOMAIN f : f[i].op \in Making /\ meta[f[i].lib] # Absent
    <3>1. DOMAIN f = 1..(Len(ds) + 1) /\ Len(ds) \in Nat
      BY <2>3, <2>4
    <3> SUFFICES ASSUME NEW i \in DOMAIN f
                 PROVE  f[i].op \in Making /\ meta[f[i].lib] # Absent
      OBVIOUS
    <3>2. i \in 1..Len(ds) \/ i = Len(ds) + 1
      BY <3>1
    <3>3. CASE i \in 1..Len(ds)
      <4>1. f[i] = [op |-> "create", lib |-> ds[i]] /\ meta[ds[i]] # Absent
        BY <3>3, <2>4, <2>5
      <4> QED
        BY <4>1 DEF Making
    <3>4. CASE i = Len(ds) + 1
      BY <3>4, <2>2, <2>4 DEF Making
    <3> QED
      BY <3>2, <3>3, <3>4
  <2>7. agenda # << >> /\ Head(agenda).op = "create"
    BY <2>1 DEF Calling
  <2>8. AgendaInv'
    BY <2>1, <2>4, <2>6, <2>7, <1>1, AgendaFront DEF Making
  <2>9. agenda' \in Seq(CallSet)
    BY <2>1, <2>4, <2>7, <1>1, FrontProperties
  <2> QED
    BY <2>8, <2>9
<1>10. CASE RecursionError(r)
  BY <1>10, <1>4 DEF RecursionError
<1>11. CASE BuildRemove(r)
  BY <1>11, <1>3 DEF BuildRemove, Calling
<1>12. CASE Upload(r)
  BY <1>12, <1>2 DEF Upload, Calling
<1>13. ASSUME NEW t \in BuildTypes, BuildSucceeds(r, t)
       PROVE  AgendaInv' /\ agenda' \in Seq(CallSet)
  <2>1. agenda # << >> /\ Head(agenda).op # "cache" /\ UNCHANGED meta
    BY <1>13 DEF BuildSucceeds, Calling
  <2>2. Return \/ UNCHANGED agenda
    BY <1>13 DEF BuildSucceeds, AfterBuild
  <2> QED
    BY <2>1, <2>2, <1>2, <1>3
<1>14. ASSUME NEW t \in BuildTypes, BuildFails(r, t)
       PROVE  AgendaInv' /\ agenda' \in Seq(CallSet)
  BY <1>14, <1>4 DEF BuildFails
<1>15. CASE CollectLoops(r)
  BY <1>15, <1>3 DEF CollectLoops, Loops, Calling, vars, process
<1> QED
  BY <1>5, <1>6, <1>7, <1>8, <1>9, <1>10, <1>11, <1>12, <1>13, <1>14, <1>15 DEF Run

\* What a process that starts has to do: maybe a purge, start_cache, then the builds.
LEMMA StartAgenda ==
    ASSUME Start
    PROVE  /\ meta' = [r \in Recipes |-> Absent]
           /\ \E M, L \in Seq(Recipes) :
                 agenda' = Calls("purge", M) \o Calls("cache", L) \o Calls("create", L)
<1>1. << >> \in Seq(Recipes) /\ Calls("purge", << >>) = << >>
  BY DEF Calls
<1>2. ASSUME NEW L \in Seq(Recipes)
      PROVE  Calls("purge", << >>) \o Calls("cache", L) = Calls("cache", L)
  <2>1. Calls("cache", L) \in Seq(CallSet)
    BY CallsProperties DEF Ops
  <2> QED
    BY <1>1, <2>1, ConcatEmptySeq
<1>3. ASSUME NEW up, CreateCircle(up)
      PROVE  \E M, L \in Seq(Recipes) :
                 agenda' = Calls("purge", M) \o Calls("cache", L) \o Calls("create", L)
  <2>1. Roots \in Seq(Recipes)
    BY DepsAssumption
  <2>2. agenda' = Calls("purge", << >>) \o Calls("cache", Roots) \o Calls("create", Roots)
    BY <1>2, <1>3, <2>1 DEF CreateCircle, Started
  <2> QED
    BY <1>1, <2>1, <2>2
<1>4. ASSUME NEW r \in Requested, NEW up, NEW remove \in BOOLEAN, CreateOne(r, up, remove)
      PROVE  \E M, L \in Seq(Recipes) :
                 agenda' = Calls("purge", M) \o Calls("cache", L) \o Calls("create", L)
  <2>1. <<r>> \in Seq(Recipes)
    BY DepsAssumption
  <2>2. CASE remove
    BY <2>1, <2>2, <1>4 DEF CreateOne, Started
  <2>3. CASE ~remove
    <3>1. agenda' = Calls("purge", << >>) \o Calls("cache", <<r>>) \o Calls("create", <<r>>)
      BY <1>1, <2>3, <1>4 DEF CreateOne, Started
    <3> QED
      BY <1>1, <2>1, <3>1
  <2> QED
    BY <2>2, <2>3
<1>5. meta' = [r \in Recipes |-> Absent]
  BY DEF Start, CreateCircle, CreateOne, Started
<1> QED
  BY <1>3, <1>4, <1>5 DEF Start

LEMMA AgendaStep == AgendaInv /\ TypeOK /\ [Next]_vars => AgendaInv' /\ agenda' \in Seq(CallSet)
<1> SUFFICES ASSUME AgendaInv, TypeOK, [Next]_vars
             PROVE  AgendaInv' /\ agenda' \in Seq(CallSet)
  OBVIOUS
<1>1. agenda \in Seq(CallSet)
  BY DEF TypeOK, CallSet
<1>2. ASSUME UNCHANGED agenda, UNCHANGED meta
      PROVE  AgendaInv' /\ agenda' \in Seq(CallSet)
  BY <1>1, <1>2 DEF AgendaInv, CachesFirst, BuildsLast, LibsKnown, DepsKnown, Known, Deps
<1>3. ASSUME NEW r \in Recipes, Run(r) PROVE AgendaInv' /\ agenda' \in Seq(CallSet)
  BY <1>3, AgendaRun
<1>4. CASE Start
  BY <1>4, StartAgenda, AgendaStarted
<1>5. ASSUME NEW r \in Recipes, Push(r) PROVE AgendaInv' /\ agenda' \in Seq(CallSet)
  BY <1>5, <1>2 DEF Push, process
<1>6. ASSUME Crash PROVE AgendaInv' /\ agenda' \in Seq(CallSet)
  <2>1. agenda' \in Seq(CallSet)
    BY <1>6 DEF Crash, Exit
  <2> QED
    BY <2>1, <1>6, AgendaExit DEF Crash
<1>7. CASE UNCHANGED vars
  BY <1>7, <1>2 DEF vars, process
<1> QED
  BY <1>3, <1>4, <1>5, <1>6, <1>7 DEF Next

-----------------------------------------------------------------------------
(* Types.                                                                  *)

LocalType ==
    /\ exported \in [Recipes -> -1..MaxCommit]
    /\ src \in [Recipes -> 0..MaxCommit]
    /\ bin \in [Recipes -> [BuildTypes -> 0..MaxCommit]]

RemoteType ==
    /\ remoteRecipe \in [Recipes -> -1..MaxCommit]
    /\ remoteBin \in [Recipes -> [BuildTypes -> 0..MaxCommit]]

\* What an obtained package is and the source of a build are commits.
LEMMA HelperTypes ==
    ASSUME TypeOK, NEW d \in Recipes, NEW t \in BuildTypes
    PROVE  /\ RecipeOf(d) \in -1..MaxCommit
           /\ SourceOf(d) \in 1..MaxCommit
           /\ BinaryOf(d, t) \in 1..MaxCommit
           /\ SourceKept(d) \in 0..MaxCommit
           /\ SourceCloned(d) \in 1..MaxCommit
<1>1. /\ exported[d] \in -1..MaxCommit /\ remoteRecipe[d] \in -1..MaxCommit
      /\ src[d] \in 0..MaxCommit /\ head[d] \in 1..MaxCommit
      /\ bin[d][t] \in 0..MaxCommit /\ remoteBin[d][t] \in 0..MaxCommit
  BY DEF TypeOK, Commits
<1>2. RecipeOf(d) \in -1..MaxCommit
  BY <1>1 DEF RecipeOf
<1>3. SourceOf(d) \in 1..MaxCommit
  BY <1>1, CommitAssumption DEF SourceOf, NoBinary
<1>4. BinaryOf(d, t) \in 1..MaxCommit
  BY <1>1, <1>3, CommitAssumption DEF BinaryOf, RemoteHas, NoBinary
<1>5. SourceKept(d) \in 0..MaxCommit
  BY <1>1, CommitAssumption DEF SourceKept, NoBinary
<1>6. SourceCloned(d) \in 1..MaxCommit
  BY <1>1, <1>5, CommitAssumption DEF SourceCloned, NoBinary
<1> QED
  BY <1>2, <1>3, <1>4, <1>5, <1>6

LEMMA RemovePackageType ==
    ASSUME TypeOK, NEW r \in Recipes, RemovePackage(r)
    PROVE  LocalType' /\ faults' \in 0..MaxFaults
<1>1. LocalType /\ faults \in 0..MaxFaults
  BY DEF TypeOK, LocalType
<1>2. faults' \in 0..MaxFaults
  BY <1>1, BoundsAssumption DEF RemovePackage, Fault, NoFault
<1>3. CASE Removed(r)
  BY <1>1, <1>2, <1>3, CommitAssumption DEF Removed, LocalType, Absent, NoBinary
<1>4. CASE UNCHANGED local
  BY <1>1, <1>2, <1>4 DEF local, LocalType
<1> QED
  BY <1>2, <1>3, <1>4 DEF RemovePackage

LEMMA ConanCreateType ==
    ASSUME TypeOK, NEW r \in Recipes, NEW t \in BuildTypes, NEW got \in SUBSET Recipes,
           NEW source \in 0..MaxCommit, NEW binary \in 0..MaxCommit,
           ConanCreate(r, t, got, source, binary)
    PROVE  LocalType'
<1>1. /\ meta \in [Recipes -> -1..MaxCommit]
      /\ exported \in [Recipes -> -1..MaxCommit]
      /\ src \in [Recipes -> 0..MaxCommit]
      /\ bin \in [Recipes -> [BuildTypes -> 0..MaxCommit]]
  BY DEF TypeOK
<1>2. \A d \in Recipes : RecipeOf(d) \in -1..MaxCommit /\ SourceOf(d) \in 0..MaxCommit
  <2>1. "Debug" \in BuildTypes /\ 1..MaxCommit \subseteq 0..MaxCommit
    BY CommitAssumption DEF BuildTypes
  <2> QED
    BY <2>1, HelperTypes
<1>3. \A d \in Recipes : [u \in BuildTypes |-> BinaryOf(d, u)] \in [BuildTypes -> 0..MaxCommit]
  <2>1. 1..MaxCommit \subseteq 0..MaxCommit
    BY CommitAssumption
  <2>2. \A d \in Recipes, u \in BuildTypes : BinaryOf(d, u) \in 0..MaxCommit
    BY <2>1, HelperTypes
  <2> QED
    BY <2>2
<1>4. exported' \in [Recipes -> -1..MaxCommit]
  BY <1>1, <1>2 DEF ConanCreate
<1>5. src' \in [Recipes -> 0..MaxCommit]
  BY <1>1, <1>2 DEF ConanCreate
<1>6. [bin[r] EXCEPT ![t] = binary] \in [BuildTypes -> 0..MaxCommit]
  BY <1>1
<1>7. bin' \in [Recipes -> [BuildTypes -> 0..MaxCommit]]
  BY <1>1, <1>3, <1>6 DEF ConanCreate
<1> QED
  BY <1>4, <1>5, <1>7 DEF LocalType

LEMMA InspectType ==
    ASSUME TypeOK, NEW r \in Recipes, Inspect(r)
    PROVE  LocalType'
<1>1. LocalType /\ RecipeOf(r) \in -1..MaxCommit
  BY HelperTypes DEF TypeOK, LocalType, BuildTypes
<1> QED
  BY <1>1 DEF Inspect, LocalType

LEMMA RequiresType == \A r \in Recipes : Requires(r) \subseteq Recipes
  BY DEF Requires

\* Every variable but agenda, which AgendaStep is about.
OtherTypes ==
    /\ head \in [Recipes -> Commits]
    /\ checkout \in [Recipes -> 0..MaxCommit]
    /\ LocalType
    /\ RemoteType
    /\ stage \in {"remove", "Debug", "Release", "upload"}
    /\ meta \in [Recipes -> -1..MaxCommit]
    /\ upload \in BOOLEAN
    /\ misread \subseteq Recipes
    /\ faults \in 0..MaxFaults

LEMMA TypeParts ==
    /\ TypeOK => OtherTypes /\ agenda \in Seq(CallSet)
    /\ OtherTypes /\ agenda \in Seq(CallSet) => TypeOK
<1>1. TypeOK => OtherTypes /\ agenda \in Seq(CallSet)
  BY DEF TypeOK, OtherTypes, LocalType, RemoteType, CallSet
<1>2. OtherTypes /\ agenda \in Seq(CallSet) => TypeOK
  BY DEF TypeOK, OtherTypes, LocalType, RemoteType, CallSet
<1> QED
  BY <1>1, <1>2

LEMMA ExitType == Exit => /\ stage' \in {"remove", "Debug", "Release", "upload"}
                          /\ meta' \in [Recipes -> -1..MaxCommit]
                          /\ upload' \in BOOLEAN
                          /\ misread' \subseteq Recipes
<1>1. Absent \in -1..MaxCommit
  BY CommitAssumption DEF Absent
<1>2. [r \in Recipes |-> Absent] \in [Recipes -> -1..MaxCommit]
  BY <1>1
<1> QED
  BY <1>2 DEF Exit

LEMMA FaultType ==
    ASSUME NEW kind, faults \in 0..MaxFaults, Fault(kind) \/ NoFault
    PROVE  faults' \in 0..MaxFaults
  BY BoundsAssumption DEF Fault, NoFault

LEMMA SeenType ==
    ASSUME NEW r \in Recipes, faults \in 0..MaxFaults, misread \subseteq Recipes
    PROVE  /\ SeenUpdated(r) \/ SeenStale(r) => faults' \in 0..MaxFaults
           /\ MarkMisread(r) => misread' \subseteq Recipes
<1>1. SeenUpdated(r) => faults' \in 0..MaxFaults
  BY FaultType DEF SeenUpdated
<1>2. SeenStale(r) => faults' \in 0..MaxFaults
  BY FaultType DEF SeenStale
<1>3. MarkMisread(r) => misread' \subseteq Recipes
  BY DEF MarkMisread
<1> QED
  BY <1>1, <1>2, <1>3

LEMMA TypeRun ==
    ASSUME TypeOK, AgendaInv, NEW r \in Recipes, Run(r)
    PROVE  OtherTypes'
<1> USE DEF OtherTypes
<1>1. OtherTypes /\ agenda \in Seq(CallSet)
  BY TypeParts
<1>2. LocalType /\ UNCHANGED local => LocalType'
  BY DEF LocalType, local
<1>3. RemoteType /\ UNCHANGED remote => RemoteType'
  BY DEF RemoteType, remote
<1>4. CASE Purge(r)
  <2>1. LocalType' /\ faults' \in 0..MaxFaults
    BY <1>4, RemovePackageType DEF Purge
  <2> QED
    BY <1>1, <1>3, <1>4, <2>1 DEF Purge
<1>5. CASE CacheHit(r)
  BY <1>1, <1>2, <1>3, <1>5 DEF CacheHit
<1>6. CASE Cache(r)
  <2>1. head[r] \in 0..MaxCommit
    BY <1>1, CommitAssumption DEF Commits
  <2>2. checkout' \in [Recipes -> 0..MaxCommit]
    BY <1>1, <1>6, <2>1 DEF Cache
  <2>3. checkout'[r] \in -1..MaxCommit
    BY <2>2, CommitAssumption
  <2>4. meta' \in [Recipes -> -1..MaxCommit]
    <3>1. meta' = [meta EXCEPT ![r] = checkout'[r]]
      BY <1>6 DEF Cache
    <3> QED
      BY <3>1, <2>3, <1>1
  <2>5. faults' \in 0..MaxFaults
    BY <1>1, <1>6, FaultType DEF Cache
  <2> QED
    BY <1>1, <1>2, <1>3, <1>6, <2>2, <2>4, <2>5 DEF Cache
<1>7. CASE CreateUpdated(r)
  <2>1. LocalType'
    BY <1>7, InspectType DEF CreateUpdated
  <2> QED
    BY <1>1, <1>3, <1>7, <2>1, SeenType DEF CreateUpdated
<1>8. CASE CreateStale(r)
  <2>1. LocalType'
    BY <1>8, InspectType DEF CreateStale
  <2> QED
    BY <1>1, <1>3, <1>8, <2>1, SeenType DEF CreateStale
<1>9. CASE RecursionError(r)
  BY <1>1, <1>2, <1>3, <1>9, SeenType, ExitType DEF RecursionError
<1>10. CASE BuildRemove(r)
  <2>1. LocalType' /\ faults' \in 0..MaxFaults
    BY <1>10, RemovePackageType DEF BuildRemove
  <2> QED
    BY <1>1, <1>3, <1>10, <2>1 DEF BuildRemove
<1>11. CASE Upload(r)
  <2>1. exported[r] \in -1..MaxCommit /\ \A t \in BuildTypes :
           bin[r][t] \in 0..MaxCommit /\ remoteBin[r][t] \in 0..MaxCommit
    BY <1>1 DEF LocalType, RemoteType
  <2>2. ASSUME NEW types, Uploaded(r, types) PROVE RemoteType'
    <3>1. [t \in BuildTypes |-> IF t \in types THEN bin[r][t]
             ELSE IF remoteRecipe[r] = exported[r] THEN remoteBin[r][t] ELSE NoBinary]
                \in [BuildTypes -> 0..MaxCommit]
      BY <2>1, CommitAssumption DEF NoBinary
    <3> QED
      BY <1>1, <2>1, <2>2, <3>1 DEF Uploaded, RemoteType
  <2>3. RemoteType'
    BY <1>1, <1>3, <1>11, <2>2 DEF Upload
  <2>4. faults' \in 0..MaxFaults
    BY <1>1, <1>11, FaultType DEF Upload
  <2> QED
    BY <1>1, <1>2, <1>11, <2>3, <2>4 DEF Upload
<1>12. ASSUME NEW t \in BuildTypes, BuildSucceeds(r, t) PROVE OtherTypes'
  <2>1. SourceCloned(r) \in 0..MaxCommit
    BY HelperTypes, CommitAssumption
  <2>2. LocalType'
    BY <1>12, <2>1, ConanCreateType, RequiresType DEF BuildSucceeds
  <2>3. stage' \in {"remove", "Debug", "Release", "upload"}
    BY <1>12 DEF BuildSucceeds, AfterBuild
  <2> QED
    BY <1>1, <1>3, <1>12, <2>2, <2>3 DEF BuildSucceeds
<1>13. ASSUME NEW t \in BuildTypes, BuildFails(r, t) PROVE OtherTypes'
  <2>1. /\ SourceCloned(r) \in 0..MaxCommit /\ SourceKept(r) \in 0..MaxCommit
        /\ bin[r][t] \in 0..MaxCommit /\ NoBinary \in 0..MaxCommit
    BY <1>1, HelperTypes, CommitAssumption DEF LocalType, NoBinary
  <2>2. \A got \in SUBSET {d \in Requires(r) : Obtainable(d)} : got \in SUBSET Recipes
    BY RequiresType
  <2>3. LocalType'
    <3>1. CASE ConanCreate(r, t, {}, SourceKept(r), bin[r][t])
      BY <3>1, <2>1, ConanCreateType
    <3>2. ASSUME NEW got \in SUBSET {d \in Requires(r) : Obtainable(d)},
                 ConanCreate(r, t, got, SourceCloned(r), NoBinary)
          PROVE  LocalType'
      BY <3>2, <2>1, <2>2, ConanCreateType
    <3> QED
      BY <3>1, <3>2, <1>13 DEF BuildFails
  <2>4. faults' \in 0..MaxFaults
    BY <1>1, <1>13, FaultType DEF BuildFails
  <2> QED
    BY <1>1, <1>3, <1>13, <2>3, <2>4, ExitType DEF BuildFails
<1>14. CASE CollectLoops(r)
  BY <1>1, <1>2, <1>3, <1>14 DEF CollectLoops, vars, process
<1> QED
  BY <1>4, <1>5, <1>6, <1>7, <1>8, <1>9, <1>10, <1>11, <1>12, <1>13, <1>14 DEF Run

LEMMA TypeStep == TypeOK /\ AgendaInv /\ [Next]_vars => TypeOK'
<1> SUFFICES ASSUME TypeOK, AgendaInv, [Next]_vars PROVE TypeOK'
  OBVIOUS
<1> USE DEF OtherTypes
<1>1. OtherTypes
  BY TypeParts
<1>2. LocalType /\ UNCHANGED local => LocalType'
  BY DEF LocalType, local
<1>3. RemoteType /\ UNCHANGED remote => RemoteType'
  BY DEF RemoteType, remote
<1>4. agenda' \in Seq(CallSet)
  BY AgendaStep
<1>5. ASSUME NEW calls, NEW up \in BOOLEAN, Started(calls, up) PROVE OtherTypes'
  <2>1. meta' \in [Recipes -> -1..MaxCommit]
    BY <1>5, CommitAssumption DEF Started, Absent
  <2> QED
    BY <1>1, <1>2, <1>3, <1>5, <2>1 DEF Started
<1>6. ASSUME Start PROVE OtherTypes'
  BY <1>5, <1>6 DEF Start, CreateCircle, CreateOne
<1>7. ASSUME NEW r \in Recipes, Push(r) PROVE OtherTypes'
  <2>1. head' \in [Recipes -> Commits]
    BY <1>1, <1>7, CommitAssumption DEF Push, Commits
  <2> QED
    BY <1>1, <1>2, <1>3, <1>7, <2>1 DEF Push, process
<1>8. CASE Crash
  <2>1. faults' \in 0..MaxFaults
    BY <1>1, <1>8, FaultType DEF Crash
  <2>2. OtherTypes'
    BY <1>1, <1>2, <1>3, <1>8, <2>1, ExitType DEF Crash
  <2> QED
    BY <2>2, <1>4 DEF TypeOK, LocalType, RemoteType, CallSet
<1>9. CASE UNCHANGED vars
  BY <1>9 DEF vars, local, remote, process, TypeOK
<1>10. ASSUME NEW r \in Recipes, Run(r) PROVE OtherTypes'
  BY <1>10, TypeRun
<1>11. OtherTypes' => TypeOK'
  BY <1>4 DEF TypeOK, LocalType, RemoteType, CallSet
<1> QED
  BY <1>6, <1>7, <1>8, <1>9, <1>10, <1>11 DEF Next

LEMMA TypeInit == Init => TypeOK
<1> SUFFICES ASSUME Init PROVE TypeOK
  OBVIOUS
<1>1. /\ 1 \in Commits /\ 1 \in -1..MaxCommit /\ 1 \in 0..MaxCommit /\ 0 \in 0..MaxCommit
      /\ -1 \in -1..MaxCommit /\ 0 \in 0..MaxFaults
  BY CommitAssumption, BoundsAssumption DEF Commits
<1>2. RemoteType
  BY <1>1 DEF Init, RemoteType, Absent, NoBinary
<1>3. LocalType
  BY <1>1 DEF Init, LocalType, Absent, NoBinary
<1>4. head \in [Recipes -> Commits] /\ checkout \in [Recipes -> 0..MaxCommit]
  BY <1>1 DEF Init, NoCommit
<1>5. meta \in [Recipes -> -1..MaxCommit] /\ agenda \in Seq(CallSet)
  BY <1>1 DEF Init, Absent
<1>6. OtherTypes
  BY <1>1, <1>2, <1>3, <1>4, <1>5 DEF Init, OtherTypes
<1> QED
  BY <1>5, <1>6, TypeParts

\* The types, for any graph and any failures.  A recipe's commit is read from the caches of
\* the process, so this needs AgendaInv: start_cache has read every recipe that
\* create_circle_recipe meets, and the lookup conan_metas[...] finds it.
THEOREM TypeCorrect == Spec => []TypeOK
<1>1. Init => AgendaInv /\ TypeOK
  BY AgendaInit, TypeInit
<1>2. AgendaInv /\ TypeOK /\ [Next]_vars => AgendaInv' /\ TypeOK'
  BY AgendaStep, TypeStep
<1> QED
  BY <1>1, <1>2, PTL DEF Spec

-----------------------------------------------------------------------------
(* What the steps do to the local cache.                                   *)

LEMMA Values ==
    ASSUME TypeOK, NEW d \in Recipes
    PROVE  /\ head[d] \in Int /\ head[d] >= 1 /\ checkout[d] \in Int /\ checkout[d] >= 0
           /\ exported[d] \in Int /\ exported[d] >= -1
           /\ meta[d] \in Int /\ meta[d] >= -1 /\ src[d] \in Int /\ src[d] >= 0
           /\ remoteRecipe[d] \in Int /\ remoteRecipe[d] >= -1
           /\ \A t \in BuildTypes : /\ bin[d][t] \in Int /\ bin[d][t] >= 0
                                    /\ remoteBin[d][t] \in Int /\ remoteBin[d][t] >= 0
<1>1. head[d] \in 1..MaxCommit /\ checkout[d] \in 0..MaxCommit
  BY DEF TypeOK, Commits
<1>2. exported[d] \in -1..MaxCommit /\ meta[d] \in -1..MaxCommit /\ src[d] \in 0..MaxCommit
  BY DEF TypeOK
<1>3. remoteRecipe[d] \in -1..MaxCommit
  BY DEF TypeOK
<1>4. \A t \in BuildTypes : bin[d][t] \in 0..MaxCommit /\ remoteBin[d][t] \in 0..MaxCommit
  BY DEF TypeOK
<1> QED
  BY <1>1, <1>2, <1>3, <1>4, CommitAssumption

\* The package d is as it was, or has only got binaries it did not have.
Kept(d) ==
    /\ exported'[d] = exported[d]
    /\ \A t \in BuildTypes : bin[d][t] # NoBinary => bin'[d][t] # NoBinary

\* conan remove takes the package away as a whole, and no other.
LEMMA RemoveEffect ==
    ASSUME TypeOK, LocalInv, NEW r \in Recipes, RemovePackage(r)
    PROVE  /\ LocalInv'
           /\ \A d \in Recipes : exported'[d] \in {exported[d], Absent}
           /\ \A d \in Recipes \ {r} : Kept(d)
           /\ \A d \in Recipes, t \in BuildTypes : bin'[d][t] \in {bin[d][t], NoBinary}
           /\ RemovesWork => exported'[r] = Absent
<1>1. /\ exported \in [Recipes -> -1..MaxCommit]
      /\ src \in [Recipes -> 0..MaxCommit]
      /\ bin \in [Recipes -> [BuildTypes -> 0..MaxCommit]]
  BY DEF TypeOK
<1>2. CASE Removed(r)
  <2>1. /\ exported'[r] = Absent /\ src'[r] = NoBinary
        /\ \A t \in BuildTypes : bin'[r][t] = NoBinary
    BY <1>1, <1>2 DEF Removed
  <2>2. \A d \in Recipes : d # r =>
           exported'[d] = exported[d] /\ src'[d] = src[d] /\ bin'[d] = bin[d]
    BY <1>1, <1>2 DEF Removed
  <2> QED
    BY <2>1, <2>2 DEF LocalInv, Kept
<1>3. CASE UNCHANGED local
  <2>1. exported' = exported /\ src' = src /\ bin' = bin
    BY <1>3 DEF local
  <2>2. RemovesWork => exported[r] = Absent \/ Removed(r)
    BY DEF RemovePackage, Fault, RemovesWork
  <2>3. RemovesWork => exported'[r] = Absent
    BY <2>1, <2>2, <1>2
  <2> QED
    BY <2>1, <2>3 DEF LocalInv, Kept
<1> QED
  BY <1>2, <1>3 DEF RemovePackage

\* conan inspect at most brings a recipe that was not there.
LEMMA InspectEffect ==
    ASSUME TypeOK, LocalInv, NEW r \in Recipes, Inspect(r)
    PROVE  /\ LocalInv'
           /\ \A d \in Recipes : Kept(d) \/ exported[d] = Absent
           /\ \A d \in Recipes : exported'[d] \in {exported[d], RecipeOf(d)}
           /\ bin' = bin
<1>1. exported \in [Recipes -> -1..MaxCommit]
  BY DEF TypeOK
<1>2. src' = src /\ bin' = bin
  BY DEF Inspect
<1>3. \A d \in Recipes : exported'[d] = exported[d] \/ (d = r /\ exported'[d] = RecipeOf(d))
  BY <1>1 DEF Inspect
<1>4. \A d \in Recipes : exported[d] # Absent => exported'[d] = exported[d]
  BY <1>3 DEF RecipeOf
<1>5. LocalInv'
  <2> SUFFICES ASSUME NEW d \in Recipes
               PROVE  /\ exported'[d] = Absent =>
                            src'[d] = NoBinary /\ \A t \in BuildTypes : bin'[d][t] = NoBinary
                      /\ src'[d] # NoBinary => exported'[d] <= src'[d]
    BY DEF LocalInv
  <2>1. CASE exported[d] = Absent
    BY <2>1, <1>2 DEF LocalInv
  <2>2. CASE exported[d] # Absent
    BY <2>2, <1>2, <1>4 DEF LocalInv
  <2> QED
    BY <2>1, <2>2
<1> QED
  BY <1>2, <1>3, <1>4, <1>5 DEF Kept

\* conan create builds from a source not older than the commit it records.
LEMMA SourceEffect ==
    ASSUME TypeOK, CommitInv, LocalInv, NEW r \in Recipes
    PROVE  /\ SourceCloned(r) # NoBinary /\ meta[r] <= SourceCloned(r)
           /\ SourceKept(r) # NoBinary => meta[r] <= SourceKept(r)
           /\ SourceCloned(r) \in Int
<1>1. SourceKept(r) # NoBinary => SourceKept(r) = src[r] /\ exported[r] = meta[r]
  BY DEF SourceKept
<1>2. SourceKept(r) # NoBinary => meta[r] <= SourceKept(r)
  BY <1>1 DEF LocalInv
<1>3. head[r] # NoBinary /\ meta[r] <= head[r] /\ head[r] \in Int /\ src[r] \in Int
  BY Values DEF CommitInv, NoBinary
<1> QED
  BY <1>1, <1>2, <1>3 DEF SourceCloned

\* What conan create does to the package it makes and to those it obtains.
LEMMA CreateEffect ==
    ASSUME TypeOK, CommitInv, LocalInv, RemoteNotNewer,
           NEW r \in Recipes, meta[r] # Absent, NEW t \in BuildTypes,
           NEW got \in SUBSET {d \in Recipes : Obtainable(d)},
           NEW source, source # NoBinary => meta[r] <= source, NEW binary,
           ConanCreate(r, t, got, source, binary)
    PROVE  /\ LocalInv'
           /\ \A d \in Recipes : exported'[d] <= head[d]
           /\ exported'[r] = meta[r]
           /\ bin'[r][t] = binary /\ \A u \in BuildTypes : u # t => bin'[r][u] = bin[r][u]
           /\ \A d \in Recipes \ {r} :
                 /\ exported[d] # Absent => Kept(d)
                 /\ (\A u \in BuildTypes : bin[d][u] # NoBinary => exported[d] <= bin[d][u])
                       => \A u \in BuildTypes : bin'[d][u] # NoBinary => exported'[d] <= bin'[d][u]
           /\ \A d \in got \ {r} : \A u \in BuildTypes : bin'[d][u] # NoBinary
<1>1. /\ exported'[r] = meta[r] /\ src'[r] = source
      /\ bin'[r] = [bin[r] EXCEPT ![t] = binary]
  BY DEF ConanCreate
<1>2. bin[r] \in [BuildTypes -> 0..MaxCommit]
  BY DEF TypeOK
<1>3. bin'[r][t] = binary /\ \A u \in BuildTypes : u # t => bin'[r][u] = bin[r][u]
  BY <1>1, <1>2
<1>4. \A d \in Recipes \ {r} :
         d \notin got => exported'[d] = exported[d] /\ src'[d] = src[d] /\ bin'[d] = bin[d]
  BY DEF ConanCreate
<1>5. \A d \in got \ {r} :
         /\ d \in Recipes /\ Obtainable(d)
         /\ exported'[d] = RecipeOf(d)
         /\ src'[d] \in {src[d], SourceOf(d)}
         /\ \A u \in BuildTypes : bin'[d][u] = BinaryOf(d, u)
  BY DEF ConanCreate
<1>6. \A d \in Recipes : RecipeOf(d) <= head[d]
  BY DEF CommitInv, RecipeOf
<1>7. \A d \in Recipes : exported'[d] <= head[d]
  <2> SUFFICES ASSUME NEW d \in Recipes PROVE exported'[d] <= head[d]
    OBVIOUS
  <2>1. CASE d = r
    BY <2>1, <1>1 DEF CommitInv
  <2>2. CASE d # r /\ d \in got
    BY <2>2, <1>5, <1>6
  <2>3. CASE d # r /\ d \notin got
    BY <2>3, <1>4 DEF CommitInv
  <2> QED
    BY <2>1, <2>2, <2>3
<1>8. ASSUME NEW d \in Recipes, NEW u \in BuildTypes
      PROVE  BinaryOf(d, u) # NoBinary /\ SourceOf(d) # NoBinary
  <2>1. BinaryOf(d, u) \in 1..MaxCommit /\ SourceOf(d) \in 1..MaxCommit
    BY HelperTypes
  <2> QED
    BY <2>1, CommitAssumption DEF NoBinary
<1>9. ASSUME NEW d \in Recipes, d # r
      PROVE  /\ exported'[d] = Absent =>
                   src'[d] = NoBinary /\ \A u \in BuildTypes : bin'[d][u] = NoBinary
             /\ src'[d] # NoBinary => exported'[d] <= src'[d]
  <2>1. CASE d \notin got
    BY <2>1, <1>4, <1>9 DEF LocalInv
  <2>2. CASE d \in got
    <3>1. exported'[d] = RecipeOf(d) /\ RecipeOf(d) # Absent /\ RecipeOf(d) <= head[d]
      BY <2>2, <1>5, <1>6, <1>9 DEF Obtainable
    <3>2. src[d] # NoBinary => RecipeOf(d) <= src[d]
      BY DEF LocalInv, RecipeOf
    <3>3. RecipeOf(d) <= SourceOf(d)
      BY <3>1, <3>2 DEF SourceOf
    <3>4. src'[d] \in {src[d], SourceOf(d)}
      BY <2>2, <1>5, <1>9
    <3> QED
      BY <3>1, <3>2, <3>3, <3>4
  <2> QED
    BY <2>1, <2>2
<1>10. LocalInv'
  BY <1>1, <1>9 DEF LocalInv
<1>11. ASSUME NEW d \in Recipes \ {r}, exported[d] # Absent PROVE Kept(d)
  <2>1. CASE d \notin got
    BY <2>1, <1>4 DEF Kept
  <2>2. CASE d \in got
    BY <2>2, <1>5, <1>8, <1>11 DEF Kept, RecipeOf
  <2> QED
    BY <2>1, <2>2
<1>12. ASSUME NEW d \in Recipes \ {r}, NEW u \in BuildTypes,
              bin[d][u] # NoBinary => exported[d] <= bin[d][u]
       PROVE  bin'[d][u] # NoBinary => exported'[d] <= bin'[d][u]
  <2>1. CASE d \notin got
    BY <2>1, <1>4, <1>12
  <2>2. CASE d \in got
    <3>1. exported'[d] = RecipeOf(d) /\ bin'[d][u] = BinaryOf(d, u)
      BY <2>2, <1>5
    <3>2. bin[d][u] # NoBinary => RecipeOf(d) = exported[d]
      BY DEF LocalInv, RecipeOf
    <3>3. RemoteHas(d, u) => RecipeOf(d) <= remoteBin[d][u]
      BY DEF RemoteHas, RemoteNotNewer
    <3>4. RecipeOf(d) <= SourceOf(d)
      BY <1>6 DEF LocalInv, RecipeOf, SourceOf
    <3>5. RecipeOf(d) <= BinaryOf(d, u)
      BY <3>2, <3>3, <3>4, <1>12 DEF BinaryOf
    <3> QED
      BY <3>1, <3>5
  <2> QED
    BY <2>1, <2>2
<1>13. \A d \in got \ {r} : \A u \in BuildTypes : bin'[d][u] # NoBinary
  BY <1>5, <1>8
<1> QED
  BY <1>1, <1>3, <1>7, <1>10, <1>11, <1>12, <1>13

-----------------------------------------------------------------------------
(* Commits, the local cache, the remote and the running build.             *)

DataInv == CommitInv /\ LocalInv /\ RemoteNotNewer /\ StageInv

\* No build is running: the process is elsewhere.
LEMMA StageReset == stage' = "remove" => StageInv'
  BY DEF StageInv

\* A call other than a build leaves stage at "remove".
LEMMA StageElsewhere ==
    ASSUME StageInv, NEW op, op # "build", NEW r \in Recipes, Calling(op, r)
    PROVE  stage = "remove"
  BY DEF StageInv, Calling

LEMMA CommitUnchanged ==
    ASSUME CommitInv, UNCHANGED <<head, checkout, meta, remoteRecipe>>,
           \A d \in Recipes : exported'[d] <= head[d]
    PROVE  CommitInv'
  BY DEF CommitInv

LEMMA DataRun ==
    ASSUME TypeOK, AgendaInv, DataInv, NEW r \in Recipes, Run(r)
    PROVE  DataInv'
<1>1. CommitInv /\ LocalInv /\ RemoteNotNewer /\ StageInv
  BY DEF DataInv
<1>2. UNCHANGED local => LocalInv' /\ \A d \in Recipes : exported'[d] <= head[d]
  BY <1>1 DEF local, LocalInv, CommitInv
<1>3. UNCHANGED remote => RemoteNotNewer' /\ UNCHANGED remoteRecipe
  BY <1>1 DEF remote, RemoteNotNewer
<1>4. \A d \in Recipes : RecipeOf(d) <= head[d] /\ -1 <= head[d]
  BY <1>1, Values DEF RecipeOf, CommitInv
<1>5. CASE Purge(r)
  <2>1. stage = "remove"
    BY <1>1, <1>5, StageElsewhere DEF Purge
  <2>2. LocalInv' /\ \A d \in Recipes : exported'[d] \in {exported[d], Absent}
    BY <1>1, <1>5, RemoveEffect DEF Purge
  <2>3. \A d \in Recipes : exported'[d] <= head[d]
    BY <2>2, <1>1, <1>4 DEF CommitInv, Absent
  <2> QED
    BY <1>1, <1>3, <1>5, <2>1, <2>2, <2>3, CommitUnchanged, StageReset DEF Purge, DataInv
<1>6. CASE CacheHit(r)
  <2>1. stage = "remove"
    BY <1>1, <1>6, StageElsewhere DEF CacheHit
  <2> QED
    BY <1>1, <1>2, <1>3, <1>6, <2>1, CommitUnchanged, StageReset DEF CacheHit, DataInv
<1>7. CASE Cache(r)
  <2>1. stage = "remove"
    BY <1>1, <1>7, StageElsewhere DEF Cache
  <2>2. checkout \in [Recipes -> 0..MaxCommit] /\ meta \in [Recipes -> -1..MaxCommit]
    BY DEF TypeOK
  <2>3. head[r] <= head[r]
    BY Values
  <2>4. \A d \in Recipes : checkout'[d] <= head[d]
    <3>1. checkout' = [checkout EXCEPT ![r] = head[r]] \/ checkout' = checkout
      BY <1>7 DEF Cache
    <3> QED
      BY <3>1, <2>2, <2>3, <1>1 DEF CommitInv
  <2>5. meta' = [meta EXCEPT ![r] = checkout'[r]]
    BY <1>7 DEF Cache
  <2>6. \A d \in Recipes : meta'[d] <= head[d]
    BY <2>2, <2>4, <2>5, <1>1 DEF CommitInv
  <2>7. CommitInv'
    BY <2>4, <2>6, <1>1, <1>2, <1>3, <1>7 DEF Cache, CommitInv
  <2> QED
    BY <1>2, <1>3, <1>7, <2>1, <2>7, StageReset DEF Cache, DataInv
<1>8. CASE CreateUpdated(r) \/ CreateStale(r)
  <2>1. stage = "remove"
    BY <1>1, <1>8, StageElsewhere DEF CreateUpdated, CreateStale
  <2>2. Inspect(r)
    BY <1>8 DEF CreateUpdated, CreateStale
  <2>3. LocalInv' /\ \A d \in Recipes : exported'[d] \in {exported[d], RecipeOf(d)}
    BY <1>1, <2>2, InspectEffect
  <2>4. \A d \in Recipes : exported'[d] <= head[d]
    BY <2>3, <1>1, <1>4 DEF CommitInv
  <2> QED
    BY <1>1, <1>3, <1>8, <2>1, <2>3, <2>4, CommitUnchanged, StageReset
    DEF CreateUpdated, CreateStale, DataInv
<1>9. ASSUME Exit, UNCHANGED <<head, checkout, remote>>, LocalInv',
             \A d \in Recipes : exported'[d] <= head[d]
      PROVE  DataInv'
  <2>1. \A d \in Recipes : meta'[d] <= head[d]
    BY <1>4, <1>9 DEF Exit, Absent
  <2>2. CommitInv'
    BY <1>1, <1>3, <1>9, <2>1 DEF CommitInv
  <2> QED
    BY <1>3, <1>9, <2>2, StageReset DEF Exit, DataInv
<1>10. CASE RecursionError(r)
  BY <1>2, <1>9, <1>10 DEF RecursionError
<1>11. CASE BuildRemove(r)
  <2>1. LocalInv' /\ \A d \in Recipes : exported'[d] \in {exported[d], Absent}
    BY <1>1, <1>11, RemoveEffect DEF BuildRemove
  <2>2. \A d \in Recipes : exported'[d] <= head[d]
    BY <2>1, <1>1, <1>4 DEF CommitInv, Absent
  <2>3. StageInv'
    BY <1>11 DEF BuildRemove, StageInv, Calling
  <2> QED
    BY <1>1, <1>3, <1>11, <2>1, <2>2, <2>3, CommitUnchanged DEF BuildRemove, DataInv
<1>12. CASE Upload(r)
  <2>1. exported[r] = meta[r] /\ \A t \in BuildTypes : Made(r, t)
    BY <1>1, <1>12 DEF Upload, StageInv, BuildTypes
  <2>2. /\ remoteRecipe \in [Recipes -> -1..MaxCommit]
        /\ remoteBin \in [Recipes -> [BuildTypes -> 0..MaxCommit]]
    BY DEF TypeOK
  <2>3. ASSUME NEW types, Uploaded(r, types)
        PROVE  RemoteNotNewer' /\ \A d \in Recipes : remoteRecipe'[d] <= head[d]
    <3>1. \A d \in Recipes : d # r =>
             remoteRecipe'[d] = remoteRecipe[d] /\ remoteBin'[d] = remoteBin[d]
      BY <2>2, <2>3 DEF Uploaded
    <3>2. remoteRecipe'[r] = exported[r]
      BY <2>2, <2>3 DEF Uploaded
    <3>3. \A t \in BuildTypes : remoteBin'[r][t] =
             IF t \in types THEN bin[r][t]
             ELSE IF remoteRecipe[r] = exported[r] THEN remoteBin[r][t] ELSE NoBinary
      BY <2>2, <2>3 DEF Uploaded
    <3>4. \A t \in BuildTypes :
             remoteBin'[r][t] # NoBinary => remoteRecipe'[r] <= remoteBin'[r][t]
      BY <3>2, <3>3, <2>1, <1>1 DEF Made, RemoteNotNewer
    <3>5. RemoteNotNewer'
      BY <3>1, <3>4, <1>1 DEF RemoteNotNewer
    <3> QED
      BY <3>1, <3>2, <3>5, <1>1 DEF CommitInv
  <2>4. RemoteNotNewer' /\ \A d \in Recipes : remoteRecipe'[d] <= head[d]
    <3>1. CASE UNCHANGED remote
      BY <3>1, <1>1, <1>3 DEF CommitInv
    <3> QED
      BY <3>1, <2>3, <1>12 DEF Upload
  <2>5. CommitInv'
    BY <2>4, <1>1, <1>2, <1>12 DEF Upload, CommitInv
  <2> QED
    BY <1>2, <1>12, <2>4, <2>5, StageReset DEF Upload, DataInv
<1>13. ASSUME NEW t \in BuildTypes, BuildSucceeds(r, t) PROVE DataInv'
  <2>1. meta[r] # Absent
    BY <1>13, AllKnown DEF BuildSucceeds, TypeOK, CallSet
  <2>2. Requires(r) \in SUBSET {d \in Recipes : Obtainable(d)}
    BY <1>13, RequiresType DEF BuildSucceeds
  <2>3. ConanCreate(r, t, Requires(r), SourceCloned(r), SourceCloned(r))
    BY <1>13 DEF BuildSucceeds
  <2>4. SourceCloned(r) # NoBinary /\ meta[r] <= SourceCloned(r)
    BY <1>1, SourceEffect
  <2>5. /\ LocalInv'
        /\ \A d \in Recipes : exported'[d] <= head[d]
        /\ exported'[r] = meta[r]
        /\ bin'[r][t] = SourceCloned(r)
        /\ \A u \in BuildTypes : u # t => bin'[r][u] = bin[r][u]
    <3>1. meta[r] <= SourceCloned(r)
      BY <2>4
    <3> DEFINE got == Requires(r)
               source == SourceCloned(r)
    <3>2. got \in SUBSET {d \in Recipes : Obtainable(d)} /\ meta[r] <= source
          /\ ConanCreate(r, t, got, source, source)
      BY <2>2, <2>3, <3>1
    <3> HIDE DEF got, source
    <3>3. LocalInv'
      BY <1>1, <2>1, <3>2, CreateEffect
    <3>4. \A d \in Recipes : exported'[d] <= head[d]
      BY <1>1, <2>1, <3>2, CreateEffect
    <3>5. exported'[r] = meta[r]
      BY <1>1, <2>1, <3>2, CreateEffect
    <3>6. bin'[r][t] = source
      BY <3>2 DEF ConanCreate, TypeOK
    <3>7. \A u \in BuildTypes : u # t => bin'[r][u] = bin[r][u]
      BY <1>1, <2>1, <3>2, CreateEffect
    <3> QED
      BY <3>3, <3>4, <3>5, <3>6, <3>7 DEF source
  <2>6. bin'[r][t] # NoBinary /\ exported'[r] <= bin'[r][t]
    BY <2>4, <2>5
  <2>7. stage = t /\ Calling("build", r) /\ UNCHANGED meta
    BY <1>13 DEF BuildSucceeds
  <2>8. StageInv'
    <3>1. CASE stage' = "remove"
      BY <3>1, StageReset
    <3>2. CASE t = "Debug" /\ stage' = "Release" /\ UNCHANGED agenda
      BY <3>2, <2>5, <2>6, <2>7 DEF StageInv, Calling, Made
    <3>3. CASE t = "Release" /\ stage' = "upload" /\ UNCHANGED agenda
      <4>1. exported[r] = meta[r] /\ Made(r, "Debug")
        BY <3>3, <2>7, <1>1 DEF StageInv
      <4>2. bin'[r]["Debug"] = bin[r]["Debug"]
        BY <3>3, <2>5 DEF BuildTypes
      <4>3. /\ bin'[r]["Debug"] # NoBinary /\ exported'[r] <= bin'[r]["Debug"]
            /\ bin'[r]["Release"] # NoBinary /\ exported'[r] <= bin'[r]["Release"]
            /\ exported'[r] = meta'[r]
        BY <3>3, <4>1, <4>2, <2>5, <2>6, <2>7 DEF Made
      <4> QED
        BY <3>3, <4>3, <2>7 DEF StageInv, Calling, Made
    <3> QED
      BY <3>1, <3>2, <3>3, <1>13 DEF BuildSucceeds, AfterBuild, BuildTypes
  <2> QED
    BY <1>1, <1>3, <1>13, <2>5, <2>8, CommitUnchanged DEF BuildSucceeds, DataInv
<1>14. ASSUME NEW t \in BuildTypes, BuildFails(r, t) PROVE DataInv'
  <2>1. meta[r] # Absent
    BY <1>14, AllKnown DEF BuildFails, TypeOK, CallSet
  <2>2. LocalInv' /\ \A d \in Recipes : exported'[d] <= head[d]
    <3>1. CASE ConanCreate(r, t, {}, SourceKept(r), bin[r][t])
      <4>1. {} \in SUBSET {d \in Recipes : Obtainable(d)}
        OBVIOUS
      <4> QED
        BY <1>1, <2>1, <3>1, <4>1, SourceEffect, CreateEffect
    <3>2. ASSUME NEW got \in SUBSET {d \in Requires(r) : Obtainable(d)},
                 ConanCreate(r, t, got, SourceCloned(r), NoBinary)
          PROVE  LocalInv' /\ \A d \in Recipes : exported'[d] <= head[d]
      <4>1. got \in SUBSET {d \in Recipes : Obtainable(d)}
        BY RequiresType
      <4> QED
        BY <1>1, <2>1, <3>2, <4>1, SourceEffect, CreateEffect
    <3> QED
      BY <3>1, <3>2, <1>14 DEF BuildFails
  <2> QED
    BY <1>9, <1>14, <2>2 DEF BuildFails
<1>15. CASE CollectLoops(r)
  <2>1. StageInv'
    BY <1>1, <1>15 DEF CollectLoops, vars, process, local, StageInv, Calling, Made
  <2> QED
    BY <1>1, <1>2, <1>3, <1>15, <2>1, CommitUnchanged DEF CollectLoops, vars, process, DataInv
<1> QED
  BY <1>5, <1>6, <1>7, <1>8, <1>10, <1>11, <1>12, <1>13, <1>14, <1>15 DEF Run

LEMMA DataStep == TypeOK /\ AgendaInv /\ DataInv /\ [Next]_vars => DataInv'
<1> SUFFICES ASSUME TypeOK, AgendaInv, DataInv, [Next]_vars PROVE DataInv'
  OBVIOUS
<1>1. CommitInv /\ LocalInv /\ RemoteNotNewer /\ StageInv
  BY DEF DataInv
<1>2. UNCHANGED local => LocalInv'
  BY <1>1 DEF local, LocalInv
<1>3. UNCHANGED remote => RemoteNotNewer'
  BY <1>1 DEF remote, RemoteNotNewer
<1>4. ASSUME UNCHANGED <<head, checkout, local, remote>>,
             meta' = meta \/ meta' = [r \in Recipes |-> Absent]
      PROVE  CommitInv'
  <2>1. \A d \in Recipes : Absent <= head[d]
    BY Values DEF Absent
  <2> QED
    BY <1>1, <1>4, <2>1 DEF CommitInv, local, remote
<1>5. ASSUME NEW r \in Recipes, Run(r) PROVE DataInv'
  BY <1>5, DataRun
<1>6. ASSUME NEW calls, NEW up, Started(calls, up) PROVE DataInv'
  <2>1. stage = "remove"
    BY <1>1, <1>6 DEF Started, StageInv
  <2> QED
    BY <1>2, <1>3, <1>4, <1>6, <2>1, StageReset DEF Started, DataInv
<1>7. CASE Start
  BY <1>6, <1>7 DEF Start, CreateCircle, CreateOne
<1>8. ASSUME NEW r \in Recipes, Push(r) PROVE DataInv'
  <2>1. head \in [Recipes -> Commits]
    BY DEF TypeOK
  <2>2. \A d \in Recipes : head'[d] \in Int /\ head[d] \in Int /\ head[d] <= head'[d]
    BY <1>8, <2>1, CommitAssumption DEF Push, Commits
  <2>3. CommitInv'
    BY <1>1, <1>8, <2>2, Values DEF Push, CommitInv, local, remote, process
  <2>4. StageInv'
    BY <1>1, <1>8 DEF Push, StageInv, Calling, Made, process, local
  <2> QED
    BY <1>2, <1>3, <1>8, <2>3, <2>4 DEF Push, DataInv
<1>9. CASE Crash
  BY <1>2, <1>3, <1>4, <1>9, StageReset DEF Crash, Exit, DataInv
<1>10. CASE UNCHANGED vars
  <2>1. StageInv'
    BY <1>1, <1>10 DEF vars, process, local, StageInv, Calling, Made
  <2> QED
    BY <1>2, <1>3, <1>4, <1>10, <2>1 DEF vars, process, DataInv
<1> QED
  BY <1>5, <1>7, <1>8, <1>9, <1>10 DEF Next

LEMMA DataInit == Init => DataInv
<1> SUFFICES ASSUME Init PROVE DataInv
  OBVIOUS
<1>1. CommitInv
  BY DEF Init, CommitInv, Absent, NoCommit
<1>2. LocalInv
  BY DEF Init, LocalInv
<1>3. RemoteNotNewer
  BY DEF Init, RemoteNotNewer, NoBinary
<1>4. StageInv
  BY DEF Init, StageInv
<1> QED
  BY <1>1, <1>2, <1>3, <1>4 DEF DataInv

DoneInv == TypeOK /\ AgendaInv /\ DataInv

LEMMA DoneInvariant == Spec => []DoneInv
<1>1. Init => DoneInv
  BY TypeInit, AgendaInit, DataInit DEF DoneInv
<1>2. DoneInv /\ [Next]_vars => DoneInv'
  BY TypeStep, AgendaStep, DataStep DEF DoneInv
<1> QED
  BY <1>1, <1>2, PTL DEF Spec

\* No binary on the remote is older than the commit its recipe names, whatever the graph,
\* whatever fails and wherever the process is killed: the recipe that is uploaded names
\* the commit this run read (create_circle_recipe), which its sources cannot be older than.
THEOREM RemoteNeverNewer == Spec => []RemoteNotNewer
<1>1. DoneInv => RemoteNotNewer
  BY DEF DoneInv, DataInv
<1> QED
  BY <1>1, DoneInvariant, PTL

LEMMA PublishesBuilt ==
    ASSUME DoneInv, [Next]_vars, NEW r \in Recipes, remoteRecipe'[r] # remoteRecipe[r]
    PROVE  \A t \in BuildTypes : bin[r][t] # NoBinary /\ bin[r][t] >= remoteRecipe'[r]
<1>1. TypeOK /\ StageInv /\ remoteRecipe \in [Recipes -> -1..MaxCommit]
  BY DEF DoneInv, DataInv, TypeOK
<1>2. ASSUME NEW q \in Recipes, Run(q), ~Upload(q) PROVE UNCHANGED remoteRecipe
  BY <1>2 DEF Run, Purge, CacheHit, Cache, CreateUpdated, CreateStale, RecursionError,
              CollectLoops, BuildRemove, BuildSucceeds, BuildFails, vars, remote
<1>3. Start \/ Crash \/ (\E q \in Recipes : Push(q)) \/ UNCHANGED vars => UNCHANGED remoteRecipe
  BY DEF Start, CreateCircle, CreateOne, Started, Crash, Push, remote, vars
<1>4. PICK q \in Recipes : Upload(q)
  BY <1>2, <1>3 DEF Next
<1>5. q = r /\ remoteRecipe'[r] = exported[r]
  BY <1>1, <1>4 DEF Upload, Uploaded, remote
<1>6. exported[r] = meta[r] /\ \A t \in BuildTypes : Made(r, t)
  BY <1>1, <1>4, <1>5 DEF Upload, StageInv, BuildTypes
<1>7. \A t \in BuildTypes : bin[r][t] \in Int /\ exported[r] \in Int
  BY <1>1, Values
<1> QED
  BY <1>5, <1>6, <1>7 DEF Made

\* A recipe reaches the remote only after both conan creates of create_conan_2 succeeded in
\* the same run: executor.run exits the process when one of them fails.
THEOREM PublishedWasBuilt == Spec => PublishesOnlyBuilt
<1> DEFINE A == \A r \in Recipes :
                  remoteRecipe'[r] # remoteRecipe[r] =>
                      \A t \in BuildTypes : bin[r][t] # NoBinary /\ bin[r][t] >= remoteRecipe'[r]
<1>1. DoneInv /\ [Next]_vars => A
  BY PublishesBuilt
<1>2. DoneInv /\ [Next]_vars => [A]_vars
  BY <1>1
<1> QED
  BY <1>2, DoneInvariant, PTL DEF Spec, PublishesOnlyBuilt

-----------------------------------------------------------------------------
(* Dependencies first.                                                     *)

LEMMA RequiresProperties ==
    ASSUME TypeOK, NEW r \in Recipes
    PROVE  /\ Deps(r) \subseteq Requires(r)
           /\ Requires(r) \subseteq Recipes
           /\ ~ReachesCycle(r) => r \notin Requires(r)
           /\ UNCHANGED meta => Requires(r)' = Requires(r) /\ Deps(r)' = Deps(r)
           /\ UNCHANGED meta => (ReachesCycle(r)' <=> ReachesCycle(r))
<1>1. Deps(r) \subseteq Recipes
  BY DepsType DEF TypeOK
<1>2. Deps(r) \subseteq Requires(r) /\ Requires(r) \subseteq Recipes
  BY <1>1 DEF Requires
<1>3. ~ReachesCycle(r) => r \notin Requires(r)
  BY DEF ReachesCycle
<1>4. UNCHANGED meta => \A d : Deps(d)' = Deps(d)
  BY DEF Deps
<1>5. UNCHANGED meta => \A d : Requires(d)' = Requires(d)
  BY <1>4 DEF Requires
<1>6. UNCHANGED meta => (ReachesCycle(r)' <=> ReachesCycle(r))
  BY <1>5 DEF ReachesCycle
<1> QED
  BY <1>2, <1>3, <1>4, <1>5, <1>6

\* A package that was settled stays so while others are made.
LEMMA SettledKept ==
    ASSUME LocalInv, UNCHANGED meta, NEW d \in Recipes, Settled(d),
           Kept(d) \/ exported[d] = Absent
    PROVE  Settled(d)'
<1>1. CASE d \in Pinned
  BY <1>1 DEF Settled
<1>2. CASE HasBinary(d)
  <2>1. PICK t \in BuildTypes : bin[d][t] # NoBinary
    BY <1>2 DEF HasBinary
  <2>2. Kept(d)
    BY <2>1 DEF LocalInv
  <2>3. HasBinary(d)'
    BY <2>1, <2>2 DEF HasBinary, Kept
  <2>4. exported'[d] = exported[d]
    BY <2>2 DEF Kept
  <2> QED
    BY <2>3, <2>4 DEF Settled, UpToDate
<1> QED
  BY <1>1, <1>2 DEF Settled, UpToDate

LEMMA CallTypes ==
    ASSUME NEW s \in Seq(CallSet)
    PROVE  \A i \in DOMAIN s : /\ i \in Int /\ (i = 1 \/ 1 < i)
                              /\ s[i] \in CallSet /\ s[i].lib \in Recipes
<1>1. \A c \in CallSet : c.lib \in Recipes
  BY DEF CallSet
<1>2. \A i \in DOMAIN s : i \in 1..Len(s) /\ s[i] \in CallSet
  OBVIOUS
<1> QED
  BY <1>1, <1>2

\* start_cache puts no build on the agenda.
LEMMA CacheNoBuild ==
    ASSUME TypeOK, TypeOK', NEW r \in Recipes, Cache(r),
           \A i \in DOMAIN agenda : agenda[i].op # "build"
    PROVE  \A i \in DOMAIN agenda' : agenda'[i].op # "build"
<1> DEFINE ds == DepsAt[r][meta'[r]]
           f == Calls("cache", ds)
<1>1. agenda # << >> /\ agenda' = f \o Tail(agenda) /\ agenda \in Seq(CallSet)
  BY DEF Cache, Calling, TypeOK, CallSet
<1>2. ds \in Seq(Recipes)
  <2>1. checkout'[r] \in 0..MaxCommit /\ meta' = [meta EXCEPT ![r] = checkout'[r]]
    BY DEF TypeOK, Cache
  <2>2. meta'[r] = checkout'[r]
    BY <2>1 DEF TypeOK
  <2> QED
    BY <2>1, <2>2, DepsAssumption
<1>3. /\ f \in Seq(CallSet) /\ Len(f) = Len(ds)
      /\ \A i \in 1..Len(ds) : f[i] = [op |-> "cache", lib |-> ds[i]]
  <2>1. "cache" \in Ops
    BY DEF Ops
  <2> QED
    BY <1>2, <2>1, CallsProperties
<1> HIDE DEF f, ds
<1>4. ASSUME NEW i \in 1..Len(ds) PROVE f[i].op # "build"
  <2>1. f[i] = [op |-> "cache", lib |-> ds[i]]
    BY <1>3
  <2> QED
    BY <2>1
<1>5. Fronted(agenda', f, agenda)
  BY <1>1, <1>3, FrontProperties
<1> QED
  BY <1>3, <1>4, <1>5 DEF Fronted

\* Nor does a process that starts.
LEMMA StartNoBuild ==
    ASSUME Start
    PROVE  \A i \in DOMAIN agenda' : agenda'[i].op # "build"
<1>1. PICK M \in Seq(Recipes), L \in Seq(Recipes) :
          agenda' = Calls("purge", M) \o Calls("cache", L) \o Calls("create", L)
  BY StartAgenda
<1> DEFINE s == Calls("purge", M) \o Calls("cache", L) \o Calls("create", L)
<1>2. /\ s \in Seq(CallSet)
      /\ Len(s) = Len(M) + Len(L) + Len(L)
      /\ \A i \in 1..Len(s) :
            s[i] = IF i <= Len(M) THEN [op |-> "purge", lib |-> M[i]]
                   ELSE IF i <= Len(M) + Len(L)
                          THEN [op |-> "cache", lib |-> L[i - Len(M)]]
                   ELSE [op |-> "create", lib |-> L[i - (Len(M) + Len(L))]]
  BY StartProperties
<1>3. agenda' = s
  BY <1>1
<1> HIDE DEF s
<1>4. \A i \in DOMAIN s : s[i].op # "build"
  BY <1>2
<1> QED
  BY <1>3, <1>4

LEMMA OrderNoBuild ==
    ASSUME \A i \in DOMAIN agenda' : agenda'[i].op # "build"
    PROVE  OrderInv'
<1>1. \A r : [op |-> "build", lib |-> r].op = "build"
  OBVIOUS
<1> QED
  BY <1>1 DEF OrderInv

\* The build of r goes on: if something is undone by it, then r, which is still at work.
LEMMA OrderSame ==
    ASSUME OrderInv, TypeOK, UNCHANGED agenda, UNCHANGED meta, NEW r \in Recipes,
           Calling("build", r), ~ReachesCycle(r) \/ Settled(r)',
           \A d \in Recipes \ {r} : Settled(d) => Settled(d)'
    PROVE  OrderInv'
<1>1. /\ agenda # << >> /\ agenda[1] = [op |-> "build", lib |-> r] /\ 1 \in DOMAIN agenda
      /\ \A i \in DOMAIN agenda : agenda[i].lib \in Recipes /\ (i = 1 \/ 1 < i)
  <2>1. agenda # << >> /\ agenda \in Seq(CallSet)
    BY DEF Calling, TypeOK, CallSet
  <2>2. agenda[1] = [op |-> "build", lib |-> r] /\ 1 \in DOMAIN agenda
    BY <2>1, TailProperties DEF Calling
  <2> QED
    BY <2>1, <2>2, CallTypes
<1> SUFFICES ASSUME NEW i \in DOMAIN agenda, NEW q \in Recipes,
                      agenda[i] = [op |-> "build", lib |-> q], NEW d \in Deps(q)
               PROVE  \/ Settled(d)'
                      \/ \E j \in DOMAIN agenda :
                            j < i /\ agenda[j].op \in Making /\ agenda[j].lib = d
  <2>1. \A q \in Recipes : Deps(q)' = Deps(q)
    BY RequiresProperties
  <2> QED
    BY <2>1 DEF OrderInv
<1>3. d \in Recipes
  BY DepsType DEF TypeOK
<1>4. CASE d = r
  <2>1. CASE i = 1
    <3>1. r \in Requires(r)
      BY <2>1, <1>1, <1>4, RequiresProperties
    <3> QED
      BY <3>1, <1>4, RequiresProperties
  <2>2. CASE 1 < i
    BY <2>2, <1>1, <1>4 DEF Making
  <2> QED
    BY <2>1, <2>2, <1>1
<1>5. CASE d # r
  BY <1>3, <1>5 DEF OrderInv
<1> QED
  BY <1>4, <1>5

\* The first call is done: what it was about is settled.
LEMMA OrderReturn ==
    ASSUME OrderInv, TypeOK, agenda # << >>, Return, UNCHANGED meta, NEW r \in Recipes,
           Head(agenda).lib = r, Settled(r)',
           \A d \in Recipes \ {r} : Settled(d) => Settled(d)'
    PROVE  OrderInv'
<1>1. /\ Head(agenda) = agenda[1]
      /\ \A i \in DOMAIN agenda' : i + 1 \in DOMAIN agenda /\ agenda'[i] = agenda[i + 1]
      /\ \A j \in DOMAIN agenda :
            j # 1 => j - 1 \in DOMAIN agenda' /\ agenda'[j - 1] = agenda[j]
  BY TailProperties DEF Return, TypeOK
<1>2. /\ \A i \in DOMAIN agenda : i \in Int /\ agenda[i].lib \in Recipes
      /\ \A i \in DOMAIN agenda' : i \in Int
  <2>1. agenda \in Seq(CallSet) /\ agenda' \in Seq(CallSet)
    BY TailProperties DEF TypeOK, CallSet, Return
  <2> QED
    BY <2>1, CallTypes
<1> SUFFICES ASSUME NEW i \in DOMAIN agenda', NEW q \in Recipes,
                      agenda'[i] = [op |-> "build", lib |-> q], NEW d \in Deps(q)
               PROVE  \/ Settled(d)'
                      \/ \E j \in DOMAIN agenda' :
                            j < i /\ agenda'[j].op \in Making /\ agenda'[j].lib = d
  <2>1. \A q \in Recipes : Deps(q)' = Deps(q)
    BY RequiresProperties
  <2> QED
    BY <2>1 DEF OrderInv
<1>4. d \in Recipes
  BY DepsType DEF TypeOK
<1>5. CASE d = r
  BY <1>5
<1>6. CASE d # r /\ Settled(d)
  BY <1>4, <1>6
<1>7. CASE d # r /\ ~Settled(d)
  <2>1. PICK j \in DOMAIN agenda : j < i + 1 /\ agenda[j].op \in Making /\ agenda[j].lib = d
    BY <1>1, <1>7 DEF OrderInv
  <2>2. j # 1
    BY <2>1, <1>1, <1>7
  <2>3. j - 1 \in DOMAIN agenda' /\ agenda'[j - 1] = agenda[j] /\ j - 1 < i
    BY <2>1, <2>2, <1>1, <1>2
  <2> QED
    BY <2>1, <2>3
<1> QED
  BY <1>5, <1>6, <1>7

\* A recipe found stale is replaced by its build_deps and, after them, its build.
LEMMA OrderStale ==
    ASSUME OrderInv, DoneInv, NEW r \in Recipes, CreateStale(r)
    PROVE  OrderInv'
<1> DEFINE ds == DepsAt[r][meta[r]]
           f == Calls("create", ds) \o Calls("build", <<r>>)
<1>1. /\ TypeOK /\ AgendaInv /\ LocalInv /\ agenda \in Seq(CallSet)
      /\ meta \in [Recipes -> -1..MaxCommit]
  BY DEF DoneInv, DataInv, TypeOK, CallSet
<1>2. /\ agenda # << >> /\ Head(agenda) = [op |-> "create", lib |-> r]
      /\ agenda' = f \o Tail(agenda) /\ UNCHANGED meta /\ Inspect(r)
  BY DEF CreateStale, Calling
<1>3. meta[r] # Absent
  BY <1>1, AllKnown DEF CreateStale
<1>4. ds \in Seq(Recipes) /\ Deps(r) = {ds[i] : i \in 1..Len(ds)}
  BY <1>1, <1>3, DepsType
<1> HIDE DEF ds
<1>5. /\ f \in Seq(CallSet)
      /\ Len(f) = Len(ds) + 1
      /\ \A i \in 1..Len(ds) : f[i] = [op |-> "create", lib |-> ds[i]]
      /\ f[Len(ds) + 1] = [op |-> "build", lib |-> r]
  BY <1>4, StaleProperties
<1> HIDE DEF f
<1>6. /\ \A i \in 1..Len(ds) : f[i].op = "create" /\ f[i].lib = ds[i]
      /\ f[Len(ds) + 1].op = "build" /\ f[Len(ds) + 1].lib = r
  <2>1. ASSUME NEW i \in 1..Len(ds) PROVE f[i].op = "create" /\ f[i].lib = ds[i]
    <3>1. f[i] = [op |-> "create", lib |-> ds[i]]
      BY <1>5
    <3> QED
      BY <3>1
  <2>2. f[Len(ds) + 1].op = "build" /\ f[Len(ds) + 1].lib = r
    BY <1>5
  <2> QED
    BY <2>1, <2>2
<1>7. Fronted(agenda', f, agenda)
  BY <1>1, <1>2, <1>5, FrontProperties
<1>8. agenda[1] = [op |-> "create", lib |-> r] /\ Len(ds) \in Nat /\ DOMAIN f = 1..(Len(ds) + 1)
  BY <1>1, <1>2, <1>4, <1>5, TailProperties
<1>9. \A d \in Recipes : Settled(d) => Settled(d)'
  BY <1>1, <1>2, InspectEffect, SettledKept
<1> SUFFICES ASSUME NEW i \in DOMAIN agenda', NEW q \in Recipes,
                    agenda'[i] = [op |-> "build", lib |-> q], NEW d \in Deps(q)
             PROVE  \/ Settled(d)'
                    \/ \E j \in DOMAIN agenda' :
                          j < i /\ agenda'[j].op \in Making /\ agenda'[j].lib = d
  <2>1. \A p \in Recipes : Deps(p)' = Deps(p)
    BY <1>1, <1>2, RequiresProperties
  <2> QED
    BY <2>1 DEF OrderInv
<1>10. d \in Recipes
  BY <1>1, DepsType
<1>11. CASE i \in DOMAIN f /\ agenda'[i] = f[i]
  <2>1. i = Len(ds) + 1 /\ q = r
    <3>1. f[i].op = "build" /\ f[i].lib = q
      BY <1>11
    <3>2. i \notin 1..Len(ds)
      BY <3>1, <1>6
    <3>3. i = Len(ds) + 1
      BY <3>2, <1>8, <1>11
    <3>4. f[Len(ds) + 1].lib = q
      BY <3>1, <3>3
    <3>5. f[Len(ds) + 1].lib = r
      BY <1>6
    <3> QED
      BY <3>3, <3>4, <3>5
  <2>2. PICK j \in 1..Len(ds) : d = ds[j]
    BY <2>1, <1>4
  <2>3. j \in DOMAIN f /\ j < i
    BY <2>1, <2>2, <1>8
  <2>4. j \in DOMAIN agenda' /\ agenda'[j] = f[j]
    BY <2>3, <1>7 DEF Fronted
  <2> QED
    BY <2>2, <2>3, <2>4, <1>6 DEF Making
<1>12. CASE /\ i > Len(f)
            /\ i - Len(f) + 1 \in DOMAIN agenda
            /\ agenda'[i] = agenda[i - Len(f) + 1]
  <2> DEFINE k == i - Len(f) + 1
  <2>1. k \in DOMAIN agenda /\ agenda[k] = [op |-> "build", lib |-> q]
    BY <1>12
  <2>2. CASE Settled(d)
    BY <2>2, <1>9, <1>10
  <2>3. ASSUME NEW j \in DOMAIN agenda, j < k, agenda[j].op \in Making, agenda[j].lib = d
        PROVE  \E j2 \in DOMAIN agenda' :
                  j2 < i /\ agenda'[j2].op \in Making /\ agenda'[j2].lib = d
    <3>1. CASE j = 1
      <4>1. Len(ds) + 1 \in DOMAIN f
        BY <1>8
      <4>2. Len(ds) + 1 \in DOMAIN agenda' /\ agenda'[Len(ds) + 1] = f[Len(ds) + 1]
        BY <4>1, <1>7 DEF Fronted
      <4>3. Len(ds) + 1 < i /\ d = r
        BY <3>1, <2>3, <1>5, <1>8, <1>12
      <4>4. f[Len(ds) + 1].op = "build" /\ f[Len(ds) + 1].lib = r
        BY <1>6
      <4>5. agenda'[Len(ds) + 1].op \in Making /\ agenda'[Len(ds) + 1].lib = d
        BY <4>2, <4>3, <4>4 DEF Making
      <4> QED
        BY <4>2, <4>3, <4>5
    <3>2. CASE j # 1
      <4>1. /\ Len(f) + j - 1 \in DOMAIN agenda'
            /\ agenda'[Len(f) + j - 1] = agenda[j]
        BY <3>2, <1>7 DEF Fronted
      <4>2. Len(f) + j - 1 < i
        BY <2>3, <1>7 DEF Fronted
      <4> QED
        BY <4>1, <4>2, <2>3
    <3> QED
      BY <3>1, <3>2
  <2> QED
    BY <2>1, <2>2, <2>3 DEF OrderInv
<1> QED
  BY <1>7, <1>11, <1>12 DEF Fronted

LEMMA OrderRun ==
    ASSUME OrderInv, DoneInv, ObtainedInv, NEW r \in Recipes, Run(r)
    PROVE  OrderInv'
<1>1. /\ TypeOK /\ AgendaInv /\ CommitInv /\ LocalInv /\ RemoteNotNewer /\ StageInv
      /\ agenda \in Seq(CallSet)
  BY DEF DoneInv, DataInv, TypeOK, CallSet
<1>2. ASSUME NEW op \in {"purge", "cache"}, Calling(op, r)
      PROVE  \A i \in DOMAIN agenda : agenda[i].op # "build"
  <2>1. agenda[1] = [op |-> op, lib |-> r] /\ 1 \in DOMAIN agenda
    BY <1>1, <1>2, TailProperties DEF Calling
  <2> QED
    BY <2>1, <1>1 DEF AgendaInv, BuildsLast, Making
<1>3. ASSUME NEW op \in {"purge", "cache"}, Calling(op, r), Return PROVE OrderInv'
  <2>1. \A i \in DOMAIN agenda' : i + 1 \in DOMAIN agenda /\ agenda'[i] = agenda[i + 1]
    BY <1>1, <1>3, TailProperties DEF Calling, Return
  <2> QED
    BY <2>1, <1>2, <1>3, OrderNoBuild
<1>4. CASE Purge(r) \/ CacheHit(r)
  BY <1>3, <1>4 DEF Purge, CacheHit
<1>5. CASE Cache(r)
  <2>1. TypeOK'
    BY <1>1, TypeStep, <1>5 DEF Next, Run
  <2>2. \A i \in DOMAIN agenda : agenda[i].op # "build"
    BY <1>2, <1>5 DEF Cache
  <2>3. \A i \in DOMAIN agenda' : agenda'[i].op # "build"
    BY <1>1, <1>5, <2>1, <2>2, CacheNoBuild
  <2> QED
    BY <2>3, OrderNoBuild
<1>6. CASE CreateUpdated(r)
  <2>1. \A d \in Recipes : Settled(d) => Settled(d)'
    BY <1>1, <1>6, InspectEffect, SettledKept DEF CreateUpdated
  <2>2. Settled(r)
    BY <1>6 DEF CreateUpdated, SeenUpdated, Settled
  <2>3. agenda # << >> /\ Head(agenda).lib = r /\ Return /\ UNCHANGED meta
    BY <1>6 DEF CreateUpdated, Calling
  <2> QED
    BY <2>1, <2>2, <2>3, <1>1, OrderReturn
<1>7. CASE CreateStale(r)
  BY <1>7, OrderStale
<1>8. ASSUME Exit PROVE OrderInv'
  BY <1>8 DEF Exit, OrderInv
<1>9. CASE RecursionError(r)
  BY <1>8, <1>9 DEF RecursionError
<1>10. CASE BuildRemove(r)
  <2>1. \A d \in Recipes \ {r} : Settled(d) => Settled(d)'
    BY <1>1, <1>10, RemoveEffect, SettledKept DEF BuildRemove
  <2> QED
    BY <2>1, <1>1, <1>10, OrderSame DEF BuildRemove
<1>11. CASE Upload(r)
  <2>1. \A d \in Recipes : Settled(d) => Settled(d)'
    BY <1>11 DEF Upload, local, Settled, UpToDate, HasBinary
  <2>2. Settled(r)
    BY <1>1, <1>11 DEF Upload, StageInv, Made, Settled, UpToDate, HasBinary, BuildTypes
  <2>3. agenda # << >> /\ Head(agenda).lib = r /\ Return /\ UNCHANGED meta
    BY <1>11 DEF Upload, Calling
  <2> QED
    BY <2>1, <2>2, <2>3, <1>1, OrderReturn
<1>12. ASSUME NEW t \in BuildTypes, BuildSucceeds(r, t) PROVE OrderInv'
  <2>1. Calling("build", r) /\ UNCHANGED meta
    BY <1>12 DEF BuildSucceeds
  <2>2. meta[r] # Absent
    BY <2>1, <1>1, AllKnown
  <2>3. Requires(r) \in SUBSET {d \in Recipes : Obtainable(d)}
    BY <1>12, RequiresType DEF BuildSucceeds
  <2>4. ConanCreate(r, t, Requires(r), SourceCloned(r), SourceCloned(r))
    BY <1>12 DEF BuildSucceeds
  <2>5. SourceCloned(r) # NoBinary /\ meta[r] <= SourceCloned(r)
    BY <1>1, SourceEffect
  <2>6. \A d \in Recipes \ {r} : Settled(d) => Settled(d)'
    <3>1. \A d \in Recipes \ {r} : exported[d] # Absent => Kept(d)
      BY <1>1, <2>2, <2>3, <2>4, <2>5, CreateEffect
    <3> QED
      BY <3>1, <2>1, <1>1, SettledKept
  <2>7. Settled(r)'
    <3>1. exported'[r] = meta'[r] /\ bin'[r] = [bin[r] EXCEPT ![t] = SourceCloned(r)]
      BY <2>1, <2>4 DEF ConanCreate
    <3>2. bin'[r][t] # NoBinary
      BY <3>1, <2>5, <1>1 DEF TypeOK
    <3> QED
      BY <3>1, <3>2 DEF Settled, UpToDate, HasBinary
  <2>8. Return \/ UNCHANGED agenda
    BY <1>12 DEF BuildSucceeds, AfterBuild
  <2>9. agenda # << >> /\ Head(agenda).lib = r
    BY <2>1 DEF Calling
  <2> QED
    BY <2>1, <2>6, <2>7, <2>8, <2>9, <1>1, OrderSame, OrderReturn
<1>13. ASSUME NEW t \in BuildTypes, BuildFails(r, t) PROVE OrderInv'
  BY <1>8, <1>13 DEF BuildFails
<1>14. CASE CollectLoops(r)
  <2>1. agenda' = agenda /\ UNCHANGED <<local, meta>>
    BY <1>14 DEF CollectLoops, vars, process
  <2>2. \A d : Settled(d)' <=> Settled(d)
    BY <2>1 DEF local, Settled, UpToDate, HasBinary
  <2>3. \A d : Deps(d)' = Deps(d)
    BY <2>1 DEF Deps
  <2> QED
    BY <2>1, <2>2, <2>3 DEF OrderInv
<1> QED
  BY <1>4, <1>5, <1>6, <1>7, <1>9, <1>10, <1>11, <1>12, <1>13, <1>14 DEF Run

LEMMA ObtainedRun ==
    ASSUME DoneInv, ObtainedInv, NEW r \in Recipes, Run(r)
    PROVE  ObtainedInv'
<1>1. TypeOK /\ AgendaInv /\ CommitInv /\ LocalInv /\ RemoteNotNewer /\ StageInv
  BY DEF DoneInv, DataInv
<1>2. stage' = "remove" => ObtainedInv'
  BY DEF ObtainedInv
<1>3. ASSUME NEW op, op # "build", Calling(op, r), UNCHANGED stage PROVE ObtainedInv'
  BY <1>1, <1>2, <1>3, StageElsewhere
<1>4. CASE Purge(r) \/ CacheHit(r) \/ Cache(r) \/ CreateUpdated(r) \/ CreateStale(r)
  BY <1>3, <1>4 DEF Purge, CacheHit, Cache, CreateUpdated, CreateStale
<1>5. CASE RecursionError(r) \/ Upload(r)
  BY <1>2, <1>5 DEF RecursionError, Upload, Exit
<1>6. CASE BuildRemove(r)
  <2>1. ReachesCycle(r)' <=> ReachesCycle(r)
    BY <1>1, <1>6, RequiresProperties DEF BuildRemove
  <2>2. \A q \in Recipes : Calling("build", q)' => q = r
    BY <1>6 DEF BuildRemove, Calling
  <2> QED
    BY <1>6, <2>1, <2>2 DEF BuildRemove, ObtainedInv
<1>7. ASSUME NEW t \in BuildTypes, BuildSucceeds(r, t) PROVE ObtainedInv'
  <2>1. Calling("build", r) /\ UNCHANGED meta /\ stage # "remove"
    BY <1>7 DEF BuildSucceeds, BuildTypes
  <2>2. meta[r] # Absent
    BY <2>1, <1>1, AllKnown DEF TypeOK, CallSet
  <2>3. Requires(r) \in SUBSET {d \in Recipes : Obtainable(d)}
    BY <1>7, RequiresType DEF BuildSucceeds
  <2>4. ConanCreate(r, t, Requires(r), SourceCloned(r), SourceCloned(r))
    BY <1>7 DEF BuildSucceeds
  <2>5. SourceCloned(r) # NoBinary /\ meta[r] <= SourceCloned(r)
    BY <1>1, SourceEffect
  <2>6. ~ReachesCycle(r)
    BY <2>1 DEF ObtainedInv
  <2>7. r \notin Requires(r)
    BY <2>6, <1>1, RequiresProperties
  <2>8. \A d \in Requires(r) \ {r} : \A u \in BuildTypes : bin'[d][u] # NoBinary
    <3> SUFFICES ASSUME NEW d \in Requires(r) \ {r}, NEW u \in BuildTypes
                 PROVE  bin'[d][u] # NoBinary
      OBVIOUS
    <3>1. d \in Recipes
      BY <2>3
    <3>2. bin'[d][u] = BinaryOf(d, u)
      BY <2>4, <3>1 DEF ConanCreate
    <3>3. BinaryOf(d, u) \in 1..MaxCommit
      BY <1>1, <3>1, HelperTypes
    <3> QED
      BY <3>2, <3>3, CommitAssumption DEF NoBinary
  <2>9. Requires(r)' = Requires(r) /\ (ReachesCycle(r)' <=> ReachesCycle(r))
    BY <2>1, <1>1, RequiresProperties
  <2>10. CASE stage' = "remove"
    BY <2>10, <1>2
  <2>11. CASE UNCHANGED agenda
    <3>1. \A q \in Recipes : Calling("build", q)' => q = r
      BY <2>1, <2>11 DEF Calling
    <3> QED
      BY <3>1, <2>6, <2>7, <2>8, <2>9 DEF ObtainedInv
  <2> QED
    BY <2>10, <2>11, <1>7 DEF BuildSucceeds, AfterBuild
<1>8. ASSUME NEW t \in BuildTypes, BuildFails(r, t) PROVE ObtainedInv'
  BY <1>2, <1>8 DEF BuildFails, Exit
<1>9. CASE CollectLoops(r)
  BY <1>2, <1>9 DEF CollectLoops, Loops, vars, process
<1> QED
  BY <1>4, <1>5, <1>6, <1>7, <1>8, <1>9 DEF Run

LEMMA OrderStep ==
    DoneInv /\ OrderInv /\ ObtainedInv /\ [Next]_vars => OrderInv' /\ ObtainedInv'
<1> SUFFICES ASSUME DoneInv, OrderInv, ObtainedInv, [Next]_vars
             PROVE  OrderInv' /\ ObtainedInv'
  OBVIOUS
<1>1. TypeOK /\ StageInv /\ AgendaInv
  BY DEF DoneInv, DataInv
<1>2. ASSUME NEW r \in Recipes, Run(r) PROVE OrderInv' /\ ObtainedInv'
  BY <1>2, OrderRun, ObtainedRun
<1>3. ASSUME UNCHANGED <<local, agenda, meta, stage>> PROVE OrderInv' /\ ObtainedInv'
  <2>1. \A q \in Recipes : /\ Deps(q)' = Deps(q) /\ Requires(q)' = Requires(q)
                           /\ (ReachesCycle(q)' <=> ReachesCycle(q))
    BY <1>1, <1>3, RequiresProperties
  <2>2. \A q : Settled(q)' <=> Settled(q)
    BY <1>3 DEF local, Settled, UpToDate, HasBinary
  <2>3. OrderInv'
    BY <1>3, <2>1, <2>2 DEF OrderInv
  <2>4. \A q : Calling("build", q)' <=> Calling("build", q)
    BY <1>3 DEF Calling
  <2>5. ObtainedInv'
    BY <1>3, <2>1, <2>4 DEF ObtainedInv, local
  <2> QED
    BY <2>3, <2>5
<1>4. CASE Start
  <2>1. agenda = << >> /\ UNCHANGED stage /\ meta' = [r \in Recipes |-> Absent]
    BY <1>4 DEF Start, CreateCircle, CreateOne, Started
  <2>2. stage' = "remove"
    BY <2>1, <1>1 DEF StageInv
  <2>3. \A r \in Recipes : Deps(r)' = {}
    BY <2>1 DEF Deps
  <2> QED
    BY <2>2, <2>3 DEF ObtainedInv, OrderInv
<1>5. ASSUME NEW r \in Recipes, Push(r) PROVE OrderInv' /\ ObtainedInv'
  BY <1>3, <1>5 DEF Push, process
<1>6. CASE Crash
  BY <1>6 DEF Crash, Exit, OrderInv, ObtainedInv
<1>7. CASE UNCHANGED vars
  BY <1>3, <1>7 DEF vars, process
<1> QED
  BY <1>2, <1>4, <1>5, <1>6, <1>7 DEF Next

OrderedInv == DoneInv /\ OrderInv /\ ObtainedInv

LEMMA OrderedInvariant == Spec => []OrderedInv
<1>1. Init => OrderInv /\ ObtainedInv
  BY DEF Init, OrderInv, ObtainedInv
<1>2. Init => DoneInv
  BY TypeInit, AgendaInit, DataInit DEF DoneInv
<1>3. OrderedInv /\ [Next]_vars => OrderedInv'
  BY OrderStep, TypeStep, AgendaStep, DataStep DEF OrderedInv, DoneInv
<1> QED
  BY <1>1, <1>2, <1>3, PTL DEF Spec, OrderedInv

LEMMA OrderedDeps == OrderedInv => DepsSettled
<1> SUFFICES ASSUME OrderedInv, NEW r \in Recipes, Calling("build", r), NEW d \in Deps(r)
             PROVE  Settled(d)
  BY DEF DepsSettled
<1>1. TypeOK /\ OrderInv /\ agenda \in Seq(CallSet)
  BY DEF OrderedInv, DoneInv, TypeOK, CallSet
<1>2. agenda[1] = [op |-> "build", lib |-> r] /\ 1 \in DOMAIN agenda
  BY <1>1, TailProperties DEF Calling
<1>3. \A j \in DOMAIN agenda : ~(j < 1)
  BY <1>1
<1> QED
  BY <1>1, <1>2, <1>3 DEF OrderInv

\* For every graph of build_deps, cyclic ones included, and whatever fails: a package is
\* removed, built and uploaded only while each of its build_deps is in the local cache at
\* the commit this run read for it, or at any if it could read none (the recursion of
\* create_circle_recipe).
THEOREM DependenciesFirst == Spec => []DepsSettled
  BY OrderedInvariant, OrderedDeps, PTL

-----------------------------------------------------------------------------
(* Nothing is rebuilt that is up to date.                                  *)

BuildOf(r) == [op |-> "build", lib |-> r]

\* What is pending before a build is about packages that build needs: the pending builds
\* are a path in the graph of build_deps, the innermost one first.
NestedInv ==
    \A i, j \in DOMAIN agenda, r \in Recipes :
        i < j /\ agenda[j] = BuildOf(r) => agenda[i].lib \in Requires(r)

Stale(r) == ~UpToDate(r) \/ ReachesCycle(r) \/ r \in misread

\* A build that has not removed its package yet still has a reason to, or was misled when
\* it was called for, unless the graph has a cycle there, from which create_conan_2 never
\* gets to removing it.
PendingInv ==
    \A i \in DOMAIN agenda, r \in Recipes :
        agenda[i] = BuildOf(r) /\ (i = 1 => stage = "remove") => Stale(r)

LEMMA RequiresTransitive ==
    ASSUME TypeOK, NEW r \in Recipes, NEW d \in Requires(r)
    PROVE  d \in Recipes /\ Deps(d) \subseteq Requires(r) /\ Requires(d) \subseteq Requires(r)
<1>1. d \in Recipes
  BY DEF Requires
<1>2. Deps(d) \subseteq Recipes
  BY <1>1, DepsType DEF TypeOK
<1>3. ASSUME NEW S \in SUBSET Recipes, Deps(r) \subseteq S, \A s \in S : Deps(s) \subseteq S
      PROVE  Deps(d) \subseteq S /\ Requires(d) \subseteq S
  <2>1. d \in S
    BY <1>3 DEF Requires
  <2>2. Deps(d) \subseteq S
    BY <1>3, <2>1
  <2> QED
    BY <1>3, <2>2 DEF Requires
<1>4. Deps(d) \subseteq Requires(r)
  BY <1>2, <1>3 DEF Requires
<1>5. Requires(d) \subseteq Requires(r)
  <2>1. Requires(d) \subseteq Recipes
    BY DEF Requires
  <2> QED
    BY <2>1, <1>3 DEF Requires
<1> QED
  BY <1>1, <1>4, <1>5

\* The first call, about r, is replaced by calls about r and what it needs.
LEMMA NestedFront ==
    ASSUME TypeOK, NestedInv, agenda # << >>, UNCHANGED meta,
           NEW r \in Recipes, Head(agenda).lib = r,
           NEW f \in Seq(CallSet), agenda' = f \o Tail(agenda),
           \A i \in DOMAIN f : f[i].lib \in Requires(r) \cup {r},
           \A i, j \in DOMAIN f, q \in Recipes :
               i < j /\ f[j] = BuildOf(q) => f[i].lib \in Requires(q)
    PROVE  NestedInv'
<1>1. agenda \in Seq(CallSet)
  BY DEF TypeOK, CallSet
<1>2. agenda[1].lib = r /\ 1 \in DOMAIN agenda
  BY <1>1, TailProperties
<1>3. agenda' \in Seq(CallSet) /\ Fronted(agenda', f, agenda)
  BY <1>1, FrontProperties
<1>4. \A q \in Recipes : Requires(q)' = Requires(q)
  BY RequiresProperties
<1>5. /\ \A i \in DOMAIN agenda : i \in Int /\ (i = 1 \/ 1 < i)
      /\ \A i \in DOMAIN agenda' : i \in Int /\ 1 <= i
      /\ DOMAIN f = 1..Len(f) /\ Len(f) \in Nat
  BY <1>3 DEF Fronted
<1> SUFFICES ASSUME NEW i \in DOMAIN agenda', NEW j \in DOMAIN agenda', NEW q \in Recipes,
                    i < j, agenda'[j] = BuildOf(q)
             PROVE  agenda'[i].lib \in Requires(q)
  BY <1>4 DEF NestedInv, BuildOf
<1>6. CASE j \in DOMAIN f /\ agenda'[j] = f[j]
  <2>1. i \in DOMAIN f
    BY <1>5, <1>6
  <2>2. agenda'[i] = f[i]
    BY <2>1, <1>3 DEF Fronted
  <2> QED
    BY <2>1, <2>2, <1>6
<1>7. CASE /\ j > Len(f)
           /\ j - Len(f) + 1 \in DOMAIN agenda
           /\ agenda'[j] = agenda[j - Len(f) + 1]
  <2> DEFINE k == j - Len(f) + 1
  <2>1. k \in DOMAIN agenda /\ 1 < k /\ agenda[k] = BuildOf(q)
    BY <1>5, <1>7
  <2>2. r \in Requires(q)
    BY <2>1, <1>2 DEF NestedInv
  <2>3. CASE i \in DOMAIN f /\ agenda'[i] = f[i]
    <3>1. Requires(r) \subseteq Requires(q)
      BY <2>2, RequiresTransitive
    <3> QED
      BY <2>2, <2>3, <3>1
  <2>4. CASE /\ i > Len(f)
             /\ i - Len(f) + 1 \in DOMAIN agenda
             /\ agenda'[i] = agenda[i - Len(f) + 1]
    <3>1. i - Len(f) + 1 < k
      BY <1>5
    <3> QED
      BY <2>1, <2>4, <3>1 DEF NestedInv
  <2> QED
    BY <2>3, <2>4, <1>3 DEF Fronted
<1> QED
  BY <1>6, <1>7, <1>3 DEF Fronted

\* The first call is replaced: the builds that are new, and those that waited, are stale.
LEMMA PendingFront ==
    ASSUME TypeOK, PendingInv, agenda # << >>,
           NEW f \in Seq(CallSet), agenda' = f \o Tail(agenda),
           \A i \in DOMAIN f, q \in Recipes : f[i] = BuildOf(q) => Stale(q)',
           \A i \in DOMAIN agenda, q \in Recipes :
               i # 1 /\ agenda[i] = BuildOf(q) /\ Stale(q) => Stale(q)'
    PROVE  PendingInv'
<1>1. agenda \in Seq(CallSet)
  BY DEF TypeOK, CallSet
<1>2. agenda' \in Seq(CallSet) /\ Fronted(agenda', f, agenda)
  BY <1>1, FrontProperties
<1> SUFFICES ASSUME NEW i \in DOMAIN agenda', NEW q \in Recipes, agenda'[i] = BuildOf(q)
             PROVE  Stale(q)'
  BY DEF PendingInv, BuildOf
<1>3. CASE i \in DOMAIN f /\ agenda'[i] = f[i]
  BY <1>3
<1>4. CASE /\ i > Len(f)
           /\ i - Len(f) + 1 \in DOMAIN agenda
           /\ agenda'[i] = agenda[i - Len(f) + 1]
  <2> DEFINE k == i - Len(f) + 1
  <2>1. k \in DOMAIN agenda /\ k # 1 /\ agenda[k] = BuildOf(q)
    BY <1>2, <1>4 DEF Fronted
  <2>2. Stale(q)
    BY <2>1 DEF PendingInv
  <2> QED
    BY <2>1, <2>2
<1> QED
  BY <1>3, <1>4, <1>2 DEF Fronted

\* A build, or a package it needs, does not make what waits for it up to date: that
\* would be on a cycle.
LEMMA StaleBelow ==
    ASSUME TypeOK, NestedInv, UNCHANGED meta, misread \subseteq misread', agenda # << >>,
           NEW r \in Recipes, Head(agenda).lib = r,
           \A d \in Recipes \ (Requires(r) \cup {r}) :
               exported'[d] = exported[d] /\ bin'[d] = bin[d]
    PROVE  \A i \in DOMAIN agenda, q \in Recipes :
               i # 1 /\ agenda[i] = BuildOf(q) /\ Stale(q) => Stale(q)'
<1> SUFFICES ASSUME NEW i \in DOMAIN agenda, NEW q \in Recipes,
                    i # 1, agenda[i] = BuildOf(q), Stale(q)
             PROVE  Stale(q)'
  OBVIOUS
<1>1. agenda \in Seq(CallSet)
  BY DEF TypeOK, CallSet
<1>2. agenda[1].lib = r /\ 1 \in DOMAIN agenda /\ 1 < i
  BY <1>1, TailProperties
<1>3. r \in Requires(q)
  BY <1>2 DEF NestedInv
<1>4. ReachesCycle(q)' <=> ReachesCycle(q)
  BY RequiresProperties
<1>5. CASE q \in Requires(r) \cup {r}
  <2>1. q \in Requires(q)
    BY <1>3, <1>5, RequiresTransitive
  <2> QED
    BY <2>1, <1>4 DEF Stale, ReachesCycle
<1>6. CASE q \notin Requires(r) \cup {r}
  <2>1. exported'[q] = exported[q] /\ bin'[q] = bin[q] /\ meta'[q] = meta[q]
    BY <1>6
  <2>2. UpToDate(q)' <=> UpToDate(q)
    BY <2>1 DEF UpToDate, HasBinary
  <2> QED
    BY <2>2, <1>4 DEF Stale
<1> QED
  BY <1>5, <1>6

\* conan inspect leaves every package as stale as it was.
LEMMA StaleInspect ==
    ASSUME TypeOK, LocalInv, UNCHANGED meta, misread \subseteq misread',
           NEW r \in Recipes, Inspect(r), NEW q \in Recipes, Stale(q)
    PROVE  Stale(q)'
<1>1. bin' = bin /\ (Kept(q) \/ exported[q] = Absent)
  BY InspectEffect
<1>2. ReachesCycle(q)' <=> ReachesCycle(q)
  BY RequiresProperties
<1>3. CASE exported[q] = Absent
  <2>1. ~HasBinary(q)'
    BY <1>1, <1>3 DEF LocalInv, HasBinary
  <2> QED
    BY <2>1 DEF Stale, UpToDate
<1>4. CASE Kept(q)
  <2>1. UpToDate(q)' <=> UpToDate(q)
    BY <1>1, <1>4 DEF Kept, UpToDate, HasBinary
  <2> QED
    BY <2>1, <1>2 DEF Stale
<1> QED
  BY <1>1, <1>3, <1>4

RebuildInv == NestedInv /\ PendingInv

\* Without a pending build there is nothing to keep.
LEMMA RebuildNoBuild ==
    ASSUME \A i \in DOMAIN agenda' : agenda'[i].op # "build"
    PROVE  RebuildInv'
<1>1. \A r : BuildOf(r).op = "build"
  BY DEF BuildOf
<1>2. \A i \in DOMAIN agenda' : \A r : agenda'[i] # BuildOf(r)
  BY <1>1
<1> QED
  BY <1>2 DEF RebuildInv, NestedInv, PendingInv, BuildOf

\* The running build goes on.
LEMMA RebuildSame ==
    ASSUME TypeOK, RebuildInv, UNCHANGED <<agenda, meta>>, agenda # << >>,
           misread \subseteq misread',
           NEW r \in Recipes, Head(agenda).lib = r, stage' # "remove",
           \A d \in Recipes \ (Requires(r) \cup {r}) :
               exported'[d] = exported[d] /\ bin'[d] = bin[d]
    PROVE  RebuildInv'
<1>1. \A i \in DOMAIN agenda, q \in Recipes :
          i # 1 /\ agenda[i] = BuildOf(q) /\ Stale(q) => Stale(q)'
  BY StaleBelow DEF RebuildInv
<1>2. \A q \in Recipes : Requires(q)' = Requires(q)
  BY RequiresProperties
<1>3. NestedInv'
  BY <1>2 DEF RebuildInv, NestedInv, BuildOf
<1>4. PendingInv'
  <2> SUFFICES ASSUME NEW i \in DOMAIN agenda, NEW q \in Recipes, i # 1,
                      agenda[i] = BuildOf(q)
               PROVE  Stale(q)'
    BY DEF PendingInv, BuildOf
  <2>1. Stale(q)
    BY DEF RebuildInv, PendingInv
  <2> QED
    BY <2>1, <1>1
<1> QED
  BY <1>3, <1>4 DEF RebuildInv

\* The first call is done.
LEMMA RebuildReturn ==
    ASSUME TypeOK, RebuildInv, agenda # << >>, Return, UNCHANGED meta,
           NEW r \in Recipes, Head(agenda).lib = r,
           \A i \in DOMAIN agenda, q \in Recipes :
               i # 1 /\ agenda[i] = BuildOf(q) /\ Stale(q) => Stale(q)'
    PROVE  RebuildInv'
<1>1. agenda \in Seq(CallSet)
  BY DEF TypeOK, CallSet
<1>2. Tail(agenda) \in Seq(CallSet)
  BY <1>1, TailProperties
<1>3. agenda' = << >> \o Tail(agenda)
  BY <1>2, ConcatEmptySeq DEF Return
<1>4. << >> \in Seq(CallSet) /\ DOMAIN << >> = {}
  OBVIOUS
<1>5. NestedInv'
  BY <1>3, <1>4, NestedFront DEF RebuildInv
<1>6. PendingInv'
  BY <1>3, <1>4, PendingFront DEF RebuildInv
<1> QED
  BY <1>5, <1>6 DEF RebuildInv

\* A recipe found stale is replaced by its build_deps, which it needs, and its build.
LEMMA RebuildStale ==
    ASSUME DoneInv, RebuildInv, NEW r \in Recipes, CreateStale(r)
    PROVE  RebuildInv'
<1> DEFINE ds == DepsAt[r][meta[r]]
           f == Calls("create", ds) \o Calls("build", <<r>>)
<1>1. /\ TypeOK /\ AgendaInv /\ LocalInv /\ agenda \in Seq(CallSet)
      /\ meta \in [Recipes -> -1..MaxCommit]
  BY DEF DoneInv, DataInv, TypeOK, CallSet
<1>2. /\ agenda # << >> /\ Head(agenda).lib = r
      /\ agenda' = f \o Tail(agenda) /\ UNCHANGED meta /\ Inspect(r)
      /\ misread \subseteq misread' /\ (UpToDate(r) => r \in misread')
  BY DEF CreateStale, Calling, MarkMisread
<1>3. meta[r] # Absent
  BY <1>1, AllKnown DEF CreateStale
<1>4. /\ ds \in Seq(Recipes) /\ Deps(r) = {ds[i] : i \in 1..Len(ds)}
      /\ Len(ds) \in Nat
  BY <1>1, <1>3, DepsType
<1> HIDE DEF ds
<1>5. /\ f \in Seq(CallSet)
      /\ Len(f) = Len(ds) + 1
      /\ \A i \in 1..Len(ds) : f[i] = [op |-> "create", lib |-> ds[i]]
      /\ f[Len(ds) + 1] = [op |-> "build", lib |-> r]
  BY <1>4, StaleProperties
<1> HIDE DEF f
<1>6. DOMAIN f = 1..(Len(ds) + 1)
  BY <1>4, <1>5
<1>7. ASSUME NEW i \in 1..Len(ds) PROVE f[i].op = "create" /\ f[i].lib \in Requires(r)
  <2>1. f[i] = [op |-> "create", lib |-> ds[i]] /\ ds[i] \in Requires(r)
    BY <1>1, <1>4, <1>5, RequiresProperties
  <2> QED
    BY <2>1
<1>8. f[Len(ds) + 1].lib = r
  BY <1>5
<1>9. \A i \in DOMAIN f : f[i].lib \in Requires(r) \cup {r}
  BY <1>4, <1>6, <1>7, <1>8
<1>10. ASSUME NEW j \in DOMAIN f, NEW q \in Recipes, f[j] = BuildOf(q)
       PROVE  j = Len(ds) + 1 /\ q = r
  <2>1. f[j].op = "build" /\ f[j].lib = q
    BY <1>10 DEF BuildOf
  <2>2. j \notin 1..Len(ds)
    BY <2>1, <1>7
  <2>3. j = Len(ds) + 1
    BY <2>2, <1>4, <1>6
  <2> QED
    BY <2>1, <2>3, <1>8
<1>11. \A i, j \in DOMAIN f, q \in Recipes :
           i < j /\ f[j] = BuildOf(q) => f[i].lib \in Requires(q)
  <2> SUFFICES ASSUME NEW i \in DOMAIN f, NEW j \in DOMAIN f, NEW q \in Recipes,
                      i < j, f[j] = BuildOf(q)
               PROVE  f[i].lib \in Requires(q)
    OBVIOUS
  <2>1. j = Len(ds) + 1 /\ q = r
    BY <1>10
  <2>2. i \in 1..Len(ds)
    BY <2>1, <1>4, <1>6
  <2> QED
    BY <2>1, <2>2, <1>7
<1>12. NestedInv'
  BY <1>1, <1>2, <1>5, <1>9, <1>11, NestedFront DEF RebuildInv
<1>13. \A q \in Recipes : Stale(q) => Stale(q)'
  BY <1>1, <1>2, StaleInspect
<1>14. Stale(r)'
  BY <1>1, <1>2, <1>13 DEF Stale
<1>15. \A i \in DOMAIN f, q \in Recipes : f[i] = BuildOf(q) => Stale(q)'
  BY <1>10, <1>14
<1>16. PendingInv'
  BY <1>1, <1>2, <1>5, <1>13, <1>15, PendingFront DEF RebuildInv
<1> QED
  BY <1>12, <1>16 DEF RebuildInv

LEMMA RebuildUnchanged ==
    ASSUME TypeOK, RebuildInv, UNCHANGED <<local, agenda, meta, stage, misread>>
    PROVE  RebuildInv'
<1>1. \A q \in Recipes : /\ Requires(q)' = Requires(q)
                         /\ (ReachesCycle(q)' <=> ReachesCycle(q))
  BY RequiresProperties
<1>2. \A q \in Recipes : Stale(q)' <=> Stale(q)
  BY <1>1 DEF local, Stale, UpToDate, HasBinary
<1> QED
  BY <1>1, <1>2 DEF RebuildInv, NestedInv, PendingInv, BuildOf

LEMMA RebuildRun ==
    ASSUME DoneInv, RebuildInv, NEW r \in Recipes, Run(r)
    PROVE  RebuildInv'
<1>1. TypeOK /\ AgendaInv /\ LocalInv /\ agenda \in Seq(CallSet) /\ TypeOK'
  <2>1. TypeOK /\ AgendaInv /\ LocalInv /\ agenda \in Seq(CallSet)
    BY DEF DoneInv, DataInv, TypeOK, CallSet
  <2>2. [Next]_vars
    BY DEF Next
  <2> QED
    BY <2>1, <2>2, TypeStep
<1>2. ASSUME NEW op \in {"purge", "cache"}, Calling(op, r)
      PROVE  \A i \in DOMAIN agenda : agenda[i].op # "build"
  <2>1. agenda[1] = [op |-> op, lib |-> r] /\ 1 \in DOMAIN agenda
    BY <1>1, <1>2, TailProperties DEF Calling
  <2> QED
    BY <2>1, <1>1 DEF AgendaInv, BuildsLast, Making
<1>3. CASE Purge(r) \/ CacheHit(r)
  <2>1. \A i \in DOMAIN agenda : agenda[i].op # "build"
    BY <1>2, <1>3 DEF Purge, CacheHit
  <2>2. \A i \in DOMAIN agenda' : i + 1 \in DOMAIN agenda /\ agenda'[i] = agenda[i + 1]
    BY <1>1, <1>3, TailProperties DEF Purge, CacheHit, Calling, Return
  <2> QED
    BY <2>1, <2>2, RebuildNoBuild
<1>4. CASE Cache(r)
  <2>1. \A i \in DOMAIN agenda : agenda[i].op # "build"
    BY <1>2, <1>4 DEF Cache
  <2>2. \A i \in DOMAIN agenda' : agenda'[i].op # "build"
    BY <1>1, <1>4, <2>1, CacheNoBuild
  <2> QED
    BY <2>2, RebuildNoBuild
<1>5. CASE CreateUpdated(r)
  <2>1. \A q \in Recipes : Stale(q) => Stale(q)'
    BY <1>1, <1>5, StaleInspect DEF CreateUpdated
  <2>2. agenda # << >> /\ Head(agenda).lib = r /\ Return /\ UNCHANGED meta
    BY <1>5 DEF CreateUpdated, Calling
  <2> QED
    BY <2>1, <2>2, <1>1, RebuildReturn
<1>6. CASE CreateStale(r)
  BY <1>6, RebuildStale
<1>7. ASSUME Exit PROVE RebuildInv'
  BY <1>7 DEF Exit, RebuildInv, NestedInv, PendingInv
<1>8. CASE RecursionError(r)
  BY <1>7, <1>8 DEF RecursionError
<1>9. CASE BuildRemove(r)
  <2>1. \A d \in Recipes \ {r} : exported'[d] = exported[d] /\ bin'[d] = bin[d]
    BY <1>1, <1>9 DEF BuildRemove, RemovePackage, Removed, local, TypeOK
  <2>2. /\ UNCHANGED <<agenda, meta>> /\ agenda # << >> /\ Head(agenda).lib = r
        /\ stage' # "remove" /\ misread' = misread
    BY <1>9 DEF BuildRemove, Calling
  <2> QED
    BY <2>1, <2>2, <1>1, RebuildSame
<1>10. CASE Upload(r)
  <2>1. UNCHANGED <<exported, bin, meta, misread>>
    BY <1>10 DEF Upload, local
  <2>2. agenda # << >> /\ Head(agenda).lib = r /\ Return
    BY <1>10 DEF Upload, Calling
  <2>3. \A i \in DOMAIN agenda, q \in Recipes :
            i # 1 /\ agenda[i] = BuildOf(q) /\ Stale(q) => Stale(q)'
    BY <2>1, <2>2, <1>1, StaleBelow DEF RebuildInv
  <2> QED
    BY <2>1, <2>2, <2>3, <1>1, RebuildReturn
<1>11. ASSUME NEW t \in BuildTypes, BuildSucceeds(r, t) PROVE RebuildInv'
  <2>1. \A d \in Recipes \ (Requires(r) \cup {r}) :
            exported'[d] = exported[d] /\ bin'[d] = bin[d]
    BY <1>11 DEF BuildSucceeds, ConanCreate
  <2>2. agenda # << >> /\ Head(agenda).lib = r /\ UNCHANGED <<meta, misread>>
    BY <1>11 DEF BuildSucceeds, Calling
  <2>3. \A i \in DOMAIN agenda, q \in Recipes :
            i # 1 /\ agenda[i] = BuildOf(q) /\ Stale(q) => Stale(q)'
    BY <2>1, <2>2, <1>1, StaleBelow DEF RebuildInv
  <2>4. \/ UNCHANGED agenda /\ stage' # "remove"
        \/ Return
    BY <1>11 DEF BuildSucceeds, AfterBuild
  <2> QED
    BY <2>1, <2>2, <2>3, <2>4, <1>1, RebuildSame, RebuildReturn
<1>12. ASSUME NEW t \in BuildTypes, BuildFails(r, t) PROVE RebuildInv'
  BY <1>7, <1>12 DEF BuildFails
<1>13. CASE CollectLoops(r)
  BY <1>1, <1>13, RebuildUnchanged DEF CollectLoops, vars, process
<1> QED
  BY <1>3, <1>4, <1>5, <1>6, <1>8, <1>9, <1>10, <1>11, <1>12, <1>13 DEF Run

LEMMA RebuildStep == DoneInv /\ RebuildInv /\ [Next]_vars => RebuildInv'
<1> SUFFICES ASSUME DoneInv, RebuildInv, [Next]_vars PROVE RebuildInv'
  OBVIOUS
<1>1. TypeOK
  BY DEF DoneInv
<1>2. ASSUME UNCHANGED <<local, agenda, meta, stage, misread>> PROVE RebuildInv'
  BY <1>1, <1>2, RebuildUnchanged
<1>3. CASE Start
  <2>1. \A i \in DOMAIN agenda' : agenda'[i].op # "build"
    BY <1>3, StartNoBuild
  <2> QED
    BY <2>1, RebuildNoBuild
<1>4. ASSUME NEW r \in Recipes, Push(r) PROVE RebuildInv'
  BY <1>2, <1>4 DEF Push, process
<1>5. CASE Crash
  BY <1>5 DEF Crash, Exit, RebuildInv, NestedInv, PendingInv
<1>6. CASE UNCHANGED vars
  BY <1>2, <1>6 DEF vars, process
<1> QED
  BY <1>3, <1>4, <1>5, <1>6, RebuildRun DEF Next

\* What a step takes out of the local cache was stale, or the operator asked for it.
LEMMA RemovesStale ==
    ASSUME DoneInv, RebuildInv, [Next]_vars, NEW r \in Recipes,
           exported[r] # Absent, exported'[r] = Absent
    PROVE  ~UpToDate(r) \/ Calling("purge", r) \/ r \in misread
<1>1. /\ TypeOK /\ AgendaInv /\ CommitInv /\ LocalInv /\ RemoteNotNewer
      /\ agenda \in Seq(CallSet)
  BY DEF DoneInv, DataInv, TypeOK, CallSet
<1>2. ASSUME NEW q \in Recipes, RemovePackage(q) PROVE q = r
  <2>1. \A d \in Recipes \ {q} : exported'[d] = exported[d]
    BY <1>1, <1>2, RemoveEffect DEF Kept
  <2> QED
    BY <2>1
<1>3. ASSUME NEW q \in Recipes, Run(q)
      PROVE  ~UpToDate(r) \/ Calling("purge", r) \/ r \in misread
  <2>1. CASE Purge(q)
    BY <2>1, <1>2 DEF Purge
  <2>2. CASE BuildRemove(q)
    <3>1. q = r /\ Calling("build", r) /\ stage = "remove" /\ ~ReachesCycle(r)
      BY <2>2, <1>2 DEF BuildRemove
    <3>2. 1 \in DOMAIN agenda /\ agenda[1] = BuildOf(r)
      BY <3>1, <1>1, TailProperties DEF Calling, BuildOf
    <3> QED
      BY <3>1, <3>2 DEF RebuildInv, PendingInv, Stale
  <2>3. CASE CacheHit(q) \/ Cache(q) \/ RecursionError(q) \/ CollectLoops(q) \/ Upload(q)
    BY <2>3 DEF CacheHit, Cache, RecursionError, CollectLoops, Upload, vars, local
  <2>4. CASE CreateUpdated(q) \/ CreateStale(q)
    <3>1. Inspect(q)
      BY <2>4 DEF CreateUpdated, CreateStale
    <3>2. Kept(r)
      BY <3>1, <1>1, InspectEffect
    <3> QED
      BY <3>2 DEF Kept
  <2>5. ASSUME NEW t \in BuildTypes, BuildSucceeds(q, t) \/ BuildFails(q, t) PROVE FALSE
    <3>1. meta[q] # Absent
      BY <2>5, <1>1, AllKnown DEF BuildSucceeds, BuildFails
    <3>2. PICK got, source, binary : ConanCreate(q, t, got, source, binary)
      BY <2>5 DEF BuildSucceeds, BuildFails
    <3>3. exported'[r] = IF r = q THEN meta[q] ELSE IF r \in got THEN RecipeOf(r) ELSE exported[r]
      BY <3>2 DEF ConanCreate
    <3>4. RecipeOf(r) = exported[r]
      BY DEF RecipeOf
    <3> QED
      BY <3>1, <3>3, <3>4
  <2> QED
    BY <1>3, <2>1, <2>2, <2>3, <2>4, <2>5 DEF Run
<1>4. Start \/ Crash \/ (\E q \in Recipes : Push(q)) \/ UNCHANGED vars => UNCHANGED exported
  BY DEF Start, CreateCircle, CreateOne, Started, Crash, Push, vars, local
<1> QED
  BY <1>3, <1>4 DEF Next

LEMMA RebuildInvariant == Spec => [](DoneInv /\ RebuildInv)
<1>1. Init => RebuildInv
  BY DEF Init, RebuildInv, NestedInv, PendingInv
<1>2. RebuildInv /\ DoneInv /\ [Next]_vars => RebuildInv'
  BY RebuildStep
<1> QED
  BY <1>1, <1>2, DoneInvariant, PTL DEF Spec

\* For every graph of build_deps, cyclic ones included, and whatever fails: a package that is
\* up to date is only removed at the operator's request, or where a conan inspect or search
\* about that very package failed in this run.  The check that create_circle_recipe makes
\* before it recurses still holds when create_conan_2 removes the package: all that is
\* done in between is about packages it needs, and none of those needs it in turn.
THEOREM NothingRebuiltTwice == Spec => NoRedundantRebuild
<1> DEFINE A == \A r \in Recipes :
                  exported[r] # Absent /\ exported'[r] = Absent =>
                      ~UpToDate(r) \/ Calling("purge", r) \/ r \in misread
<1>1. DoneInv /\ RebuildInv /\ [Next]_vars => A
  BY RemovesStale
<1>2. DoneInv /\ RebuildInv /\ [Next]_vars => [A]_vars
  BY <1>1
<1> QED
  BY <1>2, RebuildInvariant, PTL DEF Spec, NoRedundantRebuild

\* The pending builds and the call that runs are about different recipes, if none needs itself.
LEMMA NestingBound ==
    ASSUME TypeOK, NestedInv, IsFiniteSet(Recipes), \A d \in Recipes : d \notin Requires(d),
           NEW r \in Recipes, Calling("create", r)
    PROVE  /\ Nesting \in Nat /\ Cardinality(Recipes) \in Nat
           /\ Nesting < Cardinality(Recipes)
<1> DEFINE B == {i \in DOMAIN agenda : agenda[i].op = "build"}
           lib == [i \in B |-> agenda[i].lib]
<1>1. agenda \in Seq(CallSet) /\ agenda # << >> /\ Head(agenda) = [op |-> "create", lib |-> r]
  BY DEF TypeOK, CallSet, Calling
<1>2. 1 \in DOMAIN agenda /\ agenda[1].op = "create" /\ agenda[1].lib = r
  <2>1. 1 \in DOMAIN agenda /\ agenda[1] = [op |-> "create", lib |-> r]
    BY <1>1, TailProperties
  <2> QED
    BY <2>1
<1>3. \A i \in B : /\ i \in Nat /\ 1 < i /\ i \in DOMAIN agenda
                   /\ agenda[i].lib \in Recipes /\ agenda[i] = BuildOf(agenda[i].lib)
  <2> SUFFICES ASSUME NEW i \in B
               PROVE  /\ i \in Nat /\ 1 < i /\ i \in DOMAIN agenda
                      /\ agenda[i].lib \in Recipes /\ agenda[i] = BuildOf(agenda[i].lib)
    OBVIOUS
  <2>1. i \in DOMAIN agenda /\ i # 1 /\ DOMAIN agenda = 1..Len(agenda) /\ Len(agenda) \in Nat
    BY <1>1, <1>2
  <2>2. agenda[i] \in CallSet /\ agenda[i].op = "build"
    BY <1>1, <2>1
  <2>3. agenda[i].lib \in Recipes /\ agenda[i] = BuildOf(agenda[i].lib)
    BY <2>2 DEF CallSet, BuildOf
  <2> QED
    BY <2>1, <2>3
<1>4. \A i \in B : agenda[i].lib \in Recipes \ {r}
  <2> SUFFICES ASSUME NEW i \in B PROVE agenda[i].lib # r
    BY <1>3
  <2>1. agenda[1].lib \in Requires(agenda[i].lib)
    BY <1>2, <1>3 DEF NestedInv
  <2> QED
    BY <1>2, <2>1
<1>5. \A i, j \in B : i < j => agenda[i].lib # agenda[j].lib
  <2> SUFFICES ASSUME NEW i \in B, NEW j \in B, i < j PROVE agenda[i].lib # agenda[j].lib
    OBVIOUS
  <2>1. agenda[i].lib \in Requires(agenda[j].lib)
    BY <1>3 DEF NestedInv
  <2> QED
    BY <1>3, <2>1
<1>6. \A i, j \in B : agenda[i].lib = agenda[j].lib => i = j
  <2> SUFFICES ASSUME NEW i \in B, NEW j \in B, i # j PROVE agenda[i].lib # agenda[j].lib
    OBVIOUS
  <2>1. i < j \/ j < i
    BY <1>3
  <2> QED
    BY <1>5, <2>1
<1>7. lib \in Injection(B, Recipes \ {r})
  BY <1>4, <1>6 DEF Injection, IsInjective
<1>8. /\ IsFiniteSet(Recipes \ {r}) /\ Cardinality(Recipes \ {r}) = Cardinality(Recipes) - 1
      /\ Cardinality(Recipes) \in Nat
  BY FS_RemoveElement, FS_CardinalityType
<1>9. IsFiniteSet(B) /\ Cardinality(B) <= Cardinality(Recipes \ {r})
  BY <1>7, <1>8, FS_Injection
<1>10. Cardinality(B) \in Nat
  BY <1>9, FS_CardinalityType
<1>11. Nesting = Cardinality(B)
  BY DEF Nesting
<1> HIDE DEF B
<1> QED
  BY <1>8, <1>9, <1>10, <1>11

LEMMA RebuildNesting ==
    ASSUME IsFiniteSet(Recipes)
    PROVE  TypeOK /\ NestedInv => NestingBounded
  BY NestingBound DEF NestingBounded

\* For any finite set of recipes whose build_deps have no cycle, and whatever fails: calls of
\* create_circle_recipe are nested less deep than there are recipes.  The pending builds are
\* a path in the graph (NestedInv), which without a cycle meets no recipe twice.
THEOREM NestingStaysBounded ==
    ASSUME IsFiniteSet(Recipes)
    PROVE  Spec => []NestingBounded
<1>1. DoneInv /\ RebuildInv => NestingBounded
  BY RebuildNesting DEF DoneInv, RebuildInv
<1> QED
  BY <1>1, RebuildInvariant, PTL

\* Where Python's limit is not below the number of recipes (1000 against some hundred here),
\* a run only ends with a RecursionError if the build_deps it read form a cycle.
THEOREM OverflowMeansCycle ==
    ASSUME IsFiniteSet(Recipes), Cardinality(Recipes) <= RecursionLimit
    PROVE  Spec => [][\A r \in Recipes :
                         RecursionError(r) => \E d \in Recipes : d \in Requires(d)]_vars
<1> DEFINE A == \A r \in Recipes : RecursionError(r) => \E d \in Recipes : d \in Requires(d)
<1>1. ASSUME DoneInv, RebuildInv PROVE A
  <2> SUFFICES ASSUME NEW r \in Recipes, RecursionError(r), \A d \in Recipes : d \notin Requires(d)
               PROVE  FALSE
    OBVIOUS
  <2>1. /\ Nesting \in Nat /\ Cardinality(Recipes) \in Nat
        /\ Nesting < Cardinality(Recipes)
    BY <1>1, NestingBound DEF RecursionError, DoneInv, RebuildInv
  <2>2. Nesting >= RecursionLimit /\ RecursionLimit \in Nat
    BY BoundsAssumption DEF RecursionError
  <2> QED
    BY <2>1, <2>2
<1>2. DoneInv /\ RebuildInv => [A]_vars
  BY <1>1
<1> QED
  BY <1>2, RebuildInvariant, PTL

-----------------------------------------------------------------------------
(* If conan search and conan remove work.                                  *)

RecordedInv == OrderedInv /\ RecordedNotNewer /\ RemovedInv

LEMMA RecordedRun ==
    ASSUME RemovesWork, RecordedInv, NEW r \in Recipes, Run(r)
    PROVE  RecordedNotNewer' /\ RemovedInv'
<1>1. /\ TypeOK /\ AgendaInv /\ CommitInv /\ LocalInv /\ RemoteNotNewer /\ StageInv
      /\ RecordedNotNewer /\ RemovedInv
  BY DEF RecordedInv, OrderedInv, DoneInv, DataInv
<1>2. stage' # "Debug" => RemovedInv'
  BY DEF RemovedInv
<1>3. ASSUME NEW op, op # "build", Calling(op, r), UNCHANGED stage PROVE RemovedInv'
  BY <1>1, <1>2, <1>3, StageElsewhere
<1>4. UNCHANGED local => RecordedNotNewer'
  BY <1>1 DEF local, RecordedNotNewer
<1>5. \A d \in Recipes, t \in BuildTypes :
         bin[d][t] # NoBinary => exported[d] # Absent /\ bin[d][t] \in Int /\ bin[d][t] >= 0
  BY <1>1, Values DEF LocalInv
<1>6. ASSUME RemovePackage(r) PROVE RecordedNotNewer' /\ exported'[r] = Absent
  <2>1. /\ \A d \in Recipes : exported'[d] \in {exported[d], Absent}
        /\ \A d \in Recipes, t \in BuildTypes : bin'[d][t] \in {bin[d][t], NoBinary}
        /\ exported'[r] = Absent
    BY <1>1, <1>6, RemoveEffect
  <2>2. \A d \in Recipes, t \in BuildTypes :
           bin'[d][t] # NoBinary => exported'[d] <= bin'[d][t]
    BY <2>1, <1>1, <1>5 DEF RecordedNotNewer, Absent
  <2> QED
    BY <2>1, <2>2 DEF RecordedNotNewer
<1>7. CASE Purge(r)
  BY <1>3, <1>6, <1>7 DEF Purge
<1>8. CASE CacheHit(r) \/ Cache(r)
  BY <1>3, <1>4, <1>8 DEF CacheHit, Cache
<1>9. CASE CreateUpdated(r) \/ CreateStale(r)
  <2>1. \A d \in Recipes : exported[d] # Absent => exported'[d] = exported[d]
    BY <1>1, <1>9, InspectEffect DEF CreateUpdated, CreateStale, Kept
  <2>2. bin' = bin
    BY <1>9 DEF CreateUpdated, CreateStale, Inspect
  <2>3. RecordedNotNewer'
    BY <2>1, <2>2, <1>1, <1>5 DEF RecordedNotNewer
  <2> QED
    BY <2>3, <1>3, <1>9 DEF CreateUpdated, CreateStale
<1>10. CASE RecursionError(r)
  BY <1>2, <1>4, <1>10 DEF RecursionError, Exit
<1>11. CASE BuildRemove(r)
  <2>1. RemovedInv'
    BY <1>6, <1>11 DEF BuildRemove, RemovedInv, Calling
  <2> QED
    BY <2>1, <1>6, <1>11 DEF BuildRemove
<1>12. CASE Upload(r)
  BY <1>2, <1>4, <1>12 DEF Upload
<1>13. ASSUME NEW t \in BuildTypes, stage = t, Calling("build", r)
       PROVE  \A u \in BuildTypes : bin[r][u] # NoBinary => meta[r] <= bin[r][u]
  <2>1. CASE t = "Debug"
    <3>1. exported[r] = Absent
      BY <2>1, <1>1, <1>13 DEF RemovedInv
    <3> QED
      BY <3>1, <1>5
  <2>2. CASE t = "Release"
    <3>1. exported[r] = meta[r]
      BY <2>2, <1>1, <1>13 DEF StageInv
    <3> QED
      BY <3>1, <1>1 DEF RecordedNotNewer
  <2> QED
    BY <2>1, <2>2 DEF BuildTypes
<1>14. ASSUME NEW t \in BuildTypes, stage = t, Calling("build", r),
              NEW got \in SUBSET {d \in Recipes : Obtainable(d)},
              NEW source, source # NoBinary => meta[r] <= source,
              NEW binary, binary # NoBinary => meta[r] <= binary,
              ConanCreate(r, t, got, source, binary)
       PROVE  RecordedNotNewer'
  <2>1. meta[r] # Absent
    BY <1>1, <1>14, AllKnown DEF TypeOK, CallSet
  <2>2. \A d \in Recipes \ {r} :
           (\A u \in BuildTypes : bin[d][u] # NoBinary => exported[d] <= bin[d][u])
              => \A u \in BuildTypes : bin'[d][u] # NoBinary => exported'[d] <= bin'[d][u]
    BY <1>1, <1>14, <2>1, CreateEffect
  <2>3. exported'[r] = meta[r] /\ bin'[r] = [bin[r] EXCEPT ![t] = binary]
    BY <1>14 DEF ConanCreate
  <2>4. \A u \in BuildTypes : bin'[r][u] = IF u = t THEN binary ELSE bin[r][u]
    BY <2>3, <1>1 DEF TypeOK
  <2>5. \A u \in BuildTypes : bin'[r][u] # NoBinary => exported'[r] <= bin'[r][u]
    BY <2>3, <2>4, <1>13, <1>14
  <2>6. \A d \in Recipes : \A u \in BuildTypes : bin'[d][u] # NoBinary => exported'[d] <= bin'[d][u]
    BY <2>2, <2>5, <1>1 DEF RecordedNotNewer
  <2> QED
    BY <2>6 DEF RecordedNotNewer
<1>15. ASSUME NEW t \in BuildTypes, BuildSucceeds(r, t)
       PROVE  RecordedNotNewer' /\ RemovedInv'
  <2>1. Requires(r) \in SUBSET {d \in Recipes : Obtainable(d)}
    BY <1>15, RequiresType DEF BuildSucceeds
  <2>2. /\ stage = t /\ Calling("build", r)
        /\ ConanCreate(r, t, Requires(r), SourceCloned(r), SourceCloned(r))
    BY <1>15 DEF BuildSucceeds
  <2>3. stage' # "Debug"
    BY <1>15 DEF BuildSucceeds, AfterBuild
  <2>4. meta[r] <= SourceCloned(r)
    BY <1>1, SourceEffect
  <2> QED
    BY <2>1, <2>2, <2>3, <2>4, <1>2, <1>14
<1>16. ASSUME NEW t \in BuildTypes, BuildFails(r, t)
       PROVE  RecordedNotNewer' /\ RemovedInv'
  <2>1. stage = t /\ Calling("build", r) /\ stage' # "Debug"
    BY <1>16 DEF BuildFails, Exit
  <2>2. /\ meta[r] <= SourceCloned(r)
        /\ SourceKept(r) # NoBinary => meta[r] <= SourceKept(r)
        /\ bin[r][t] # NoBinary => meta[r] <= bin[r][t]
    BY <2>1, <1>1, <1>13, SourceEffect
  <2>3. CASE ConanCreate(r, t, {}, SourceKept(r), bin[r][t])
    <3>1. {} \in SUBSET {d \in Recipes : Obtainable(d)}
      OBVIOUS
    <3> QED
      BY <2>1, <2>2, <2>3, <3>1, <1>2, <1>14
  <2>4. ASSUME NEW got \in SUBSET {d \in Requires(r) : Obtainable(d)},
               ConanCreate(r, t, got, SourceCloned(r), NoBinary)
        PROVE  RecordedNotNewer' /\ RemovedInv'
    <3>1. got \in SUBSET {d \in Recipes : Obtainable(d)}
      BY RequiresType
    <3> QED
      BY <2>1, <2>2, <2>4, <3>1, <1>2, <1>14
  <2> QED
    BY <2>3, <2>4, <1>16 DEF BuildFails
<1>17. CASE CollectLoops(r)
  BY <1>1, <1>4, <1>17 DEF CollectLoops, vars, process, local, RemovedInv, Calling
<1> QED
  BY <1>7, <1>8, <1>9, <1>10, <1>11, <1>12, <1>15, <1>16, <1>17 DEF Run

LEMMA RecordedStep ==
    ASSUME RemovesWork, RecordedInv, [Next]_vars
    PROVE  RecordedNotNewer' /\ RemovedInv'
<1>1. StageInv /\ RecordedNotNewer /\ RemovedInv
  BY DEF RecordedInv, OrderedInv, DoneInv, DataInv
<1>2. ASSUME NEW r \in Recipes, Run(r) PROVE RecordedNotNewer' /\ RemovedInv'
  BY <1>2, RecordedRun
<1>3. UNCHANGED local => RecordedNotNewer'
  BY <1>1 DEF local, RecordedNotNewer
<1>4. UNCHANGED <<local, agenda, stage>> => RemovedInv'
  BY <1>1 DEF local, RemovedInv, Calling
<1>5. CASE Start
  <2>1. agenda = << >> /\ UNCHANGED <<local, stage>>
    BY <1>5 DEF Start, CreateCircle, CreateOne, Started
  <2>2. stage' = "remove"
    BY <2>1, <1>1 DEF StageInv
  <2> QED
    BY <2>1, <2>2, <1>3 DEF RemovedInv
<1>6. ASSUME NEW r \in Recipes, Push(r) PROVE RecordedNotNewer' /\ RemovedInv'
  BY <1>3, <1>4, <1>6 DEF Push, process
<1>7. CASE Crash
  BY <1>3, <1>7 DEF Crash, Exit, RemovedInv
<1>8. CASE UNCHANGED vars
  BY <1>3, <1>4, <1>8 DEF vars, process
<1> QED
  BY <1>2, <1>5, <1>6, <1>7, <1>8 DEF Next

LEMMA RecordedInvariant ==
    ASSUME RemovesWork
    PROVE  Spec => []RecordedInv
<1>1. Init => RecordedInv
  <2>1. Init => RecordedNotNewer /\ RemovedInv
    BY DEF Init, RecordedNotNewer, RemovedInv
  <2>2. Init => OrderInv /\ ObtainedInv
    BY DEF Init, OrderInv, ObtainedInv
  <2>3. Init => OrderedInv
    BY <2>2, TypeInit, AgendaInit, DataInit DEF OrderedInv, DoneInv
  <2> QED
    BY <2>1, <2>3 DEF RecordedInv
<1>2. RecordedInv /\ [Next]_vars => RecordedInv'
  BY RecordedStep, OrderStep, TypeStep, AgendaStep, DataStep
  DEF RecordedInv, OrderedInv, DoneInv
<1> QED
  BY <1>1, <1>2, PTL DEF Spec

\* If conan search and conan remove work: the commit recorded in a local package is never
\* newer than the source of any of its binaries, however the branches move while packages
\* are built and wherever else a command fails or the process is killed.  (RemovedInv is why
\* the assumption is needed: the package a build starts from must be gone.)
THEOREM RecordedNeverNewer ==
    ASSUME RemovesWork
    PROVE  Spec => []RecordedNotNewer
<1>1. RecordedInv => RecordedNotNewer
  BY DEF RecordedInv
<1> QED
  BY <1>1, RecordedInvariant, PTL

LEMMA RecordedDeps == RecordedInv => DepsFresh
<1> SUFFICES ASSUME RecordedInv, NEW r \in Recipes, Calling("build", r), stage = "upload",
                    NEW d \in Deps(r) \ Pinned, NEW t \in BuildTypes
             PROVE  bin[d][t] # NoBinary /\ bin[d][t] >= meta[d]
  BY DEF DepsFresh
<1>1. TypeOK /\ ObtainedInv /\ RecordedNotNewer /\ DepsSettled
  BY OrderedDeps DEF RecordedInv, OrderedInv, DoneInv
<1>2. d \in Requires(r) /\ d \in Recipes
  BY <1>1, RequiresProperties
<1>3. bin[d][t] # NoBinary
  BY <1>1, <1>2 DEF ObtainedInv
<1>4. exported[d] = meta[d] \/ meta[d] = 0
  BY <1>1 DEF DepsSettled, Settled, UpToDate, NoCommit
<1>5. exported[d] <= bin[d][t]
  BY <1>1, <1>2, <1>3 DEF RecordedNotNewer
<1>6. exported[d] \in Int /\ bin[d][t] \in Int /\ 0 <= bin[d][t]
  BY <1>1, <1>2, Values
<1> QED
  BY <1>3, <1>4, <1>5, <1>6

\* If conan search and conan remove work: what is uploaded was built with build_deps that
\* all have both binaries, none older than the commit this run read for them.
THEOREM UploadsAreFresh ==
    ASSUME RemovesWork
    PROVE  Spec => []DepsFresh
  BY RecordedInvariant, RecordedDeps, PTL

-----------------------------------------------------------------------------
(* The builder is a Publisher.                                             *)

\* Nothing was built from a source newer than the branch.
FromBranch ==
    \A r \in Recipes :
        /\ src[r] <= head[r]
        /\ \A t \in BuildTypes : bin[r][t] <= head[r] /\ remoteBin[r][t] <= head[r]

\* What the process has read of a recipe is its checkout, which the remote is not ahead of.
ReadInv ==
    \A r \in Recipes :
        /\ meta[r] = Absent \/ meta[r] = checkout[r]
        /\ checkout[r] = NoCommit \/ remoteRecipe[r] <= checkout[r]

FreshInv == FromBranch /\ ReadInv

\* The local cache of recipe d after a step that leaves the branches alone.
LocalFromBranch(d) == src'[d] <= head[d] /\ \A t \in BuildTypes : bin'[d][t] <= head[d]

LEMMA CreateFromBranch ==
    ASSUME TypeOK, FromBranch, NEW r \in Recipes, NEW t \in BuildTypes, NEW got \in SUBSET Recipes,
           NEW source, source <= head[r], NEW binary, binary <= head[r],
           ConanCreate(r, t, got, source, binary),
           NEW d \in Recipes
    PROVE  LocalFromBranch(d)
<1>1. /\ src[d] <= head[d]
      /\ \A u \in BuildTypes : bin[d][u] <= head[d] /\ remoteBin[d][u] <= head[d]
  BY DEF FromBranch
<1>2. SourceOf(d) <= head[d]
  BY <1>1, Values DEF SourceOf
<1>3. \A u \in BuildTypes : BinaryOf(d, u) <= head[d]
  BY <1>1, <1>2 DEF BinaryOf
<1>4. src' = [q \in Recipes |->
           IF q = r THEN source
           ELSE IF q \in got /\ BuiltMissing(q) THEN SourceOf(q) ELSE src[q]]
  BY DEF ConanCreate
<1>5. src'[d] <= head[d]
  BY <1>1, <1>2, <1>4
<1>6. bin'[d] = IF d = r THEN [bin[r] EXCEPT ![t] = binary]
                ELSE IF d \in got THEN [u \in BuildTypes |-> BinaryOf(d, u)] ELSE bin[d]
  BY DEF ConanCreate
<1>7. bin[d] \in [BuildTypes -> 0..MaxCommit]
  BY DEF TypeOK
<1>8. \A u \in BuildTypes : bin'[d][u] <= head[d]
  <2>1. CASE d = r
    BY <2>1, <1>1, <1>6, <1>7
  <2>2. CASE d # r
    BY <2>2, <1>1, <1>3, <1>6
  <2> QED
    BY <2>1, <2>2
<1> QED
  BY <1>5, <1>8 DEF LocalFromBranch

LEMMA LocalFresh ==
    ASSUME TypeOK, FromBranch, NEW r \in Recipes, Run(r), NEW d \in Recipes
    PROVE  LocalFromBranch(d)
<1>1. /\ src[d] <= head[d]
      /\ \A u \in BuildTypes : bin[d][u] <= head[d]
  BY DEF FromBranch
<1>2. UNCHANGED <<src, bin>> => LocalFromBranch(d)
  BY <1>1 DEF LocalFromBranch
<1>3. ASSUME RemovePackage(r) PROVE LocalFromBranch(d)
  <2>1. CASE Removed(r)
    <3>1. src'[d] = IF d = r THEN NoBinary ELSE src[d]
      BY <2>1 DEF Removed, TypeOK
    <3>2. bin'[d] = IF d = r THEN [t \in BuildTypes |-> NoBinary] ELSE bin[d]
      BY <2>1 DEF Removed, TypeOK
    <3>3. NoBinary <= head[d]
      BY Values DEF NoBinary
    <3> QED
      BY <3>1, <3>2, <3>3, <1>1 DEF LocalFromBranch
  <2> QED
    BY <2>1, <1>2, <1>3 DEF RemovePackage, local
<1>4. /\ SourceKept(r) <= head[r] /\ SourceCloned(r) <= head[r] /\ NoBinary <= head[r]
      /\ \A t \in BuildTypes : bin[r][t] <= head[r]
  <2>1. NoBinary <= head[r] /\ src[r] <= head[r] /\ head[r] <= head[r]
    BY Values DEF NoBinary, FromBranch
  <2>2. SourceKept(r) <= head[r] /\ SourceCloned(r) <= head[r]
    BY <2>1 DEF SourceKept, SourceCloned
  <2> QED
    BY <2>1, <2>2 DEF FromBranch
<1>5. ASSUME NEW t \in BuildTypes, BuildSucceeds(r, t) PROVE LocalFromBranch(d)
  BY <1>4, <1>5, RequiresType, CreateFromBranch DEF BuildSucceeds
<1>6. ASSUME NEW t \in BuildTypes, BuildFails(r, t) PROVE LocalFromBranch(d)
  <2>1. CASE ConanCreate(r, t, {}, SourceKept(r), bin[r][t])
    BY <2>1, <1>4, CreateFromBranch
  <2>2. ASSUME NEW got \in SUBSET {q \in Requires(r) : Obtainable(q)},
               ConanCreate(r, t, got, SourceCloned(r), NoBinary)
        PROVE  LocalFromBranch(d)
    <3>1. got \in SUBSET Recipes
      BY RequiresType
    <3> QED
      BY <3>1, <2>2, <1>4, CreateFromBranch
  <2> QED
    BY <2>1, <2>2, <1>6 DEF BuildFails
<1>7. CASE Purge(r) \/ BuildRemove(r)
  BY <1>3, <1>7 DEF Purge, BuildRemove
<1>8. CASE \/ CacheHit(r) \/ Cache(r) \/ CreateUpdated(r) \/ CreateStale(r)
           \/ RecursionError(r) \/ CollectLoops(r) \/ Upload(r)
  BY <1>2, <1>8 DEF CacheHit, Cache, CreateUpdated, CreateStale, RecursionError,
                    CollectLoops, Upload, Inspect, vars, local
<1> QED
  BY <1>5, <1>6, <1>7, <1>8 DEF Run

\* What an upload finds: this run's commit, and two binaries of sources that are no older.
LEMMA UploadFinds ==
    ASSUME DoneInv, FreshInv, NEW r \in Recipes, Upload(r)
    PROVE  /\ exported[r] = checkout[r]
           /\ exported[r] \in 0..MaxCommit
           /\ exported[r] <= head[r]
           /\ exported[r] = NoCommit \/ remoteRecipe[r] <= exported[r]
           /\ \A t \in BuildTypes :
                 bin[r][t] \in 1..MaxCommit /\ exported[r] <= bin[r][t] /\ bin[r][t] <= head[r]
<1>1. TypeOK /\ AgendaInv /\ LocalInv /\ CommitInv /\ StageInv
  BY DEF DoneInv, DataInv
<1>2. exported[r] = meta[r] /\ \A t \in BuildTypes : Made(r, t)
  BY <1>1 DEF Upload, StageInv, BuildTypes
<1>3. exported[r] # Absent
  BY <1>1, <1>2 DEF LocalInv, Made, BuildTypes
<1>4. exported[r] = checkout[r] /\ (exported[r] = NoCommit \/ remoteRecipe[r] <= exported[r])
  BY <1>2, <1>3 DEF FreshInv, ReadInv
<1>5. checkout[r] \in 0..MaxCommit /\ \A t \in BuildTypes : bin[r][t] \in 0..MaxCommit
  BY <1>1 DEF TypeOK
<1>6. exported[r] <= head[r]
  BY <1>1 DEF CommitInv
<1>7. ASSUME NEW t \in BuildTypes
      PROVE  bin[r][t] \in 1..MaxCommit /\ exported[r] <= bin[r][t] /\ bin[r][t] <= head[r]
  <2>1. bin[r][t] # 0 /\ exported[r] <= bin[r][t]
    BY <1>2 DEF Made, NoBinary
  <2>2. bin[r][t] \in 1..MaxCommit
    BY <1>5, <2>1, CommitAssumption
  <2> QED
    BY <2>1, <2>2 DEF FreshInv, FromBranch
<1> QED
  BY <1>4, <1>5, <1>6, <1>7

LEMMA ReadRun ==
    ASSUME DoneInv, FreshInv, NEW r \in Recipes, Run(r)
    PROVE  ReadInv'
<1>1. TypeOK /\ ReadInv /\ CommitInv
  BY DEF DoneInv, DataInv, FreshInv
<1>2. /\ meta \in [Recipes -> -1..MaxCommit]
      /\ checkout \in [Recipes -> 0..MaxCommit]
      /\ remoteRecipe \in [Recipes -> -1..MaxCommit]
  BY <1>1 DEF TypeOK
<1>3. ASSUME UNCHANGED <<checkout, remoteRecipe>>,
             meta' = meta \/ meta' = [q \in Recipes |-> Absent]
      PROVE  ReadInv'
  BY <1>1, <1>3 DEF ReadInv
<1>4. CASE Cache(r)
  <2>1. remoteRecipe' = remoteRecipe /\ meta' = [meta EXCEPT ![r] = checkout'[r]]
    BY <1>4 DEF Cache, remote
  <2>2. /\ \A q \in Recipes : q # r => checkout'[q] = checkout[q]
        /\ checkout'[r] \in {head[r], checkout[r]}
    BY <1>2, <1>4 DEF Cache
  <2>3. meta[r] = Absent /\ remoteRecipe[r] <= head[r]
    BY <1>1, <1>4 DEF Cache, CommitInv
  <2>4. ASSUME NEW q \in Recipes
        PROVE  /\ meta'[q] = Absent \/ meta'[q] = checkout'[q]
               /\ checkout'[q] = NoCommit \/ remoteRecipe'[q] <= checkout'[q]
    <3>1. CASE q = r
      BY <3>1, <2>1, <2>2, <2>3, <1>1, <1>2 DEF ReadInv
    <3>2. CASE q # r
      BY <3>2, <2>1, <2>2, <1>1, <1>2 DEF ReadInv
    <3> QED
      BY <3>1, <3>2
  <2> QED
    BY <2>4 DEF ReadInv
<1>5. CASE Upload(r)
  <2>1. checkout' = checkout /\ meta' = meta
    BY <1>5 DEF Upload
  <2>2. exported[r] = checkout[r]
    BY <1>5, UploadFinds
  <2>3. \A q \in Recipes : \/ remoteRecipe'[q] = remoteRecipe[q]
                           \/ q = r /\ remoteRecipe'[q] = checkout[q]
    BY <2>2, <1>2, <1>5 DEF Upload, Uploaded, remote
  <2>4. \A q \in Recipes : checkout[q] <= checkout[q]
    BY <1>2
  <2> QED
    BY <2>1, <2>3, <2>4, <1>1 DEF ReadInv
<1>6. ASSUME Run(r), ~Cache(r), ~Upload(r)
      PROVE  /\ UNCHANGED <<checkout, remoteRecipe>>
             /\ meta' = meta \/ meta' = [q \in Recipes |-> Absent]
  BY <1>6 DEF Run, Purge, CacheHit, CreateUpdated, CreateStale, RecursionError, CollectLoops,
              BuildRemove, BuildSucceeds, BuildFails, Exit, vars, process, remote
<1> QED
  BY <1>3, <1>4, <1>5, <1>6

LEMMA RemoteFresh ==
    ASSUME DoneInv, FreshInv, NEW r \in Recipes, Run(r), NEW d \in Recipes, NEW t \in BuildTypes
    PROVE  remoteBin'[d][t] <= head[d]
<1>1. remoteBin[d][t] <= head[d] /\ NoBinary <= head[d]
  BY Values DEF FreshInv, FromBranch, NoBinary, DoneInv
<1>2. CASE UNCHANGED remote
  BY <1>1, <1>2 DEF remote
<1>3. CASE Upload(r)
  <2>1. bin[r][t] <= head[r]
    BY <1>3, UploadFinds
  <2>2. ASSUME NEW types, Uploaded(r, types) PROVE remoteBin'[d][t] <= head[d]
    <3>1. remoteBin'[d][t] \in {remoteBin[d][t], NoBinary} \/ (d = r /\ remoteBin'[d][t] = bin[d][t])
      BY <2>2 DEF Uploaded, DoneInv, TypeOK
    <3> QED
      BY <3>1, <2>1, <1>1
  <2> QED
    BY <2>2, <1>2, <1>3 DEF Upload
<1>4. Upload(r) \/ UNCHANGED remote
  BY DEF Run, Purge, CacheHit, Cache, CreateUpdated, CreateStale, RecursionError, CollectLoops,
         BuildRemove, BuildSucceeds, BuildFails, vars
<1> QED
  BY <1>2, <1>3, <1>4

LEMMA FreshStep == DoneInv /\ FreshInv /\ [Next]_vars => FreshInv'
<1> SUFFICES ASSUME DoneInv, FreshInv, [Next]_vars PROVE FreshInv'
  OBVIOUS
<1>1. TypeOK /\ FromBranch /\ ReadInv
  BY DEF DoneInv, FreshInv
<1>2. ASSUME UNCHANGED <<checkout, remote>>, meta' = meta \/ meta' = [q \in Recipes |-> Absent]
      PROVE  ReadInv'
  BY <1>1, <1>2 DEF ReadInv, remote
<1>3. ASSUME NEW r \in Recipes, Run(r) PROVE FreshInv'
  <2>1. head' = head
    BY <1>3 DEF Run, Purge, CacheHit, Cache, CreateUpdated, CreateStale, RecursionError,
                CollectLoops, BuildRemove, BuildSucceeds, BuildFails, Upload, vars
  <2>2. \A d \in Recipes : LocalFromBranch(d) /\ \A t \in BuildTypes : remoteBin'[d][t] <= head[d]
    BY <1>1, <1>3, LocalFresh, RemoteFresh
  <2> QED
    BY <1>3, <2>1, <2>2, ReadRun DEF FreshInv, FromBranch, LocalFromBranch
<1>4. ASSUME NEW r \in Recipes, Push(r) PROVE FreshInv'
  <2>1. head \in [Recipes -> Commits]
    BY <1>1 DEF TypeOK
  <2>2. \A d \in Recipes : head'[d] \in Int /\ head[d] \in Int /\ head[d] <= head'[d]
    BY <1>4, <2>1, CommitAssumption DEF Push, Commits
  <2>3. FromBranch'
    BY <1>1, <1>4, <2>2, Values DEF Push, FromBranch, local, remote
  <2> QED
    BY <1>2, <1>4, <2>3 DEF Push, FreshInv, process
<1>5. ASSUME UNCHANGED <<head, local, remote>> PROVE FromBranch'
  BY <1>1, <1>5 DEF FromBranch, local, remote
<1>6. CASE Start
  BY <1>2, <1>5, <1>6 DEF Start, CreateCircle, CreateOne, Started, FreshInv
<1>7. CASE Crash
  BY <1>2, <1>5, <1>7 DEF Crash, Exit, FreshInv
<1>8. CASE UNCHANGED vars
  BY <1>2, <1>5, <1>8 DEF vars, process, FreshInv
<1> QED
  BY <1>3, <1>4, <1>6, <1>7, <1>8 DEF Next

LEMMA FreshInit == Init => FreshInv
<1> SUFFICES ASSUME Init PROVE FreshInv
  OBVIOUS
<1>1. FromBranch
  BY DEF Init, FromBranch, NoBinary
<1>2. ReadInv
  BY DEF Init, ReadInv
<1> QED
  BY <1>1, <1>2 DEF FreshInv

LEMMA FreshInvariant == Spec => [](DoneInv /\ FreshInv)
<1>1. Init => FreshInv
  BY FreshInit
<1>2. DoneInv /\ FreshInv /\ [Next]_vars => FreshInv'
  BY FreshStep
<1> QED
  BY <1>1, <1>2, DoneInvariant, PTL DEF Spec

\* The initial states of the builder are those of the Publisher.
LEMMA PublisherInit == Init => Published!Init
BY DEF Init, Published!Init, Absent, Published!Absent, NoBinary, Published!NoBinary,
       BuildTypes, Published!BuildTypes

LEMMA PublisherUpload ==
    ASSUME DoneInv, FreshInv, NEW r \in Recipes, Upload(r)
    PROVE  Published!Next \/ UNCHANGED Published!vars
<1>1. head' = head
  BY DEF Upload
<1>2. CASE UNCHANGED remote
  BY <1>1, <1>2 DEF remote, Published!vars
<1>3. ASSUME NEW types \in SUBSET BuildTypes, Uploaded(r, types) PROVE Published!Next
  <2>1. exported[r] \in 0..MaxCommit
    BY UploadFinds
  <2>2. bin[r] \in [Published!BuildTypes -> Published!Commits]
    <3>1. bin[r] \in [BuildTypes -> 0..MaxCommit]
      BY DEF DoneInv, TypeOK
    <3>2. \A t \in BuildTypes : bin[r][t] \in 1..MaxCommit
      BY UploadFinds
    <3> QED
      BY <3>1, <3>2 DEF Published!BuildTypes, Published!Commits, BuildTypes
  <2>3. exported[r] <= head[r] /\ Published!Forward(r, exported[r])
    BY UploadFinds DEF Published!Forward, Published!NoCommit, NoCommit
  <2>4. \A t \in types : exported[r] <= bin[r][t] /\ bin[r][t] <= head[r]
    BY UploadFinds
  <2>5. remoteBin' = [remoteBin EXCEPT ![r] = [t \in Published!BuildTypes |->
           IF t \in types THEN bin[r][t] ELSE Published!Kept(r, t, exported[r])]]
    BY <1>3 DEF Uploaded, Published!Kept, Published!BuildTypes, BuildTypes, NoBinary,
                Published!NoBinary
  <2>6. remoteRecipe' = [remoteRecipe EXCEPT ![r] = exported[r]]
    BY <1>3 DEF Uploaded
  <2>7. Published!Publish(r, exported[r], types, bin[r])
    BY <1>1, <2>3, <2>4, <2>5, <2>6 DEF Published!Publish
  <2>8. types \in SUBSET Published!BuildTypes
    BY DEF Published!BuildTypes, BuildTypes
  <2> QED
    BY <2>1, <2>2, <2>7, <2>8 DEF Published!Next
<1> QED
  BY <1>2, <1>3 DEF Upload

LEMMA PublisherStep ==
    DoneInv /\ FreshInv /\ [Next]_vars => [Published!Next]_(Published!vars)
<1> SUFFICES ASSUME DoneInv, FreshInv, [Next]_vars
             PROVE  Published!Next \/ UNCHANGED Published!vars
  OBVIOUS
<1>1. ASSUME UNCHANGED <<head, remote>> PROVE UNCHANGED Published!vars
  BY <1>1 DEF remote, Published!vars
<1>2. ASSUME NEW r \in Recipes, Upload(r) PROVE Published!Next \/ UNCHANGED Published!vars
  BY <1>2, PublisherUpload
<1>3. ASSUME NEW r \in Recipes, Run(r), ~Upload(r) PROVE UNCHANGED <<head, remote>>
  BY <1>3 DEF Run, Purge, CacheHit, Cache, CreateUpdated, CreateStale, RecursionError,
              CollectLoops, BuildRemove, BuildSucceeds, BuildFails, vars
<1>4. ASSUME NEW r \in Recipes, Push(r) PROVE Published!Next
  BY <1>4 DEF Push, Published!Push, Published!Next, remote
<1>5. CASE Start \/ Crash \/ UNCHANGED vars
  BY <1>1, <1>5 DEF Start, CreateCircle, CreateOne, Started, Crash, vars
<1> QED
  BY <1>1, <1>2, <1>3, <1>4, <1>5 DEF Next

\* For those who download the builder is a Publisher, for every graph, whatever fails and
\* wherever a run is cut short: an upload is one publication of a commit of the branch with
\* binaries no older than it, and never takes the remote back to an older commit.
THEOREM BuilderIsPublisher == Spec => ImplementsPublisher
<1>1. Init => Published!Init
  BY PublisherInit
<1>2. DoneInv /\ FreshInv /\ [Next]_vars => [Published!Next]_(Published!vars)
  BY PublisherStep
<1> QED
  BY <1>1, <1>2, FreshInvariant, PTL DEF Spec, ImplementsPublisher, Published!Spec

\* What a Publisher keeps on the remote.
StoreInv == RemoteType /\ RemoteNotNewer

LEMMA PublishKeepsStore ==
    ASSUME StoreInv, NEW r \in Recipes, NEW commit \in 0..MaxCommit,
           NEW types \in SUBSET Published!BuildTypes,
           NEW built \in [Published!BuildTypes -> Published!Commits],
           Published!Publish(r, commit, types, built)
    PROVE  StoreInv'
<1>1. /\ remoteRecipe \in [Recipes -> -1..MaxCommit]
      /\ remoteBin \in [Recipes -> [BuildTypes -> 0..MaxCommit]]
  BY DEF StoreInv, RemoteType
<1>2. remoteRecipe' = [remoteRecipe EXCEPT ![r] = commit]
  BY DEF Published!Publish
<1> DEFINE new == [t \in BuildTypes |->
               IF t \in types THEN built[t]
               ELSE IF remoteRecipe[r] = commit THEN remoteBin[r][t] ELSE NoBinary]
<1>3. remoteBin' = [remoteBin EXCEPT ![r] = new]
  BY DEF Published!Publish, Published!Kept, Published!BuildTypes, BuildTypes,
         Published!NoBinary, NoBinary
<1>4. \A t \in BuildTypes : built[t] \in 0..MaxCommit /\ remoteBin[r][t] \in 0..MaxCommit
  BY <1>1 DEF Published!BuildTypes, BuildTypes, Published!Commits
<1>5. new \in [BuildTypes -> 0..MaxCommit]
  BY <1>4, CommitAssumption DEF NoBinary
<1>6. ASSUME NEW t \in BuildTypes, new[t] # NoBinary PROVE commit <= new[t]
  <2>1. CASE t \in types
    BY <2>1 DEF Published!Publish
  <2>2. CASE t \notin types
    BY <2>2, <1>6 DEF StoreInv, RemoteNotNewer
  <2> QED
    BY <2>1, <2>2
<1> HIDE DEF new
<1>7. RemoteType'
  <2>1. commit \in -1..MaxCommit
    BY CommitAssumption
  <2> QED
    BY <2>1, <1>1, <1>2, <1>3, <1>5 DEF RemoteType
<1>8. RemoteNotNewer'
  <2> SUFFICES ASSUME NEW d \in Recipes, NEW t \in BuildTypes, remoteBin'[d][t] # NoBinary
               PROVE  remoteRecipe'[d] <= remoteBin'[d][t]
    BY DEF RemoteNotNewer
  <2>1. CASE d = r
    BY <2>1, <1>1, <1>2, <1>3, <1>6
  <2>2. CASE d # r
    BY <2>2, <1>1, <1>2, <1>3 DEF StoreInv, RemoteNotNewer
  <2> QED
    BY <2>1, <2>2
<1> QED
  BY <1>7, <1>8 DEF StoreInv

\* The abstract specification says enough: RemoteNotNewer holds of every Publisher, so a
\* builder that implements it needs no further argument about what is downloaded.
THEOREM PublishersAreSound == ImplementsPublisher => []RemoteNotNewer
<1>1. Published!Init => StoreInv
  BY CommitAssumption
  DEF Published!Init, StoreInv, RemoteType, RemoteNotNewer, Published!Absent, Published!NoBinary,
      NoBinary, Published!BuildTypes, BuildTypes
<1>2. StoreInv /\ [Published!Next]_(Published!vars) => StoreInv'
  <2> SUFFICES ASSUME StoreInv, [Published!Next]_(Published!vars) PROVE StoreInv'
    OBVIOUS
  <2>1. UNCHANGED <<remoteRecipe, remoteBin>> => StoreInv'
    BY DEF StoreInv, RemoteType, RemoteNotNewer
  <2> QED
    BY <2>1, PublishKeepsStore DEF Published!Next, Published!Push, Published!vars
<1>3. StoreInv => RemoteNotNewer
  BY DEF StoreInv
<1> QED
  BY <1>1, <1>2, <1>3, PTL DEF ImplementsPublisher, Published!Spec
=============================================================================

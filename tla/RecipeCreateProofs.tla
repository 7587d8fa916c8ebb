------------------------- MODULE RecipeCreateProofs -------------------------
(***************************************************************************)
(* Creating the libraries in sequence keeps what the sequence promises,    *)
(* for every graph, request and store and whatever fails.  The worklist    *)
(* runs as in SequenceLibs, so that its theorems hold of it; Planned says  *)
(* what is created in which order, Made what was created already, Marked   *)
(* that nothing else is new, and Sent what was published.                  *)
(***************************************************************************)
EXTENDS RecipeCreate, SequenceLibsProofs

rvars == <<vars, creation>>

-----------------------------------------------------------------------------
(* The worklist.                                                           *)

LEMMA RunsTheWorklist == RecipeSpec => Spec
<1>1. RecipeInit => Init
  BY DEF RecipeInit
<1>2. [RecipeNext]_rvars => [Next]_vars
  BY DEF rvars, vars, RecipeNext, Order, Listed, RemoveOld, Skip, Upload, Create,
         CreateSucceeds, CreateFails, Removed, NextLib, Return
<1> QED
  BY <1>1, <1>2, PTL DEF RecipeSpec, Spec, rvars

\* What SequenceLibsProofs shows of the worklist.
Worklist == TypeOK /\ DependencyFirst /\ ExactlyTheNeeded

LEMMA WorklistHolds == RecipeSpec => []Worklist
BY RunsTheWorklist, TypeCorrect, DependenciesFirst, ReturnsTheNeeded, PTL DEF Worklist

-----------------------------------------------------------------------------
(* What a library needs, and the stores.                                   *)

\* In a list in which everything stands after what it needs directly, it stands after all
\* that it needs.
LEMMA ChainBefore ==
    ASSUME list \in Seq(Libs), DepsBefore(list),
           NEW i \in DOMAIN list, NEW d \in Chain(list[i])
    PROVE  \E j \in DOMAIN list : j < i /\ list[j] = d
<1> DEFINE S == {list[j] : j \in {k \in DOMAIN list : k < i}}
<1>1. DOMAIN list = 1..Len(list) /\ Len(list) \in Nat /\ S \in SUBSET Libs
  OBVIOUS
<1>2. ToSet(libDict[list[i]]) \subseteq S
  BY DEF DepsBefore
<1>3. ASSUME NEW s \in S \cap DOMAIN libDict PROVE ToSet(libDict[s]) \subseteq S
  <2>1. PICK k \in DOMAIN list : k < i /\ list[k] = s
    OBVIOUS
  <2>2. ASSUME NEW e \in ToSet(libDict[s]) PROVE e \in S
    <3>1. PICK j \in DOMAIN list : j < k /\ list[j] = e
      BY <2>1, <2>2 DEF DepsBefore
    <3>2. j < i
      BY <1>1, <2>1, <3>1
    <3> QED
      BY <3>1, <3>2
  <2> QED
    BY <2>2
<1>4. d \in S
  BY <1>1, <1>2, <1>3 DEF Chain
<1> QED
  BY <1>4

StoreType == [Libs -> [BuildTypes -> {"none", "recipe", "old", "new"}]]

LEMMA NewTypes ==
    ASSUME NEW s \in StoreType, NEW v \in Libs
    PROVE  s[v] = AllNew <=> \A t \in BuildTypes : s[v][t] = "new"
BY DEF StoreType, AllNew

\* What the installs bring is what was lacking, and of what v needs.
LEMMA OfBrought ==
    ASSUME cache \in StoreType, remote \in StoreType,
           NEW v \in Libs, NEW some \in SUBSET Lacking(v)
    PROVE  /\ Brought(some) \in StoreType
           /\ \A w \in Libs, u \in BuildTypes :
                \/ Brought(some)[w][u] = cache[w][u]
                \/ w \in Chain(v) /\ cache[w][u] \in NoBinary
<1>1. ASSUME NEW w \in Libs, NEW u \in BuildTypes
      PROVE  /\ Brought(some)[w][u] =
                    IF <<w, u>> \notin some THEN cache[w][u]
                    ELSE IF remote[w][u] \in NoBinary THEN "old" ELSE remote[w][u]
             /\ Brought(some)[w][u] \in {"none", "recipe", "old", "new"}
  BY DEF Brought, StoreType
<1>2. Brought(some) \in StoreType
  BY <1>1 DEF Brought, StoreType
<1>3. \A b \in some : b[1] \in Chain(v) /\ cache[b[1]][b[2]] \in NoBinary
  BY DEF Lacking
<1>4. \A w \in Libs, u \in BuildTypes :
         <<w, u>> \in some => w \in Chain(v) /\ cache[w][u] \in NoBinary
  BY <1>3
<1> QED
  BY <1>1, <1>2, <1>4

\* A create makes its own binary new, and brings what the cache lacks.
LEMMA CacheOfSuccess ==
    ASSUME cache \in StoreType, remote \in StoreType,
           NEW v \in Libs, NEW t \in BuildTypes, CreateSucceeds(v, t)
    PROVE  /\ cache' \in StoreType
           /\ cache'[v][t] = "new"
           /\ \A w \in Libs, u \in BuildTypes :
                /\ cache[w][u] = "new" => cache'[w][u] = "new"
                /\ cache'[w][u] = "new" =>
                     \/ cache[w][u] = "new"
                     \/ w = v /\ u = t
                     \/ w \in Chain(v) /\ cache[w][u] \in NoBinary
<1> DEFINE b == Brought(Lacking(v))
           mine == [cache[v] EXCEPT ![t] = "new"]
<1>1. cache' = [b EXCEPT ![v] = mine]
  BY DEF CreateSucceeds
<1>2. /\ b \in StoreType
      /\ \A w \in Libs, u \in BuildTypes :
           b[w][u] = cache[w][u] \/ (w \in Chain(v) /\ cache[w][u] \in NoBinary)
  BY OfBrought
<1>3. /\ mine \in [BuildTypes -> {"none", "recipe", "old", "new"}]
      /\ \A u \in BuildTypes : mine[u] = IF u = t THEN "new" ELSE cache[v][u]
  BY DEF StoreType
<1> HIDE DEF b, mine
<1>4. /\ cache' \in StoreType
      /\ \A w \in Libs : cache'[w] = IF w = v THEN mine ELSE b[w]
  BY <1>1, <1>2, <1>3 DEF StoreType
<1>5. ASSUME NEW w \in Libs, NEW u \in BuildTypes
      PROVE  cache'[w][u] = IF w = v THEN (IF u = t THEN "new" ELSE cache[v][u]) ELSE b[w][u]
  BY <1>3, <1>4
<1>6. cache[v][t] = "new" \/ cache[v][t] # "new"
  OBVIOUS
<1>7. "new" \notin NoBinary
  BY DEF NoBinary
<1> QED
  BY <1>2, <1>4, <1>5, <1>7

\* A create that fails leaves the binaries alone but that of its own, and may have brought
\* what the cache lacks.
LEMMA CacheOfFailure ==
    ASSUME cache \in StoreType, remote \in StoreType,
           NEW v \in Libs, NEW t \in BuildTypes, CreateFails(v, t)
    PROVE  /\ cache' \in StoreType
           /\ \A w \in Libs, u \in BuildTypes :
                /\ cache'[w][u] = "new" =>
                     \/ cache[w][u] = "new"
                     \/ w \in Chain(v) /\ cache[w][u] \in NoBinary
                /\ cache[w][u] = "new" /\ (w # v \/ u # t) => cache'[w][u] = "new"
<1>1. PICK some \in SUBSET {l \in Lacking(v) : Known(l[1])} :
         cache' \in {Brought(some),
                     [Brought(some) EXCEPT ![v] = [cache[v] EXCEPT ![t] = "recipe"]]}
  BY DEF CreateFails
<1> DEFINE b == Brought(some)
           mine == [cache[v] EXCEPT ![t] = "recipe"]
<1>2. /\ b \in StoreType
      /\ \A w \in Libs, u \in BuildTypes :
           b[w][u] = cache[w][u] \/ (w \in Chain(v) /\ cache[w][u] \in NoBinary)
  BY OfBrought
<1>3. /\ mine \in [BuildTypes -> {"none", "recipe", "old", "new"}]
      /\ \A u \in BuildTypes : mine[u] = IF u = t THEN "recipe" ELSE cache[v][u]
  BY DEF StoreType
<1>4. cache' = b \/ cache' = [b EXCEPT ![v] = mine]
  BY <1>1
<1>5. "new" \notin NoBinary
  BY DEF NoBinary
<1> HIDE DEF b, mine
<1>6. CASE cache' = b
  BY <1>2, <1>5, <1>6
<1>7. CASE cache' = [b EXCEPT ![v] = mine]
  <2>1. /\ cache' \in StoreType
        /\ \A w \in Libs : cache'[w] = IF w = v THEN mine ELSE b[w]
    BY <1>2, <1>3, <1>7 DEF StoreType
  <2>2. ASSUME NEW w \in Libs, NEW u \in BuildTypes
        PROVE  cache'[w][u] = IF w = v THEN (IF u = t THEN "recipe" ELSE cache[v][u]) ELSE b[w][u]
    BY <1>3, <2>1
  <2> QED
    BY <1>2, <1>5, <2>1, <2>2
<1> QED
  BY <1>4, <1>6, <1>7

-----------------------------------------------------------------------------
(* The order of the work.                                                  *)

Planned ==
    /\ phase = "order" => turn = 1
    /\ phase # "order" =>
           /\ type = "sequence" => pc = "done" /\ list = new_result
           /\ type = "patch" => list = libs
    /\ phase \in {"release", "upload", "created"} =>
           turn \in DOMAIN list /\ list[turn] \in DOMAIN libDict
    /\ phase = "upload" => opts.upload
    /\ phase = "returned" => turn \notin DOMAIN list

LEMMA PlanInit == RecipeInit => RecipeTypeOK /\ Planned
<1> SUFFICES ASSUME RecipeInit PROVE RecipeTypeOK /\ Planned
  OBVIOUS
<1>1. cache \in StoreType /\ remote \in StoreType
  BY StoreAssumption DEF RecipeInit, StoreType, BuildTypes
<1>2. list = << >> /\ turn = 1 /\ failed = {} /\ phase = "order"
      /\ type \in {"patch", "sequence"} /\ opts \in Options
  BY DEF RecipeInit
<1>3. turn \in 1..(Len(list) + 1) /\ list \in Seq(Libs)
  BY <1>2
<1>4. RecipeTypeOK
  BY <1>1, <1>2, <1>3 DEF RecipeTypeOK, StoreType
<1> QED
  BY <1>2, <1>4 DEF Planned

\* A list is left as it is once it was made.
LEMMA Place ==
    ASSUME list \in Seq(Libs), turn \in 1..(Len(list) + 1)
    PROVE  /\ DOMAIN list = 1..Len(list) /\ Len(list) \in Nat /\ turn \in Nat
           /\ turn \in DOMAIN list => list[turn] \in Libs /\ turn + 1 \in 1..(Len(list) + 1)
           /\ 1 \in 1..(Len(list) + 1)
           /\ turn \notin DOMAIN list => turn = Len(list) + 1
OBVIOUS

LEMMA PlanStep ==
    Worklist /\ RecipeTypeOK /\ Planned /\ [RecipeNext]_rvars => RecipeTypeOK' /\ Planned'
<1> SUFFICES ASSUME Worklist, RecipeTypeOK, Planned, [RecipeNext]_rvars
             PROVE  RecipeTypeOK' /\ Planned'
  OBVIOUS
<1>t. cache \in StoreType /\ remote \in StoreType
  BY DEF RecipeTypeOK, StoreType
<1>p. /\ DOMAIN list = 1..Len(list) /\ Len(list) \in Nat /\ turn \in Nat
      /\ turn \in DOMAIN list => list[turn] \in Libs /\ turn + 1 \in 1..(Len(list) + 1)
      /\ 1 \in 1..(Len(list) + 1)
  BY Place DEF RecipeTypeOK
<1>1. CASE UNCHANGED rvars
  BY <1>1 DEF rvars, vars, creation, run, stores, RecipeTypeOK, Planned
<1>2. CASE Order
  BY <1>2 DEF Order, creation, run, stores, RecipeTypeOK, Planned
<1>3. CASE Listed
  <2>1. list' \in Seq(Libs) /\ turn' = 1
    BY <1>3 DEF Listed, InOrder, Worklist, TypeOK, Planned
  <2>2. Len(list') \in Nat
    BY <2>1
  <2>3. turn' \in 1..(Len(list') + 1)
    BY <2>1, <2>2
  <2>4. phase' \in {"remove", "create"}
    BY <1>3 DEF Listed
  <2>5. RecipeTypeOK'
    BY <1>3, <2>1, <2>3, <2>4 DEF Listed, run, stores, RecipeTypeOK
  <2>6. Planned'
    BY <1>3, <2>4 DEF Listed, InOrder, vars, run, Planned
  <2> QED
    BY <2>5, <2>6
<1>4. ASSUME NEW v \in Libs, RemoveOld(v) PROVE RecipeTypeOK' /\ Planned'
  <2>1. cache' \in StoreType /\ failed' \subseteq {"remove", "upload"} \X Libs
    <3>1. [t \in BuildTypes |-> "none"] \in [BuildTypes -> {"none", "recipe", "old", "new"}]
      OBVIOUS
    <3> QED
      BY <1>4, <1>t, <3>1 DEF RemoveOld, StoreType, Fails, Works, RecipeTypeOK
  <2>2. phase' = phase /\ phase = "remove" /\ list' = list /\ turn' = turn + 1 /\ turn \in DOMAIN list
    BY <1>4 DEF RemoveOld, AtHand
  <2> QED
    BY <1>4, <1>p, <2>1, <2>2 DEF RemoveOld, vars, run, RecipeTypeOK, Planned, StoreType
<1>5. CASE Removed
  BY <1>5, <1>p DEF Removed, vars, run, stores, RecipeTypeOK, Planned
<1>6. ASSUME NEW v \in Libs, Skip(v) PROVE RecipeTypeOK' /\ Planned'
  BY <1>6, <1>p DEF Skip, AtHand, vars, run, stores, RecipeTypeOK, Planned
<1>7. ASSUME NEW v \in Libs, NEW t \in BuildTypes, CreateSucceeds(v, t)
      PROVE  RecipeTypeOK' /\ Planned'
  <2>1. cache' \in StoreType
    BY <1>7, <1>t, CacheOfSuccess
  <2>2. /\ turn \in DOMAIN list /\ list[turn] \in DOMAIN libDict
        /\ phase # "order"
        /\ phase' \in {"release", "upload", "created"}
        /\ phase' = "upload" => opts.upload
    BY <1>7 DEF CreateSucceeds, Creating, AtHand, After
  <2> QED
    BY <1>7, <2>1, <2>2 DEF CreateSucceeds, vars, run, RecipeTypeOK, Planned, StoreType
<1>8. ASSUME NEW v \in Libs, NEW t \in BuildTypes, CreateFails(v, t)
      PROVE  RecipeTypeOK' /\ Planned'
  <2>1. cache' \in StoreType
    BY <1>8, <1>t, CacheOfFailure
  <2>2. phase # "order" /\ phase' = "failed"
    BY <1>8 DEF CreateFails, Creating, AtHand
  <2> QED
    BY <1>8, <2>1, <2>2 DEF CreateFails, vars, run, RecipeTypeOK, Planned, StoreType
<1>9. ASSUME NEW v \in Libs, Upload(v) PROVE RecipeTypeOK' /\ Planned'
  <2>1. remote' \in StoreType /\ failed' \subseteq {"remove", "upload"} \X Libs
    <3>1. cache[v] \in [BuildTypes -> {"none", "recipe", "old", "new"}]
          /\ remote[v] \in [BuildTypes -> {"none", "recipe", "old", "new"}]
          /\ OnlyRecipe \in [BuildTypes -> {"none", "recipe", "old", "new"}]
      BY <1>t DEF StoreType, OnlyRecipe
    <3>2. remote' = [remote EXCEPT ![v] = cache[v]]
          \/ \E types \in SUBSET BuildTypes : \E others \in {remote[v], OnlyRecipe} :
                remote' = [remote EXCEPT ![v] =
                    [t \in BuildTypes |-> IF t \in types THEN cache[v][t] ELSE others[t]]]
      BY <1>9 DEF Upload
    <3>3. ASSUME NEW b \in [BuildTypes -> {"none", "recipe", "old", "new"}]
          PROVE  [remote EXCEPT ![v] = b] \in StoreType
      BY <1>t, Zenon DEF StoreType
    <3>4. ASSUME NEW types \in SUBSET BuildTypes, NEW others \in {remote[v], OnlyRecipe},
                 remote' = [remote EXCEPT ![v] =
                     [t \in BuildTypes |-> IF t \in types THEN cache[v][t] ELSE others[t]]]
          PROVE  remote' \in StoreType
      <4> DEFINE new == [t \in BuildTypes |-> IF t \in types THEN cache[v][t] ELSE others[t]]
      <4>1. others \in [BuildTypes -> {"none", "recipe", "old", "new"}]
        BY <3>1
      <4>2. \A t \in BuildTypes : cache[v][t] \in {"none", "recipe", "old", "new"}
                                  /\ others[t] \in {"none", "recipe", "old", "new"}
        BY <3>1, <4>1
      <4>3. new \in [BuildTypes -> {"none", "recipe", "old", "new"}]
        BY <4>2
      <4>4. remote' = [remote EXCEPT ![v] = new]
        BY <3>4
      <4> HIDE DEF new
      <4> QED
        BY <3>3, <4>3, <4>4
    <3>5. remote' \in StoreType
      BY <3>1, <3>2, <3>3, <3>4
    <3> QED
      BY <1>9, <3>5 DEF Upload, Fails, Works, RecipeTypeOK
  <2> QED
    BY <1>9, <2>1 DEF Upload, AtHand, vars, run, RecipeTypeOK, Planned, StoreType
<1>10. CASE NextLib
  BY <1>10, <1>p DEF NextLib, vars, run, stores, RecipeTypeOK, Planned
<1>11. CASE Return
  BY <1>11 DEF Return, vars, run, stores, RecipeTypeOK, Planned
<1> QED
  BY <1>1, <1>2, <1>3, <1>4, <1>5, <1>6, <1>7, <1>8, <1>9, <1>10, <1>11
     DEF RecipeNext, Create

\* Types, for every graph, request, store and whatever fails.
THEOREM RecipeTypeCorrect == RecipeSpec => []RecipeTypeOK
<1>1. RecipeSpec => [](RecipeTypeOK /\ Planned)
  BY WorklistHolds, PlanInit, PlanStep, PTL DEF RecipeSpec, rvars
<1> QED
  BY <1>1, PTL

\* Whatever the graph and the request, cyclic ones included: with subs, whole and project no
\* package of cache or remote is touched unless all that is needed can be put in sequence,
\* for the list is complete before the first of it is removed or created.
THEOREM TouchesOnlySequenced == RecipeSpec => OnlySequenced
<1> DEFINE A == type = "sequence" /\ stores' # stores => Sequenceable
           W == pc = "done" => Sequenceable
<1>1. RecipeSpec => [](RecipeTypeOK /\ Planned)
  BY WorklistHolds, PlanInit, PlanStep, PTL DEF RecipeSpec, rvars
<1>2. RecipeSpec => []W
  BY RunsTheWorklist, ReturnsOnlySequenceable, PTL
<1>3. ASSUME Planned, W, [RecipeNext]_rvars PROVE A
  <2>1. phase = "order" => UNCHANGED stores
    BY <1>3 DEF RecipeNext, Order, Listed, RemoveOld, Skip, Upload, Create, CreateSucceeds,
                CreateFails, Creating, AtHand, Removed, NextLib, Return, creation, rvars
  <2> QED
    BY <1>3, <2>1 DEF Planned
<1>4. Planned /\ W /\ [RecipeNext]_rvars => [A]_rvars
  BY <1>3
<1> QED
  BY <1>1, <1>2, <1>4, PTL DEF RecipeSpec, OnlySequenced, rvars

-----------------------------------------------------------------------------
(* What was created.                                                       *)

Working == phase \in {"create", "release", "upload", "created", "returned"}

\* All before the library at hand is new, and of that what was built so far.
Made ==
    Working =>
        /\ \A j \in DOMAIN list : j < turn /\ list[j] \in DOMAIN libDict => IsNew(list[j])
        /\ phase = "release" => cache[list[turn]]["Debug"] = "new"
        /\ phase \in {"upload", "created"} => IsNew(list[turn])

\* The library at hand has this build type.
HasType(t) ==
    phase \in {"upload", "created", "failed"} \/ (phase = "release" /\ t = "Debug")

\* Nothing else is new.
Marked ==
    \A v \in Libs, t \in BuildTypes : cache[v][t] = "new" =>
        /\ phase \notin {"order", "remove"}
        /\ type = "sequence" =>
               \E j \in DOMAIN list : list[j] = v /\ (j < turn \/ (j = turn /\ HasType(t)))

Creation == Made /\ Marked /\ CreatedOnCreated

LEMMA CreationInit == RecipeInit => Creation
<1> SUFFICES ASSUME RecipeInit PROVE Creation
  OBVIOUS
<1>1. phase = "order" /\ \A v \in Libs, t \in BuildTypes : cache[v][t] # "new"
  BY StoreAssumption DEF RecipeInit, BuildTypes
<1> QED
  BY <1>1 DEF Creation, Made, Working, Marked, CreatedOnCreated

\* A step that leaves the binaries, the list and the graph alone.
LEMMA CreationKept ==
    ASSUME RecipeTypeOK, CreatedOnCreated, UNCHANGED <<cache, list, libDict, type>>
    PROVE  CreatedOnCreated'
BY DEF CreatedOnCreated, IsNew, AllNew, Chain

\* In sequence, all that the library at hand needs is new, so that nothing is brought.
LEMMA ChainIsNew ==
    ASSUME Worklist, RecipeTypeOK, Planned, Creation, type = "sequence",
           NEW v \in Libs, NEW t \in BuildTypes, Creating(v, t), NEW d \in Chain(v)
    PROVE  IsNew(d)
<1>1. /\ turn \in DOMAIN list /\ list[turn] = v /\ list \in Seq(Libs)
      /\ phase \in {"create", "release"}
  BY DEF Creating, AtHand, RecipeTypeOK
<1>2. DepsBefore(list)
  BY <1>1 DEF Planned, Worklist, DependencyFirst
<1>3. PICK j \in DOMAIN list : j < turn /\ list[j] = d
  BY <1>1, <1>2, ChainBefore
<1>4. d \in DOMAIN libDict
  BY <1>2, <1>3 DEF DepsBefore
<1> QED
  BY <1>1, <1>3, <1>4 DEF Creation, Made, Working

LEMMA SuccessStep ==
    ASSUME Worklist, RecipeTypeOK, Planned, Creation,
           NEW v \in Libs, NEW t \in BuildTypes, CreateSucceeds(v, t)
    PROVE  Creation'
<1>t. cache \in StoreType /\ remote \in StoreType
  BY DEF RecipeTypeOK, StoreType
<1>p. DOMAIN list = 1..Len(list) /\ Len(list) \in Nat /\ turn \in Nat /\ list \in Seq(Libs)
  BY Place DEF RecipeTypeOK
<1>1. /\ turn \in DOMAIN list /\ list[turn] = v /\ v \in DOMAIN libDict
      /\ phase = (IF t = "Debug" THEN "create" ELSE "release")
      /\ phase' = (IF t = "Debug" THEN "release" ELSE IF opts.upload THEN "upload" ELSE "created")
      /\ UNCHANGED <<vars, run, remote, list, turn, failed>>
  BY DEF CreateSucceeds, Creating, AtHand, After
<1>u. UNCHANGED <<libDict, type, opts>>
  BY <1>1 DEF vars, run
<1>2. /\ cache' \in StoreType
      /\ cache'[v][t] = "new"
      /\ \A w \in Libs, u \in BuildTypes : cache[w][u] = "new" => cache'[w][u] = "new"
      /\ \A w \in Libs, u \in BuildTypes : cache'[w][u] = "new" =>
             \/ cache[w][u] = "new"
             \/ w = v /\ u = t
             \/ w \in Chain(v) /\ cache[w][u] \in NoBinary
  BY <1>t, CacheOfSuccess
<1>3. ASSUME NEW w \in Libs, IsNew(w) PROVE IsNew(w)'
  BY <1>t, <1>2, <1>3, NewTypes DEF IsNew, AllNew
<1>4. Made'
  <2>1. \A j \in DOMAIN list : j < turn /\ list[j] \in DOMAIN libDict => IsNew(list[j])'
    BY <1>1, <1>3, <1>p DEF Creation, Made, Working
  <2>2. phase' = "release" => cache'[list[turn]]["Debug"] = "new"
    BY <1>1, <1>2 DEF BuildTypes
  <2>3. phase' \in {"upload", "created"} => IsNew(v)'
    <3>1. SUFFICES ASSUME phase' # "release" PROVE IsNew(v)'
      OBVIOUS
    <3>2. t = "Release" /\ cache[v]["Debug"] = "new"
      BY <1>1, <3>1 DEF Creation, Made, Working, BuildTypes
    <3>3. \A u \in BuildTypes : cache'[v][u] = "new"
      BY <1>2, <3>2 DEF BuildTypes
    <3> QED
      BY <1>2, <3>3, NewTypes DEF IsNew, AllNew
  <2> QED
    BY <1>1, <1>u, <2>1, <2>2, <2>3 DEF Made, IsNew, AllNew
<1>5. ASSUME type = "sequence", NEW d \in Chain(v) PROVE IsNew(d)
  BY <1>5, ChainIsNew DEF CreateSucceeds
<1>6. ASSUME type = "sequence", NEW w \in Libs, NEW u \in BuildTypes, cache'[w][u] = "new"
      PROVE  cache[w][u] = "new" \/ (w = v /\ u = t)
  <2>1. CASE w \in Chain(v) /\ cache[w][u] \in NoBinary
    <3>1. cache[w][u] = "new"
      BY <1>5, <1>6, <1>t, <2>1, NewTypes DEF IsNew
    <3> QED
      BY <2>1, <3>1
  <2> QED
    BY <1>2, <1>6, <2>1
<1>7. Marked'
  <2> SUFFICES ASSUME NEW w \in Libs, NEW u \in BuildTypes, cache'[w][u] = "new",
                      type = "sequence"
               PROVE  \E j \in DOMAIN list : list[j] = w /\ (j < turn \/ (j = turn /\ HasType(u)'))
    BY <1>1, <1>u DEF Marked, HasType
  <2>1. CASE cache[w][u] = "new"
    <3>1. PICK j \in DOMAIN list : list[j] = w /\ (j < turn \/ (j = turn /\ HasType(u)))
      BY <2>1 DEF Creation, Marked
    <3>2. HasType(u) => HasType(u)'
      BY <1>1 DEF HasType
    <3> QED
      BY <3>1, <3>2
  <2>2. CASE w = v /\ u = t
    <3>1. HasType(u)'
      BY <1>1, <2>2 DEF HasType
    <3> QED
      BY <1>1, <2>2, <3>1
  <2> QED
    BY <1>6, <2>1, <2>2
<1>8. CreatedOnCreated'
  <2> SUFFICES ASSUME NEW w \in Libs, NEW u \in BuildTypes, cache'[w][u] = "new",
                      type = "sequence"
               PROVE  w \in DOMAIN libDict /\ \A d \in Chain(w) : IsNew(d)'
    BY <1>u DEF CreatedOnCreated, Chain
  <2>1. w \in DOMAIN libDict /\ \A d \in Chain(w) : IsNew(d)
    <3>1. CASE cache[w][u] = "new"
      BY <3>1 DEF Creation, CreatedOnCreated
    <3>2. CASE w = v
      BY <1>1, <1>5, <3>2
    <3> QED
      BY <1>6, <3>1, <3>2
  <2> QED
    BY <1>3, <2>1 DEF Chain
<1> QED
  BY <1>4, <1>7, <1>8 DEF Creation

LEMMA FailureStep ==
    ASSUME Worklist, RecipeTypeOK, Planned, Creation,
           NEW v \in Libs, NEW t \in BuildTypes, CreateFails(v, t)
    PROVE  Creation'
<1>t. cache \in StoreType /\ remote \in StoreType
  BY DEF RecipeTypeOK, StoreType
<1>p. DOMAIN list = 1..Len(list) /\ Len(list) \in Nat /\ turn \in Nat
  BY Place DEF RecipeTypeOK
<1>1. /\ turn \in DOMAIN list /\ list[turn] = v /\ v \in DOMAIN libDict
      /\ phase = (IF t = "Debug" THEN "create" ELSE "release") /\ phase' = "failed"
      /\ UNCHANGED <<vars, run, remote, list, turn, failed>>
  BY DEF CreateFails, Creating, AtHand
<1>u. UNCHANGED <<libDict, type, opts>>
  BY <1>1 DEF vars, run
<1>2. /\ cache' \in StoreType
      /\ \A w \in Libs, u \in BuildTypes :
           /\ cache'[w][u] = "new" =>
                \/ cache[w][u] = "new"
                \/ w \in Chain(v) /\ cache[w][u] \in NoBinary
           /\ cache[w][u] = "new" /\ (w # v \/ u # t) => cache'[w][u] = "new"
  BY <1>t, CacheOfFailure
<1>d. ASSUME type = "sequence", NEW w \in Libs, NEW u \in BuildTypes, cache'[w][u] = "new"
      PROVE  cache[w][u] = "new"
  <2>1. CASE w \in Chain(v) /\ cache[w][u] \in NoBinary
    <3>1. IsNew(w)
      BY <1>d, <2>1, ChainIsNew DEF CreateFails
    <3> QED
      BY <1>t, <3>1, NewTypes DEF IsNew
  <2> QED
    BY <1>2, <1>d, <2>1
\* The library at hand comes once in the sequence, so that this build type is not new.
<1>3. ASSUME type = "sequence" PROVE cache[v][t] # "new"
  <2>1. \A j \in DOMAIN list : list[j] = v => j = turn
    BY <1>1, <1>3 DEF Planned, Worklist, ExactlyTheNeeded
  <2>2. ~HasType(t)
    BY <1>1 DEF HasType
  <2>3. \A j \in DOMAIN list : j = turn => ~(j < turn)
    BY <1>p
  <2> QED
    BY <1>3, <2>1, <2>2, <2>3 DEF Creation, Marked
<1>4. ASSUME type = "sequence", NEW w \in Libs, IsNew(w) PROVE IsNew(w)'
  <2>1. w # v
    BY <1>3, <1>4, <1>t, NewTypes DEF IsNew
  <2> QED
    BY <1>2, <1>4, <1>t, <2>1, NewTypes DEF IsNew, AllNew
<1>5. Made'
  BY <1>1 DEF Made, Working
<1>6. Marked'
  <2> SUFFICES ASSUME NEW w \in Libs, NEW u \in BuildTypes, cache[w][u] = "new",
                      type = "sequence"
               PROVE  \E j \in DOMAIN list : list[j] = w /\ (j < turn \/ (j = turn /\ HasType(u)'))
    BY <1>1, <1>d, <1>u DEF Marked, HasType
  <2>1. HasType(u)'
    BY <1>1 DEF HasType
  <2> QED
    BY <2>1 DEF Creation, Marked
<1>7. CreatedOnCreated'
  <2> SUFFICES ASSUME NEW w \in Libs, NEW u \in BuildTypes, cache[w][u] = "new",
                      type = "sequence"
               PROVE  w \in DOMAIN libDict /\ \A d \in Chain(w) : IsNew(d)'
    BY <1>d, <1>u DEF CreatedOnCreated, Chain
  <2>1. w \in DOMAIN libDict /\ \A d \in Chain(w) : IsNew(d)
    BY DEF Creation, CreatedOnCreated
  <2> QED
    BY <1>4, <2>1 DEF Chain
<1> QED
  BY <1>5, <1>6, <1>7 DEF Creation

LEMMA CreationStep ==
    Worklist /\ RecipeTypeOK /\ Planned /\ Creation /\ [RecipeNext]_rvars => Creation'
<1> SUFFICES ASSUME Worklist, RecipeTypeOK, Planned, Creation, [RecipeNext]_rvars
             PROVE  Creation'
  OBVIOUS
<1>t. cache \in StoreType
  BY DEF RecipeTypeOK, StoreType
<1>p. DOMAIN list = 1..Len(list) /\ Len(list) \in Nat /\ turn \in Nat
      /\ (turn \notin DOMAIN list => turn = Len(list) + 1)
  BY Place DEF RecipeTypeOK
\* Nothing is new before the first create.
<1>n. phase \in {"order", "remove"} => \A v \in Libs, t \in BuildTypes : cache[v][t] # "new"
  BY DEF Creation, Marked
<1>1. CASE UNCHANGED rvars
  <2>1. UNCHANGED <<cache, list, turn, phase, type, libDict>>
    BY <1>1 DEF rvars, vars, creation, run, stores
  <2> QED
    BY <2>1, CreationKept
       DEF Creation, Made, Working, Marked, HasType, IsNew, AllNew
<1>2. CASE Order
  <2>1. phase = "order" /\ UNCHANGED <<cache, phase>>
    BY <1>2 DEF Order, creation, stores
  <2> QED
    BY <1>n, <2>1 DEF Creation, Made, Working, Marked, CreatedOnCreated
<1>3. CASE Listed
  <2>1. phase = "order" /\ phase' \in {"remove", "create"} /\ cache' = cache /\ turn' = turn
    BY <1>3 DEF Listed, stores
  <2>2. turn' = 1 /\ DOMAIN list' \subseteq Nat \ {0}
    <3>1. list' \in Seq(Libs)
      BY <1>3 DEF Listed, InOrder, Worklist, TypeOK
    <3> QED
      BY <2>1, <3>1 DEF Planned
  <2>3. \A j \in DOMAIN list' : ~(j < turn')
    BY <2>2
  <2> QED
    BY <1>n, <2>1, <2>3 DEF Creation, Made, Working, Marked, CreatedOnCreated
<1>4. ASSUME NEW v \in Libs, RemoveOld(v) PROVE Creation'
  <2>1. phase = "remove" /\ phase' = "remove"
    BY <1>4 DEF RemoveOld, AtHand
  <2>2. ASSUME NEW w \in Libs, NEW t \in BuildTypes PROVE cache'[w][t] # "new"
    <3>1. CASE cache' = cache
      BY <1>n, <2>1, <3>1
    <3>2. CASE cache' = [cache EXCEPT ![v] = [u \in BuildTypes |-> "none"]]
      <4>1. cache'[w] = IF w = v THEN [u \in BuildTypes |-> "none"] ELSE cache[w]
        BY <1>t, <3>2 DEF StoreType
      <4> QED
        BY <1>n, <2>1, <4>1
    <3> QED
      BY <1>4, <3>1, <3>2 DEF RemoveOld
  <2> QED
    BY <2>1, <2>2 DEF Creation, Made, Working, Marked, CreatedOnCreated
<1>5. CASE Removed
  <2>1. phase = "remove" /\ phase' = "create" /\ turn' = 1 /\ UNCHANGED <<cache, list>>
    BY <1>5 DEF Removed, stores
  <2>2. \A j \in DOMAIN list' : ~(j < turn')
    BY <1>p, <2>1
  <2> QED
    BY <1>n, <2>1, <2>2 DEF Creation, Made, Working, Marked, CreatedOnCreated
<1>6. ASSUME NEW v \in Libs, Skip(v) PROVE Creation'
  <2>1. /\ phase = "create" /\ turn \in DOMAIN list /\ list[turn] = v /\ v \notin DOMAIN libDict
        /\ turn' = turn + 1 /\ UNCHANGED <<cache, list, phase, type, libDict>>
    BY <1>6 DEF Skip, AtHand, stores, vars, run
  <2>2. \A j \in DOMAIN list : (j < turn' => j < turn \/ j = turn) /\ (j < turn => j < turn')
    BY <1>p, <2>1
  <2>3. Made'
    BY <2>1, <2>2 DEF Creation, Made, Working, IsNew, AllNew
  <2>4. Marked'
    BY <2>1, <2>2 DEF Creation, Marked, HasType
  <2> QED
    BY <2>1, <2>3, <2>4, CreationKept DEF Creation
<1>7. ASSUME NEW v \in Libs, Upload(v) PROVE Creation'
  <2>1. /\ phase = "upload" /\ phase' = "created"
        /\ UNCHANGED <<cache, list, turn, type, libDict>>
    BY <1>7 DEF Upload, AtHand, vars, run
  <2>2. Made' /\ Marked'
    BY <2>1 DEF Creation, Made, Working, Marked, HasType, IsNew, AllNew
  <2> QED
    BY <2>1, <2>2, CreationKept DEF Creation
<1>8. CASE NextLib
  <2>1. /\ phase = "created" /\ phase' = "create" /\ turn' = turn + 1
        /\ UNCHANGED <<cache, list, type, libDict>>
    BY <1>8 DEF NextLib, stores, vars, run
  <2>2. \A j \in DOMAIN list : (j < turn' => j < turn \/ j = turn) /\ (j <= turn => j < turn')
                                /\ (j < turn => j <= turn) /\ (j = turn => j <= turn)
    BY <1>p, <2>1
  <2>3. Made'
    BY <2>1, <2>2 DEF Creation, Made, Working, IsNew, AllNew
  <2>4. Marked'
    BY <2>1, <2>2 DEF Creation, Marked, HasType
  <2> QED
    BY <2>1, <2>3, <2>4, CreationKept DEF Creation
<1>9. CASE Return
  <2>1. /\ phase = "create" /\ phase' = "returned"
        /\ UNCHANGED <<cache, list, turn, type, libDict>>
    BY <1>9 DEF Return, stores, vars, run
  <2>2. Made' /\ Marked'
    BY <2>1 DEF Creation, Made, Working, Marked, HasType, IsNew, AllNew
  <2> QED
    BY <2>1, <2>2, CreationKept DEF Creation
<1> QED
  BY <1>1, <1>2, <1>3, <1>4, <1>5, <1>6, <1>7, <1>8, <1>9, SuccessStep, FailureStep
     DEF RecipeNext, Create

\* With subs, whole and project a library is only linked with libraries created before it
\* in the same run, on every graph and for every request, over any cache and remote.
THEOREM LinkedWithCreated == RecipeSpec => []CreatedOnCreated
<1>1. RecipeSpec => [](RecipeTypeOK /\ Planned /\ Creation)
  BY WorklistHolds, PlanInit, PlanStep, CreationInit, CreationStep, PTL DEF RecipeSpec, rvars
<1> QED
  BY <1>1, PTL DEF Creation

\* A process that returns has created what it was asked for, and in sequence all that needs.
THEOREM ReturnedCreatedAll == RecipeSpec => []CreatesAll
<1>1. RecipeSpec => [](RecipeTypeOK /\ Planned /\ Creation)
  BY WorklistHolds, PlanInit, PlanStep, CreationInit, CreationStep, PTL DEF RecipeSpec, rvars
<1>2. Worklist /\ RecipeTypeOK /\ Planned /\ Creation => CreatesAll
  <2> SUFFICES ASSUME Worklist, RecipeTypeOK, Planned, Creation, phase = "returned"
               PROVE  \A v \in (IF type = "patch" THEN ToSet(libs) ELSE Needed) \cap DOMAIN libDict :
                          IsNew(v)
    BY DEF CreatesAll
  <2>1. /\ DOMAIN list = 1..Len(list) /\ Len(list) \in Nat
        /\ (turn \notin DOMAIN list => turn = Len(list) + 1)
    BY Place DEF RecipeTypeOK
  <2>2. turn = Len(list) + 1
    BY <2>1 DEF Planned
  <2>3. \A j \in DOMAIN list : j < turn
    BY <2>1, <2>2
  <2>4. \A v \in ToSet(list) \cap DOMAIN libDict : IsNew(v)
    BY <2>3 DEF Creation, Made, Working, ToSet
  <2>5. (IF type = "patch" THEN ToSet(libs) ELSE Needed) = ToSet(list)
    BY DEF RecipeTypeOK, Planned, Worklist, ExactlyTheNeeded
  <2> QED
    BY <2>4, <2>5
<1> QED
  BY <1>1, <1>2, WorklistHolds, PTL
-----------------------------------------------------------------------------
(* What was published.                                                     *)

\* All before the library at hand was uploaded, or its upload failed.
Sent ==
    /\ \A v \in Libs, t \in BuildTypes : remote[v][t] = "new" => phase \notin {"order", "remove"}
    /\ opts.upload /\ Working =>
           /\ \A j \in DOMAIN list : j < turn /\ list[j] \in DOMAIN libDict => Published(list[j])
           /\ phase = "created" => Published(list[turn])

Publication == Sent /\ PublishesWhole

LEMMA PublicationInit == RecipeInit => Publication
<1> SUFFICES ASSUME RecipeInit PROVE Publication
  OBVIOUS
<1>1. phase = "order" /\ \A v \in Libs, t \in BuildTypes : remote[v][t] # "new"
  BY StoreAssumption DEF RecipeInit, BuildTypes
<1> QED
  BY <1>1 DEF Publication, Sent, Working, PublishesWhole

\* A step that publishes nothing.
LEMMA PublicationKept ==
    ASSUME PublishesWhole, UNCHANGED <<remote, failed, libDict, type>>
    PROVE  PublishesWhole'
BY DEF PublishesWhole, Published, AllNew, Chain

LEMMA UploadStep ==
    ASSUME Worklist, RecipeTypeOK, Planned, Creation, Publication, NEW v \in Libs, Upload(v)
    PROVE  Publication'
<1>t. remote \in StoreType
  BY DEF RecipeTypeOK, StoreType
<1>p. DOMAIN list = 1..Len(list) /\ Len(list) \in Nat /\ turn \in Nat /\ list \in Seq(Libs)
  BY Place DEF RecipeTypeOK
<1>1. /\ phase = "upload" /\ phase' = "created"
      /\ turn \in DOMAIN list /\ list[turn] = v /\ v \in DOMAIN libDict /\ opts.upload
      /\ UNCHANGED <<cache, list, turn, libDict, type, opts>>
  BY DEF Upload, AtHand, vars, run, Planned
<1>2. cache[v] = AllNew
  BY <1>1 DEF Creation, Made, Working, IsNew
<1>3. /\ \A w \in Libs : w # v => remote'[w] = remote[w]
      /\ failed \subseteq failed'
      /\ remote'[v] = AllNew \/ <<"upload", v>> \in failed'
  BY <1>2, <1>t DEF Upload, Fails, Works, StoreType
<1>4. ASSUME NEW w \in Libs, Published(w) PROVE Published(w)'
  BY <1>3, <1>4 DEF Published, AllNew
<1>5. Published(v)'
  BY <1>3 DEF Published, AllNew
<1>6. Sent'
  <2>1. \A j \in DOMAIN list : j < turn /\ list[j] \in DOMAIN libDict => Published(list[j])'
    BY <1>1, <1>4, <1>p DEF Publication, Sent, Working
  <2> QED
    BY <1>1, <1>5, <2>1 DEF Sent, Published, AllNew
<1>7. ASSUME NEW d \in Chain(v), type = "sequence" PROVE Published(d)'
  <2>1. DepsBefore(list)
    BY <1>1, <1>7 DEF Planned, Worklist, DependencyFirst
  <2>2. PICK j \in DOMAIN list : j < turn /\ list[j] = d
    BY <1>1, <1>p, <2>1, ChainBefore
  <2>3. d \in DOMAIN libDict /\ d \in Libs
    BY <1>p, <2>1, <2>2 DEF DepsBefore
  <2> QED
    BY <1>1, <1>4, <2>2, <2>3 DEF Publication, Sent, Working
<1>8. PublishesWhole'
  <2> SUFFICES ASSUME NEW w \in Libs, NEW t \in BuildTypes, remote'[w][t] = "new"
               PROVE  /\ Published(w)'
                      /\ type = "sequence" => \A d \in Chain(w) : Published(d)'
    BY <1>1 DEF PublishesWhole, Published, Chain, AllNew
  <2>1. CASE w # v
    <3>1. Published(w) /\ (type = "sequence" => \A d \in Chain(w) : Published(d))
      BY <1>3, <2>1 DEF Publication, PublishesWhole
    <3> QED
      BY <1>4, <3>1 DEF Chain
  <2>2. CASE w = v
    BY <1>5, <1>7, <2>2
  <2> QED
    BY <2>1, <2>2
<1> QED
  BY <1>6, <1>8 DEF Publication

LEMMA PublicationStep ==
    Worklist /\ RecipeTypeOK /\ Planned /\ Creation /\ Publication /\ [RecipeNext]_rvars
        => Publication'
<1> SUFFICES ASSUME Worklist, RecipeTypeOK, Planned, Creation, Publication,
                    [RecipeNext]_rvars
             PROVE  Publication'
  OBVIOUS
<1>p. DOMAIN list = 1..Len(list) /\ Len(list) \in Nat /\ turn \in Nat
      /\ (turn \notin DOMAIN list => turn = Len(list) + 1)
  BY Place DEF RecipeTypeOK
\* Nothing is published before the first create.
<1>n. phase \in {"order", "remove"} => \A v \in Libs, t \in BuildTypes : remote[v][t] # "new"
  BY DEF Publication, Sent
<1>1. CASE UNCHANGED rvars
  <2>1. UNCHANGED <<remote, failed, list, turn, phase, type, opts, libDict>>
    BY <1>1 DEF rvars, vars, creation, run, stores
  <2> QED
    BY <2>1, PublicationKept DEF Publication, Sent, Working, Published, AllNew
<1>2. CASE Order
  <2>1. phase = "order" /\ UNCHANGED <<remote, phase>>
    BY <1>2 DEF Order, creation, stores
  <2> QED
    BY <1>n, <2>1 DEF Publication, Sent, Working, PublishesWhole
<1>3. CASE Listed
  <2>1. /\ phase = "order" /\ phase' \in {"remove", "create"}
        /\ remote' = remote /\ turn' = turn
    BY <1>3 DEF Listed, stores
  <2>2. turn' = 1 /\ DOMAIN list' \subseteq Nat \ {0}
    <3>1. list' \in Seq(Libs)
      BY <1>3 DEF Listed, InOrder, Worklist, TypeOK
    <3> QED
      BY <2>1, <3>1 DEF Planned
  <2>3. \A j \in DOMAIN list' : ~(j < turn')
    BY <2>2
  <2> QED
    BY <1>n, <2>1, <2>3 DEF Publication, Sent, Working, PublishesWhole
<1>4. ASSUME NEW v \in Libs, RemoveOld(v) PROVE Publication'
  <2>1. phase = "remove" /\ phase' = "remove" /\ remote' = remote
    BY <1>4 DEF RemoveOld, AtHand
  <2> QED
    BY <1>n, <2>1 DEF Publication, Sent, Working, PublishesWhole
<1>5. CASE Removed
  <2>1. phase = "remove" /\ phase' = "create" /\ turn' = 1 /\ UNCHANGED <<remote, list>>
    BY <1>5 DEF Removed, stores
  <2>2. \A j \in DOMAIN list' : ~(j < turn')
    BY <1>p, <2>1
  <2> QED
    BY <1>n, <2>1, <2>2 DEF Publication, Sent, Working, PublishesWhole
<1>6. ASSUME NEW v \in Libs, Skip(v) PROVE Publication'
  <2>1. /\ phase = "create" /\ turn \in DOMAIN list /\ list[turn] = v /\ v \notin DOMAIN libDict
        /\ turn' = turn + 1 /\ UNCHANGED <<remote, failed, list, phase, type, opts, libDict>>
    BY <1>6 DEF Skip, AtHand, stores, vars, run
  <2>2. \A j \in DOMAIN list : j < turn' => j < turn \/ j = turn
    BY <1>p, <2>1
  <2>3. Sent'
    BY <2>1, <2>2 DEF Publication, Sent, Working, Published, AllNew
  <2> QED
    BY <2>1, <2>3, PublicationKept DEF Publication
<1>7. ASSUME NEW v \in Libs, NEW t \in BuildTypes, Create(v, t) PROVE Publication'
  <2>1. /\ phase \in {"create", "release"} /\ phase' \in {"release", "upload", "created", "failed"}
        /\ phase' = "created" => ~opts.upload
        /\ UNCHANGED <<remote, failed, list, turn, type, opts, libDict>>
    BY <1>7 DEF Create, CreateSucceeds, CreateFails, Creating, AtHand, After, vars, run
  <2>2. Sent'
    BY <2>1 DEF Publication, Sent, Working, Published, AllNew
  <2> QED
    BY <2>1, <2>2, PublicationKept DEF Publication
<1>8. CASE NextLib
  <2>1. /\ phase = "created" /\ phase' = "create" /\ turn' = turn + 1
        /\ UNCHANGED <<remote, failed, list, type, opts, libDict>>
    BY <1>8 DEF NextLib, stores, vars, run
  <2>2. \A j \in DOMAIN list : j < turn' => j < turn \/ j = turn
    BY <1>p, <2>1
  <2>3. Sent'
    BY <2>1, <2>2 DEF Publication, Sent, Working, Published, AllNew
  <2> QED
    BY <2>1, <2>3, PublicationKept DEF Publication
<1>9. CASE Return
  <2>1. /\ phase = "create" /\ phase' = "returned"
        /\ UNCHANGED <<remote, failed, list, turn, type, opts, libDict>>
    BY <1>9 DEF Return, stores, vars, run
  <2>2. Sent'
    BY <2>1 DEF Publication, Sent, Working, Published, AllNew
  <2> QED
    BY <2>1, <2>2, PublicationKept DEF Publication
<1> QED
  BY <1>1, <1>2, <1>3, <1>4, <1>5, <1>6, <1>7, <1>8, <1>9, UploadStep DEF RecipeNext

\* For every graph, request, cache and remote: of what the run publishes the remote has both
\* build types of this run, and in sequence of all it needs too, except where the upload of
\* the very package that is incomplete failed.
THEOREM PublishedIsWhole == RecipeSpec => []PublishesWhole
<1>1. RecipeSpec => [](RecipeTypeOK /\ Planned /\ Creation /\ Publication)
  BY WorklistHolds, PlanInit, PlanStep, CreationInit, CreationStep,
     PublicationInit, PublicationStep, PTL DEF RecipeSpec, rvars
<1> QED
  BY <1>1, PTL DEF Publication
=============================================================================

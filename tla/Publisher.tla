----------------------------- MODULE Publisher -----------------------------
(***************************************************************************)
(* What the circle builder promises to those who download from the conan   *)
(* remote, without its runs, its caches and its failures: publications are *)
(* single steps, each names a commit of the branch, and carries binaries   *)
(* of sources that are no older.  CircleCreator implements it.             *)
(***************************************************************************)
EXTENDS Integers

CONSTANTS
    Recipes,    \* recipe references
    MaxCommit   \* bound: commits a branch can get

VARIABLES
    head,       \* head[r]: HEAD of the recipe's branch
    recipe,     \* recipe[r]: commit the published recipe names, or Absent
    binaries    \* binaries[r][t]: commit the published binary was built from, or NoBinary

vars == <<head, recipe, binaries>>

Commits    == 1..MaxCommit
NoCommit   == 0
Absent     == -1
NoBinary   == 0
BuildTypes == {"Debug", "Release"}

-----------------------------------------------------------------------------
Init ==
    /\ head = [r \in Recipes |-> 1]
    /\ \E published \in SUBSET Recipes :
           /\ recipe = [r \in Recipes |-> IF r \in published THEN 1 ELSE Absent]
           /\ binaries = [r \in Recipes |-> [t \in BuildTypes |->
                             IF r \in published THEN 1 ELSE NoBinary]]

Push(r) ==
    /\ head[r] < MaxCommit
    /\ head' = [head EXCEPT ![r] = @ + 1]
    /\ UNCHANGED <<recipe, binaries>>

\* A recipe never goes back to an older commit, save to one that names none.
Forward(r, commit) == commit = NoCommit \/ recipe[r] <= commit

\* The binary of type t may stay when a recipe of this commit is published.
Kept(r, t, commit) == IF recipe[r] = commit THEN binaries[r][t] ELSE NoBinary

\* The recipe of a commit is published, with new binaries of some build types; those of
\* the other types stay only if they belong to that very recipe.
Publish(r, commit, types, built) ==
    /\ recipe' = [recipe EXCEPT ![r] = commit]
    /\ commit <= head[r] /\ Forward(r, commit)
    /\ \A t \in types : commit <= built[t] /\ built[t] <= head[r]
    /\ binaries' = [binaries EXCEPT ![r] = [t \in BuildTypes |->
           IF t \in types THEN built[t] ELSE Kept(r, t, commit)]]
    /\ UNCHANGED head

Next ==
    \E r \in Recipes :
        \/ Push(r)
        \/ \E commit \in 0..MaxCommit, types \in SUBSET BuildTypes,
              built \in [BuildTypes -> Commits] : Publish(r, commit, types, built)

Spec == Init /\ [][Next]_vars
=============================================================================

-------------------------- MODULE MCCircleCreator --------------------------
(* Small instances of CircleCreator for TLC.                               *)
EXTENDS CircleCreator

MCRecipes == {"app", "lib", "base"}

\* app needs lib; from its second commit on it also needs base, which lib needs.
MCDepsAt ==
    [r \in MCRecipes |-> [c \in 0..MaxCommit |->
        CASE r = "app" /\ c = 1 -> <<"lib">>
          [] r = "app" /\ c >= 2 -> <<"lib", "base">>
          [] r = "lib" /\ c >= 1 -> <<"base">>
          [] OTHER -> << >>]]

MCRoots == <<"app">>
MCRequested == {"lib"}

\* Two recipes and a library that is never rebuilt, so that more failures fit.
PinnedRecipes == {"app", "lib", "tbb"}
PinnedDepsAt ==
    [r \in PinnedRecipes |-> [c \in 0..MaxCommit |->
        IF r = "app" /\ c >= 1 THEN <<"tbb", "lib">> ELSE << >>]]
MCPinned == {"tbb"}

\* lib needs base, and from its second commit on base needs lib.
CycleDepsAt ==
    [r \in MCRecipes |-> [c \in 0..MaxCommit |->
        CASE r = "app" /\ c >= 1 -> <<"lib">>
          [] r = "lib" /\ c >= 1 -> <<"base">>
          [] r = "base" /\ c >= 2 -> <<"lib">>
          [] OTHER -> << >>]]
=============================================================================

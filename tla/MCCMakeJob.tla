----------------------------- MODULE MCCMakeJob -----------------------------
(* A small instance of CMakeJob for TLC.                                   *)
EXTENDS CMakeJob

MCRecipes == {"app", "lib"}

\* app is built with lib, and linked with it, from its second commit on.
MCDepsAt ==
    [r \in MCRecipes |-> [c \in 0..MaxCommit |->
        IF r = "app" /\ c >= 2 THEN <<"lib">> ELSE << >>]]
MCSearchAt ==
    [r \in MCRecipes |-> [c \in 0..MaxCommit |->
        IF r = "app" /\ c >= 2 THEN {"lib"} ELSE {}]]

MCRoots == <<"app">>
=============================================================================

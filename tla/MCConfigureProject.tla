------------------------- MODULE MCConfigureProject -------------------------
(* A small instance of ConfigureProject for TLC.                           *)
EXTENDS ConfigureProject

MCBuildTypes == {"Debug", "RelWithDebInfo"}
=============================================================================

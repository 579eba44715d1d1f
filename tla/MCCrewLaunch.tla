---------------------------- MODULE MCCrewLaunch ----------------------------
(* CrewLaunch on small instances: a roster of one bridge and one engine.   *)
EXTENDS CrewLaunch, TLC

CONSTANTS c1, c2, c3, p1, bridge, engine

OneOfEach == <<bridge, engine>>

Symmetry == Permutations(Commands)
=============================================================================

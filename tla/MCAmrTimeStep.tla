--------------------------- MODULE MCAmrTimeStep ---------------------------
(* AmrTimeStep for TLC: three levels, with and without subcycling.         *)
EXTENDS AmrTimeStep

ThreeLevelCycles == {<<2, 2>>, <<1, 2>>, <<1, 1>>}
=============================================================================

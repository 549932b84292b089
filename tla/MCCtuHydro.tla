----------------------------- MODULE MCCtuHydro -----------------------------
(* Problems for TLC: one cell that stands out among the cell's neighbours and  *)
(* moves by whole cells or not at all, and a field of constant gradient at     *)
(* half and whole speeds, in two and in three dimensions.                      *)
EXTENDS CtuHydro

Far(n) == [d \in 1..n |-> 9]

Flat(n) == [d \in 1..n |-> 0]

Spikes(n, speeds) ==
    [dims: {n}, v: [1..n -> speeds], carries: {"density", "species"},
     spike: [1..n -> -1..1], gradient: {Flat(n)}]

Ramps(n, speeds) ==
    [dims: {n}, v: [1..n -> speeds], carries: {"density", "species"},
     spike: {Far(n)}, gradient: {[d \in 1..n |-> d]}]

\* In three dimensions the neighbours that the flow brings in, and others.
Reached(x) ==
    \A d \in 1..3 : x.spike[d] \in {0, -(x.v[d] \div 2)}

SomeProblems ==
    Spikes(2, {-2, 0, 2}) \cup Ramps(2, -2..2)
      \cup {x \in Spikes(3, {-2, 2}) : Reached(x)} \cup Ramps(3, {-2, -1, 1})
=============================================================================

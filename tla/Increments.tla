----------------------------- MODULE Increments -----------------------------
(***************************************************************************)
(* The arithmetic of a time step's linear combinations                     *)
(* (MultiFab::LinComb, Saxpy, Copy, Subtract).                             *)
(*                                                                         *)
(* A step combines evaluations: fluxes and sources at the old state, at    *)
(* each new-time sweep, and reaction rates.  A MultiFab that holds a right *)
(* hand side is an increment: the coefficient of every evaluation in it.   *)
(* A new state is S_old + dt * increment, so it is an increment too.       *)
(* Coefficients are counted in halves: 2 stands for 1.0 and 1 for 0.5.     *)
(***************************************************************************)
EXTENDS Integers

CONSTANT MaxSweeps      \* bound on the new-time sweeps of a step
ASSUME SweepsAssumption == MaxSweeps \in Nat \ {0}

\* flux: getMOLSrcTerm; hydro: Godunov; les: an SGS model; ext: any source
\* without face fluxes; react: a reaction rate.
FluxKinds == {"flux", "hydro", "les"}
Kinds     == FluxKinds \cup {"ext", "react"}

\* Sweep 0 evaluates on the old state (for react: the inherited rate).
Sweeps == 0 .. MaxSweeps
Term   == Kinds \X Sweeps
Increment == [Term -> Int]

Zero        == [t \in Term |-> 0]
Only(k, n, w) == [t \in Term |-> IF t = <<k, n>> THEN w ELSE 0]
OnlyIf(on, k, n, w) == IF on THEN Only(k, n, w) ELSE Zero
Plus(f, g)  == [t \in Term |-> f[t] + g[t]]
Minus(f, g) == [t \in Term |-> f[t] - g[t]]
Half(f)     == [t \in Term |-> f[t] \div 2]

\* The coefficients of the trapezoidal rule for one kind: half of the old
\* evaluation, half of the one of the given sweep, nothing of the others.
IsTrapezoid(f, kind, last) ==
  \A n \in Sweeps : f[<<kind, n>>] = (IF n \in {0, last} THEN 1 ELSE 0)

\* The whole weight of a kind lies on the evaluation of one sweep.
IsAll(f, kind, n0) ==
  \A n \in Sweeps : f[<<kind, n>>] = (IF n = n0 THEN 2 ELSE 0)

IsFreeOf(f, kind) == \A n \in Sweeps : f[<<kind, n>>] = 0
=============================================================================

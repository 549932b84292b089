---------------------------- MODULE LineTransport ----------------------------
(* What a line of the one-dimensional turbulence model does with its momentum: *)
(* the implicit molecular diffusion between two eddies                         *)
(* (ODTDiffusion::applyImplicitUniform in its production form) and the moments *)
(* the owner cell returns to the fluxes (ODTMomentExtractor).  Both are shown  *)
(* on three neighbouring segments, which for the moments are the owner's.      *)
(* Density and momentum of a segment are integers, and so is twice the         *)
(* viscosity at a face times dt/dx^2.                                          *)
EXTENDS Integers

CONSTANTS Densities, Momenta,   \* values of a segment
          Viscosities           \* dynamic viscosity of a segment times dt/dx^2

ASSUME TransportAssumption ==
    /\ Densities \subseteq Nat \ {0}
    /\ Momenta \subseteq Int /\ 0 \in Momenta
    /\ Viscosities \subseteq Nat /\ 0 \in Viscosities

VARIABLES rho, rhou, mu         \* of the three segments

column == <<rho, rhou, mu>>

ColumnInit ==
    /\ rho \in [1..3 -> Densities]
    /\ rhou \in [1..3 -> {0}]
    /\ mu \in [1..3 -> {0}]

(* Momentum and viscosity are drawn in two steps, to share the work. *)
DrawMomentum == (\A i \in 1..3 : mu[i] = 0) /\ rhou' \in [1..3 -> Momenta] /\ UNCHANGED <<rho, mu>>

DrawViscosity == (\A i \in 1..3 : mu[i] = 0) /\ mu' \in [1..3 -> Viscosities] /\ UNCHANGED <<rho, rhou>>

ColumnNext == DrawMomentum \/ DrawViscosity

ColumnSpec == ColumnInit /\ [][ColumnNext]_column

-----------------------------------------------------------------------------
(* applyImplicitUniform *)

(* The product of the densities clears every denominator below. *)
P == rho[1] * rho[2] * rho[3]

(* Twice the viscosity at the face above segment f; none at the line's ends. *)
coeff_face(f) == IF f \in 1..2 THEN mu[f] + mu[f + 1] ELSE 0

(* Mutant of row: the momentum itself is diffused, with the viscosity per      *)
(* density of either side (ConservativeVariableNuOnRhoU).                      *)
NuOnRhoU(i) ==
    LET nu(f) == IF f \in 1..2 THEN mu[f] * (P \div rho[f]) + mu[f + 1] * (P \div rho[f + 1]) ELSE 0
    IN  [a |-> - nu(i - 1), b |-> 2 * P + nu(i - 1) + nu(i), c |-> - nu(i)]

(* The matrix row of segment i times 2P: the flux mu d(u)/ds with u = rhou/rho. *)
row(i) ==
    [a |-> IF i > 1 THEN - coeff_face(i - 1) * (P \div rho[i - 1]) ELSE 0,
     b |-> 2 * P + (coeff_face(i - 1) + coeff_face(i)) * (P \div rho[i]),
     c |-> IF i < 3 THEN - coeff_face(i) * (P \div rho[i + 1]) ELSE 0]

Det(d, e, f) == d[1] * (e[2] * f[3] - e[3] * f[2])
              - d[2] * (e[1] * f[3] - e[3] * f[1])
              + d[3] * (e[1] * f[2] - e[2] * f[1])

(* What solveTridiagonalInPlace returns without rounding, over the denominator *)
(* diffused.det.                                                               *)
diffused ==
    LET r1 == row(1)
        r2 == row(2)
        r3 == row(3)
        A == << <<r1.b, r1.c, 0>>, <<r2.a, r2.b, r2.c>>, <<0, r3.a, r3.b>> >>
        rhs == <<2 * P * rhou[1], 2 * P * rhou[2], 2 * P * rhou[3]>>
        Replaced(n) == [i \in 1..3 |-> [A[i] EXCEPT ![n] = rhs[i]]]
        Solved(n) == LET M == Replaced(n) IN Det(M[1], M[2], M[3])
    IN  [det |-> Det(A[1], A[2], A[3]), rhou |-> <<Solved(1), Solved(2), Solved(3)>>]

-----------------------------------------------------------------------------
(* extractDirectionalMomentumColumn *)

mean_rho == rho[1] + rho[2] + rho[3]

mean_rho_u == rhou[1] + rhou[2] + rhou[3]

mean_rho_u_u ==
      rhou[1] * rhou[1] * (P \div rho[1])
    + rhou[2] * rhou[2] * (P \div rho[2])
    + rhou[3] * rhou[3] * (P \div rho[3])

(* Mutant of tau_dd: the mean momentum is not divided by the mean density. *)
NotFavre == 3 * mean_rho_u_u - P * mean_rho_u * mean_rho_u

(* The normal component of the SGS stress, times 3 P and the density's sum. *)
tau_dd == mean_rho_u_u * mean_rho - P * mean_rho_u * mean_rho_u

-----------------------------------------------------------------------------
(* Properties *)

(* The implicit step moves momentum between the segments of a line and neither *)
(* makes nor loses any, whatever their densities.                              *)
DiffusionConserves ==
    LET d == diffused
    IN  d.rhou[1] + d.rhou[2] + d.rhou[3] = d.det * mean_rho_u

(* The momentum equation diffuses velocity: after a step of any length every   *)
(* velocity lies between the velocities the line had, so a line that moves as  *)
(* a whole stays as it is however its density varies.                          *)
DiffusionBoundsVelocity ==
    LET d == diffused
    IN  \A i \in 1..3 :
            /\ \E j \in 1..3 : d.rhou[i] * rho[j] <= d.det * rhou[j] * rho[i]
            /\ \E j \in 1..3 : d.rhou[i] * rho[j] >= d.det * rhou[j] * rho[i]

(* The implicit step is a diffusion of velocity that keeps momentum: dropping  *)
(* either of the densities from a row of the system breaks one or the other.   *)
DiffusionSound == DiffusionConserves /\ DiffusionBoundsVelocity

(* The stress the owner returns along the line is that of fluctuations about   *)
(* the density-weighted mean: never negative, and zero only where the owner's  *)
(* segments move as one.                                                       *)
MomentRealizable ==
    /\ tau_dd >= 0
    /\ tau_dd = 0 <=> \A i, j \in 1..3 : rhou[i] * rho[j] = rhou[j] * rho[i]
=============================================================================

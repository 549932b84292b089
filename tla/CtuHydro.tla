----------------------------- MODULE CtuHydro ------------------------------
(* One hydrodynamic step of a cell by the corner-transport-upwind method       *)
(* (Source/Godunov.cpp, Godunov.H, the update of Hydro.cpp), in the order in   *)
(* which pc_umeth_3D and pc_umeth_2D launch their kernels, for a flow of       *)
(* uniform velocity and pressure without sources, away from walls. What moves  *)
(* is density, a species Y and a linear passive variable L; Riemann's problem  *)
(* then has the upwind state as its answer.                                    *)
(* Velocities are in half cells per step; see Reconstruction for the scaling.  *)
EXTENDS Reconstruction, Boxes

\* Records [dims, v, carries, spike, gradient]: the velocity, and a field with
\* one cell that stands out and a constant gradient. It is the density of a
\* fluid of uniform composition ("density") or the species and the linear
\* variable of a fluid of uniform density ("species").
CONSTANTS Problems, UniformDensity

VARIABLES
    stage,
    problem,
    edge,       \* edge[d][cell]: traced states at the cell's faces, qp below and qm above
    fluxOnce,   \* fluxOnce[d][face]: first fluxes
    fluxTwice,  \* fluxTwice[d][t][face]: fluxes of d after a correction by t
    flux,       \* flux[d][face]: final fluxes
    update      \* the cell after the step

vars == <<stage, problem, edge, fluxOnce, fluxTwice, flux, update>>

-----------------------------------------------------------------------------
dims == problem.dims

Dirs == 1..dims

bx == Cube(dims, 1)
bxg1 == grow(bx, 1)
bxg2 == grow(bx, 2)

e(d) == Unit(dims, d)

Along(x, y) == FoldFunctionOnSet(+, 0, [d \in Dirs |-> x[d] * y[d]], Dirs)

Field(p) == Scale * (Along(problem.gradient, p) + IF p = problem.spike THEN 1 ELSE 0)

rho0(p) == IF problem.carries = "density" THEN 12 * Scale + Field(p) ELSE UniformDensity
Y0(p) == IF problem.carries = "density" THEN 2 ELSE Field(p)
L0(p) == IF problem.carries = "density" THEN 0 ELSE Field(p)

\* The profile of a field along direction d through cell p.
Profile(field(_), p, d) == [i \in Offsets |-> field(Step(p, d, i))]

\* Density alone, where velocity and pressure do not vary.
AtRest(rho) == [rho |-> rho, u |-> 0, v |-> 0, p |-> 0, e |-> 0]

\* The primitive states that PLM traces to the two faces of cell p across d.
EdgeStates(p, d) ==
    LET rho == Profile(rho0, p, d)
        Y == Profile(Y0, p, d)
        L == Profile(L0, p, d)
        u == 2 * problem.v[d]
        gas == pc_plm_d(AtRest(rho[0]), AtRest(plm_slope(rho, 4)),
                        [rho |-> 1, u |-> u, c |-> 1, enth |-> 1])
        species == pc_plm_d_passive(Y, plm_slope(Y, 4), u)
        linear == pc_plm_d_passive(L, plm_slope(L, 4), u)
    IN  [qp |-> [rho |-> gas.qp.rho, Y |-> species.qp, L |-> linear.qp],
         qm |-> [rho |-> gas.qm.rho, Y |-> species.qm, L |-> linear.qm]]

\* The flux through a face: what the flow carries of the upwind state.
pc_cmpflx(states, face, d) ==
    LET u == problem.v[d]
        up == IF u > 0 THEN states[Step(face, d, -1)].qm ELSE states[face].qp
    IN  [rho |-> u * up.rho, rhoY |-> u * up.rho * up.Y, L |-> u * up.L]

\* What a cell loses through its faces across t.
Outflow(f, p, t) ==
    [rho |-> f[Step(p, t, 1)].rho - f[p].rho,
     rhoY |-> f[Step(p, t, 1)].rhoY - f[p].rhoY,
     L |-> f[Step(p, t, 1)].L - f[p].L]

\* Mutant of Lose: the partial density is divided by the old density.
DividedByOld(q, loss, part, weight) ==
    [rho |-> q.rho - loss.rho \div part,
     Y |-> (q.rho * q.Y - loss.rhoY \div part) \div q.rho,
     L |-> weight * q.L - loss.L \div part]

\* A state after part of a transverse loss. The linear variable's weight is
\* the density in pc_transdo_passive and pc_transd_passive, and one in
\* pc_transdd_passive.
Lose(q, loss, part, weight) ==
    LET rho == q.rho - loss.rho \div part
    IN  [rho |-> rho,
         Y |-> (q.rho * q.Y - loss.rhoY \div part) \div rho,
         L |-> weight * q.L - loss.L \div part]

\* Both states of cell p, a third of the time step later.
pc_transdo(states, p, f, t) ==
    LET loss == Outflow(f, p, t)
    IN  [qp |-> Lose(states[p].qp, loss, 6, states[p].qp.rho),
         qm |-> Lose(states[p].qm, loss, 6, states[p].qm.rho)]

\* Both states half a time step later, in three dimensions.
pc_transdd(states, p, f0, t0, f1, t1) ==
    LET loss0 == Outflow(f0, p, t0)
        loss1 == Outflow(f1, p, t1)
        loss == [rho |-> loss0.rho + loss1.rho, rhoY |-> loss0.rhoY + loss1.rhoY,
                 L |-> loss0.L + loss1.L]
    IN  [qp |-> Lose(states[p].qp, loss, 4, 1), qm |-> Lose(states[p].qm, loss, 4, 1)]

\* Both states half a time step later, in two dimensions.
pc_transd(states, p, f, t) ==
    LET loss == Outflow(f, p, t)
    IN  [qp |-> Lose(states[p].qp, loss, 4, states[p].qp.rho),
         qm |-> Lose(states[p].qm, loss, 4, states[p].qm.rho)]

-----------------------------------------------------------------------------
None == <<>>

Init ==
    /\ stage = "trace"
    /\ problem \in Problems
    /\ edge = None /\ fluxOnce = None /\ fluxTwice = None /\ flux = None
    /\ update = None

(* Slopes and traced states on two layers of cells around the box.             *)
Trace ==
    /\ stage = "trace"
    /\ edge' = [d \in Dirs |-> [p \in Indices(bxg2) |-> EdgeStates(p, d)]]
    /\ stage' = "first fluxes"
    /\ UNCHANGED <<problem, fluxOnce, fluxTwice, flux, update>>

FirstFluxes ==
    /\ stage = "first fluxes"
    /\ fluxOnce' = [d \in Dirs |-> [face \in Indices(surroundingNodes(growDim(bxg2, d, -1), d))
                                      |-> pc_cmpflx(edge[d], face, d)]]
    /\ stage' = IF dims = 3 THEN "correct" ELSE "final"
    /\ UNCHANGED <<problem, edge, fluxTwice, flux, update>>

\* The states of direction d corrected by the first flux of direction t (d|t).
TransverseFlux(d, t) ==
    [p \in Indices(growDim(bxg1, d, 1)) |-> pc_transdo(edge[d], p, fluxOnce[t], t)]

(* The interface corrections X|Y, X|Z, Y|X, Y|Z, Z|X and Z|Y and their         *)
(* Riemann problems.                                                           *)
Correct ==
    /\ stage = "correct"
    /\ fluxTwice' = [d \in Dirs |-> [t \in Dirs \ {d} |->
                       LET states == TransverseFlux(d, t)
                       IN  [face \in Indices(surroundingNodes(bxg1, d)) |->
                              pc_cmpflx(states, face, d)]]]
    /\ stage' = "final"
    /\ UNCHANGED <<problem, edge, fluxOnce, flux, update>>

\* The other two directions, in increasing order.
Others(d) == CASE d = 1 -> <<2, 3>> [] d = 2 -> <<1, 3>> [] d = 3 -> <<1, 2>>

\* Mutant of FinalStates: the flux of t0 is the one d itself has corrected.
SelfCorrected(d) ==
    LET t0 == Others(d)[1]
        t1 == Others(d)[2]
    IN  [p \in Indices(growDim(bx, d, 1)) |->
           pc_transdd(edge[d], p, fluxTwice[t0][d], t0, fluxTwice[t1][t0], t1)]

\* X | Y&Z and its companions: d is corrected by the two other directions,
\* each of which was corrected by the third one, never by d.
FinalStates(d) ==
    LET t0 == Others(d)[1]
        t1 == Others(d)[2]
    IN  [p \in Indices(growDim(bx, d, 1)) |->
           pc_transdd(edge[d], p, fluxTwice[t0][t1], t0, fluxTwice[t1][t0], t1)]

\* In two dimensions the first flux of the other direction is the correction.
FinalStates2(d) ==
    [p \in Indices(growDim(bx, d, 1)) |-> pc_transd(edge[d], p, fluxOnce[3 - d], 3 - d)]

FinalFluxes(states) ==
    /\ flux' = [d \in Dirs |-> LET q == states[d]
                               IN  [face \in Indices(surroundingNodes(bx, d)) |->
                                      pc_cmpflx(q, face, d)]]
    /\ stage' = "update"
    /\ UNCHANGED <<problem, edge, fluxOnce, fluxTwice, update>>

Final3D == stage = "final" /\ dims = 3 /\ FinalFluxes([d \in Dirs |-> FinalStates(d)])

Final2D == stage = "final" /\ dims = 2 /\ FinalFluxes([d \in Dirs |-> FinalStates2(d)])

\* The conserved content of cell p at the start.
Conserved(p) ==
    [rho |-> rho0(p), rhoY |-> rho0(p) * Y0(p), L |-> L0(p)]

\* The field's change is half the difference of fluxes, summed over the directions.
pc_update(p) ==
    LET loss == [d \in Dirs |-> Outflow(flux[d], p, d)]
        total(part(_)) == FoldFunctionOnSet(+, 0, [d \in Dirs |-> part(loss[d])], Dirs) \div 2
        rho(x) == x.rho
        rhoY(x) == x.rhoY
        L(x) == x.L
    IN  [rho |-> Conserved(p).rho - total(rho), rhoY |-> Conserved(p).rhoY - total(rhoY),
         L |-> Conserved(p).L - total(L)]

Update ==
    /\ stage = "update"
    /\ update' = pc_update(bx.lo)
    /\ stage' = "done"
    /\ UNCHANGED <<problem, edge, fluxOnce, fluxTwice, flux>>

Done == stage = "done" /\ UNCHANGED vars

Next == Trace \/ FirstFluxes \/ Correct \/ Final3D \/ Final2D \/ Update \/ Done

Spec == Init /\ [][Next]_vars

-----------------------------------------------------------------------------
(* Properties.                                                                 *)

\* Twice the content that arrives in the cell: what lies half of v away, where
\* that is the centre of a cell or the field has no spike.
Arriving(field(_)) ==
    IF \A d \in Dirs : problem.v[d] % 2 = 0
    THEN 2 * field([d \in Dirs |-> -(problem.v[d] \div 2)])
    ELSE 2 * field(bx.lo)
           - Along(problem.v, [d \in Dirs |-> field(e(d)) - field(bx.lo)])

\* A flow carries everything along: by whole cells exactly, also diagonally,
\* and a field of constant gradient exactly at any speed. The corners that a
\* cell's content passes are accounted for by the corrections by thirds and by
\* halves, each with the right neighbours' fluxes and in the right direction.
\* A linear passive variable moves like a species only at density one, by which
\* pc_transdo_passive and pc_transd_passive multiply it.
CtuMovesTheCorner ==
    stage = "done" =>
        /\ 2 * update.rho = Arriving(rho0)
        /\ problem.carries = "species" =>
             /\ 2 * update.rhoY = UniformDensity * Arriving(Y0)
             /\ UniformDensity = 1 => 2 * update.L = Arriving(L0)

\* A fluid of uniform composition keeps it whatever its density does, in the
\* new state and in every flux on the way (Godunov.H divides the corrected
\* partial density by the corrected density, with fluxes of one Riemann
\* problem for both).
ContactKeepsComposition ==
    problem.carries = "density" =>
        LET Carries(f) == \A face \in DOMAIN f : f[face].rhoY = 2 * f[face].rho
        IN  /\ fluxTwice # None =>
                 \A d \in Dirs : \A t \in Dirs \ {d} : Carries(fluxTwice[d][t])
            /\ flux # None => \A d \in Dirs : Carries(flux[d])
            /\ stage = "done" => update.rhoY = 2 * update.rho
=============================================================================

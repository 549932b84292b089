------------------------------- MODULE Stress -------------------------------
(* Molecular and subgrid stresses on the faces of cells in three dimensions    *)
(* (Source/Diffterm.H, Source/GradUtil.H, Source/LES.H). The code writes out   *)
(* each of the three directions, in four copies; here a velocity field with a  *)
(* given gradient is laid over the cells and the copies are compared.          *)
EXTENDS Integers, FiniteSets

CONSTANTS
  Slopes,        \* entries of the velocity gradient
  MaxSlopes      \* how many of them are not zero (a bound for TLC)

ASSUME SlopeAssumption ==
  /\ Slopes \subseteq Int /\ 0 \in Slopes
  /\ MaxSlopes \in 0..9

Axes == 1..3

VARIABLE gradient    \* gradient[c][t]: change of component c from cell to cell along t

StressInit == gradient = [c \in Axes |-> [t \in Axes |-> 0]]

StressNext ==
    \E c, t \in Axes, slope \in Slopes :
      /\ Cardinality({p \in (Axes \X Axes) \ {<<c, t>>} : gradient[p[1]][p[2]] # 0}) < MaxSlopes
      /\ gradient' = [gradient EXCEPT ![c][t] = slope]

StressSpec == StressInit /\ [][StressNext]_gradient

-----------------------------------------------------------------------------
\* Velocity at an offset from the cell above the face.
U(c, p) == gradient[c][1] * p[1] + gradient[c][2] * p[2] + gradient[c][3] * p[3]

Offset(t, n) == [a \in Axes |-> IF a = t THEN n ELSE 0]
Apart(t, n, d) == [Offset(t, n) EXCEPT ![d] = -1]

Sum1(term(_)) == term(1) + term(2) + term(3)
Row(a(_)) == <<a(1), a(2), a(3)>>
Matrix(a(_, _)) == Row(LAMBDA m : Row(LAMBDA n : a(m, n)))
squared(x) == x * x
Sum2(term(_, _)) == Sum1(LAMBDA m : Sum1(LAMBDA n : term(m, n)))

\* The first and the second direction along the faces across d.
c1(d) == IF d = 1 THEN 2 ELSE 1
c2(d) == IF d = 3 THEN 2 ELSE 3

tangential(d) == <<c1(d), c2(d)>>

\* Differences along the face over two cells on both of its sides, six numbers
\* of which the first three are along its first direction; scaled by 4.
pc_compute_tangential_vel_derivs(d) ==
    [m \in 0..5 |->
       LET c == (m % 3) + 1
           t == tangential(d)[(m \div 3) + 1]
       IN  U(c, Offset(t, 1)) + U(c, Apart(t, 1, d)) - U(c, Offset(t, -1)) - U(c, Apart(t, -1, d))]

\* The gradient at a face as the closures put it together, scaled by 4.
faceGradient(d) ==
    LET td == pc_compute_tangential_vel_derivs(d)
        dUdx(n, t) == CASE t = d     -> 4 * (U(n, Offset(d, 0)) - U(n, Offset(d, -1)))
                        [] t = c1(d) -> td[n - 1]
                        [] t = c2(d) -> td[n + 2]
    IN  Matrix(dUdx)

-----------------------------------------------------------------------------
\* The same for the molecular stress next to an embedded boundary: "open" are
\* the sides at which a cell is connected to its neighbour along the face.
weights2 == <<0, 2, 1>>     \* twice the weights of 0, 1 and 2 open sides

OneSided(c, t, p, open) ==
    LET up == IF 1 \in open THEN 1 ELSE 0
        down == IF -1 \in open THEN 1 ELSE 0
    IN  (U(c, [p EXCEPT ![t] = up]) - U(c, [p EXCEPT ![t] = -down])) * weights2[up + down + 1]

cutGradient(d, openAbove, openBelow) ==
    LET dUdx(n, t) ==
          IF t = d THEN 4 * (U(n, Offset(d, 0)) - U(n, Offset(d, -1)))
          ELSE OneSided(n, t, Offset(d, 0), openAbove) + OneSided(n, t, Offset(d, -1), openBelow)
    IN  Matrix(dUdx)

\* The derived fields difference between the cells a cell is connected to.
get_idx(open) == << IF -1 \in open THEN -1 ELSE 0, IF 1 \in open THEN 1 ELSE 0 >>

\* Twice the weight of a difference over two, one and no cells.
get_weight(idx) ==
    LET diff == idx[2] - idx[1]
    IN  IF diff = 0 THEN 0 ELSE IF diff = 1 THEN 2 ELSE 1

Derivative(c, t, open) ==
    get_weight(get_idx(open)) * (U(c, Offset(t, get_idx(open)[2])) - U(c, Offset(t, get_idx(open)[1])))

vorticity(open) ==
    << Derivative(3, 2, open) - Derivative(2, 3, open),
       Derivative(1, 3, open) - Derivative(3, 1, open),
       Derivative(2, 1, open) - Derivative(1, 2, open) >>
derdivu(open) == Sum1(LAMBDA t : Derivative(t, t, open))

\* Mutant of tau: the shear stress takes one of the two derivatives twice.
OneDerivativeTwice(g, d, xi) ==
    LET divu == Sum1(LAMBDA t : g[t][t])
    IN  Row(LAMBDA n : IF n = d THEN 6 * g[d][d] - 2 * divu + 3 * xi * divu ELSE 6 * g[n][d])

\* Components of the molecular stress on a face, scaled by 12; mu = 1.
tau(g, d, xi) ==
    LET divu == Sum1(LAMBDA t : g[t][t])
    IN  Row(LAMBDA n : IF n = d THEN 6 * g[d][d] - 2 * divu + 3 * xi * divu
                       ELSE 3 * (g[d][n] + g[n][d]))

-----------------------------------------------------------------------------
\* Twice the strain, its square, and the trace-free part across d scaled by 3.
strain2(g) == Matrix(LAMBDA m, n : g[m][n] + g[n][m])
SijSij(g) == LET S == strain2(g) IN Sum2(LAMBDA m, n : squared(S[m][n]))

\* Mutant of traceFree: the whole trace is taken from each normal stress.
WholeTrace(g, d) ==
    LET S == strain2(g)
        Skk == Sum1(LAMBDA t : S[t][t])
    IN  Row(LAMBDA n : 3 * S[d][n] - (IF n = d THEN 3 * Skk ELSE 0))

traceFree(g, d) ==
    LET S == strain2(g)
        Skk == Sum1(LAMBDA t : S[t][t])
    IN  Row(LAMBDA n : 3 * S[d][n] - (IF n = d THEN Skk ELSE 0))

\* What a closure computes from the gradient at a face: the direction of the
\* stress (a multiple of alphaij) and what the eddy viscosity is made of, the
\* radicand and the divisor of its square.
get_smagorinsky_sfs_stresses(g, d) ==
    [alphaij |-> traceFree(g, d), radicand |-> SijSij(g), divisor |-> 1]

\* The cell-centred form of the dynamic model; a face gets what its two cells
\* have in common, which on these data is the same.
get_sfs_stresses_cc(d) ==
    LET g == Matrix(LAMBDA n, t : 2 * (U(n, Offset(t, 1)) - U(n, Offset(t, -1))))
    IN  [alphaij |-> traceFree(g, d), radicand |-> SijSij(g), divisor |-> 1]

get_wale_sfs_stresses(g, d) ==
    LET g2 == Matrix(LAMBDA m, n : Sum1(LAMBDA k : g[m][k] * g[k][n]))
        g2kk == Sum1(LAMBDA k : g2[k][k])
        Dij(m, n) == 3 * (g2[m][n] + g2[n][m]) - (IF m = n THEN 2 * g2kk ELSE 0)
        DijDij == Sum2(LAMBDA m, n : squared(Dij(m, n) \div 16))
    IN  [alphaij |-> traceFree(g, d), radicand |-> DijDij, divisor |-> SijSij(g) + DijDij]

get_vreman_sfs_stresses(g, d) ==
    LET beta == Matrix(LAMBDA m, n : Sum1(LAMBDA k : (g[k][m] \div 4) * (g[k][n] \div 4)))
        bbeta == beta[1][1] * beta[2][2] - squared(beta[1][2]) + beta[1][1] * beta[3][3]
                 - squared(beta[1][3]) + beta[2][2] * beta[3][3] - squared(beta[2][3])
        aijaij == Sum2(LAMBDA m, n : squared(g[m][n]))
    IN  [alphaij |-> traceFree(g, d), radicand |-> bbeta, divisor |-> aijaij]

closures(d) ==
    LET g == faceGradient(d)
    IN  << get_smagorinsky_sfs_stresses(g, d), get_wale_sfs_stresses(g, d),
           get_vreman_sfs_stresses(g, d), get_sfs_stresses_cc(d) >>

allClosures == Row(closures)

-----------------------------------------------------------------------------
Sides == (SUBSET {-1, 1}) \ {{}}

\* The properties are about flow that is not uniform.
Sheared == \E c, t \in Axes : gradient[c][t] # 0

(* The two branches of the code that compute the stress of component t on the  *)
(* faces across d and that of d on the faces across t agree, so that no        *)
(* angular momentum is made: for the molecular stress, also where each of the  *)
(* cells at the face has only one open neighbour along it, and for every       *)
(* closure, whose viscosity is the same on the faces of all directions. The    *)
(* dynamic model's stresses at cells are the static model's at the faces.      *)
StressSymmetric ==
    LET closure == allClosures
    IN  Sheared => \A d \in Axes : \A t \in Axes \ {d} :
          /\ \A xi \in {0, 1} : tau(faceGradient(d), d, xi)[t] = tau(faceGradient(t), t, xi)[d]
          /\ \A a \in Sides : cutGradient(d, a, {-side : side \in a}) = faceGradient(t)
          /\ \A m \in 1..4 :
               /\ closure[d][m].alphaij[t] = closure[t][m].alphaij[d]
               /\ closure[d][m].radicand = closure[t][m].radicand
               /\ closure[d][m].divisor = closure[t][m].divisor
          /\ closure[d][4] = closure[d][1]

\* The gradient of the flow as seen from axes that turn with the given rates.
Spin(w) == << <<0, -w[3], w[2]>>, <<w[3], 0, -w[1]>>, <<-w[2], w[1], 0>> >>
Turned(g, w) == Matrix(LAMBDA m, n : g[m][n] + Spin(w)[m][n])

\* How fast the flow turns around an axis, twice.
Curl(w) == (gradient[3][2] - gradient[2][3]) * w[1] + (gradient[1][3] - gradient[3][1]) * w[2]
           + (gradient[2][1] - gradient[1][2]) * w[3]

(* A rotation of the whole fluid makes no stress: what the molecular stress    *)
(* and every closure's direction of stress are does not change when one is     *)
(* added, and a flow that only rotates has neither. Derived fields tell the    *)
(* rotation from the expansion next to the body, too, where a cell has only    *)
(* one open neighbour in a direction.                                          *)
RotationHasNoStress ==
    Sheared => \A d \in Axes, w \in {Offset(t, 1) : t \in Axes} :
      LET g == faceGradient(d)
          turned == Turned(g, w)
      IN  /\ tau(turned, d, 1) = tau(g, d, 1)
          /\ traceFree(turned, d) = traceFree(g, d)
          /\ get_smagorinsky_sfs_stresses(turned, d) = get_smagorinsky_sfs_stresses(g, d)
          /\ \A open \in Sides :
               /\ Sum1(LAMBDA t : vorticity(open)[t] * w[t]) = 2 * Curl(w)
               /\ derdivu(open) = 2 * Sum1(LAMBDA t : gradient[t][t])

(* Stresses are blind to rotation and make none: with the two before, what the *)
(* code adds to the momentum of a fluid keeps its angular momentum.            *)
AngularMomentumKept == StressSymmetric /\ RotationHasNoStress

(* Stress takes energy from the resolved flow and never adds to it: the work   *)
(* of the molecular stress and of the deviatoric stress of every closure on    *)
(* the gradient is not negative. (The isotropic part of a closure, with C_I,   *)
(* is a pressure, which gives energy back where the gas expands.) The square   *)
(* roots the closures take exist, and they divide by zero, 0 / 0, for the      *)
(* uniform flow only.                                                          *)
StressDissipates ==
    LET closure == allClosures
        g == faceGradient(1)
        Work(stress(_)) == Sum2(LAMBDA d, n : stress(d)[n] * g[n][d])
        molecular(d) == tau(g, d, 0)
    IN  Sheared =>
        /\ Work(molecular) >= 0
        /\ \A m \in 1..4 :
             LET subgrid(d) == closure[d][m].alphaij
             IN  /\ Work(subgrid) >= 0
                 /\ closure[1][m].radicand >= 0
                 /\ closure[1][m].divisor # 0
=============================================================================

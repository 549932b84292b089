------------------------------ MODULE CutCells ------------------------------
(* What the code does in a cell that an embedded boundary cuts, in three       *)
(* dimensions and for cubic cells: the stencils for gradients at the wall and  *)
(* for fluxes at the centroids of cut faces (Source/EB.cpp, Source/EB.H), the  *)
(* divergences of the method of lines and of the Godunov scheme with their     *)
(* wall fluxes (MOL.cpp, Hydro.H), the wall's stress, and the mass fractions   *)
(* after a redistribution (Utilities.cpp). Each is done for one cell, and the  *)
(* cases do not interact: "cut" is the case that is looked at.                 *)
EXTENDS Integers

LOCAL INSTANCE Residues

CONSTANTS
  Normals,      \* components of the wall's normal times its area
  Halves,       \* components of centroids, in halves of a cell (of a face)
  Blocked,      \* sets of covered neighbours of a cut cell
  Partials      \* partial densities and their changes

ASSUME CutAssumption ==
  /\ Normals \subseteq Int
  /\ Halves \subseteq -1..1
  /\ Partials \subseteq Int

VARIABLE cut

Directions == 1..3
Vectors(S) == [Directions -> S]
Layers == 0..2
Block == Vectors(Layers)         \* indices of a stencil
Zeros == [d \in Directions |-> 0]
AbsOf(x) == IF x < 0 THEN -x ELSE x
Inner(u, v) == u[1] * v[1] + u[2] * v[2] + u[3] * v[3]

\* C's copysign(1, x) of a component of the normal, which is the negative of a
\* difference divided by an area: a component that vanishes is minus zero.
Sign(x) == IF x > 0 THEN 1 ELSE -1

-----------------------------------------------------------------------------
\* The normal times the wall's area, from the area fractions of the faces
\* below and above in each direction: it points into the gas.
pc_fill_sv_ebg(below, above) == above - below

\* Directions by decreasing component of the normal, the first of equal ones.
idxsort(n) ==
    LET Before(a, b) == AbsOf(n[a]) > AbsOf(n[b]) \/ (AbsOf(n[a]) = AbsOf(n[b]) /\ a < b)
    IN  CHOOSE c \in Vectors(Directions) :
          /\ {c[m] : m \in Directions} = Directions
          /\ Before(c[1], c[2]) /\ Before(c[2], c[3])

\* The interpolation of a parabola through 0, 1 and 2.
Lagrange(y, j) ==
    CASE j = 0 -> Over(Times(y - 1, y - 2), 2)
      [] j = 1 -> -Times(y, y - 2)
      [] j = 2 -> Over(Times(y, y - 1), 2)

\* Mutant of baseOf: the stencil slides, the block it is applied to does not.
baseUnmoved(n, slid) == [d \in Directions |-> Sign(n[d]) - 1]

\* The lowest cell of the block, as seen from the cut cell: one step along the
\* normal to its centre, back to its corner, and the slide.
baseOf(n, slid) ==
    [d \in Directions |-> Sign(n[d]) - 1 - (IF d \in slid THEN Sign(n[d]) ELSE 0)]

\* Johansen and Colella's stencil: the normal's line meets the next two planes
\* of cell centres across its largest component; the values there are
\* interpolated, and a parabola along the line gives the derivative. Distances
\* are fractions of the step from plane to plane along the line, of which the
\* length cancels against the wall's area.
quadraticStencil(n, centroid) ==
    LET c == idxsort(n)
        sgn(m) == Sign(n[c[m]])
        slope(m) == AbsOf(n[c[m]])
        b(m) == centroid[c[m]] * sgn(m)                  \* in halves
        reaches(m, x) == b(m) * slope(1) + (2 * x - b(1)) * slope(m)
        slides(m) == m > 1 /\ \E x \in 1..2 : reaches(m, x) < 0
        along(m, x) == Over(reaches(m, x) + (IF slides(m) THEN 2 * slope(1) ELSE 0), 2 * slope(1))
        e(x) == Over(2 * x - b(1), 2)
        weight(x) == LET y == 3 - x
                     IN  Times(slope(1), Over(e(y), Times(e(x), e(y) - e(x))))
        onPlanes == [x \in 1..2 |-> weight(x)]
        beside == [x \in 1..2, m \in 2..3, j \in Layers |-> Lagrange(along(m, x), j)]
        sten(i) == IF i[1] = 0 THEN 0
                   ELSE Times(onPlanes[i[1]], Times(beside[i[1], 2, i[2]], beside[i[1], 3, i[3]]))
    IN  [base |-> baseOf(n, {c[m] : m \in {k \in 2..3 : slides(k)}}),
         val |-> [p \in Block |-> sten([m \in Directions |-> 1 + sgn(m) * (p[c[m]] - 1)])],
         bcval |-> -Times(slope(1), Over(e(1) + e(2), Times(e(1), e(2))))]

\* The QR decomposition of get_qmat from the sums of the products of distances:
\* squares of the diagonal, the other entries divided by the diagonal.
get_qmat(sum) ==
    LET r11 == sum[1][1]
        r12 == Over(sum[1][2], r11)
        r22 == (sum[2][2] - Times(r12, sum[1][2])) % Prime
        r13 == Over(sum[1][3], r11)
        r23 == Over(sum[2][3] - Times(r12, sum[1][3]), r22)
        r33 == (sum[3][3] - Times(r13, sum[1][3]) - Times(Times(r23, r23), r22)) % Prime
    IN  [r11 |-> r11, r12 |-> r12, r22 |-> r22, r13 |-> r13, r23 |-> r23, r33 |-> r33]

beta(q) == (Times(q.r12, q.r23) - q.r13) % Prime

\* The weight of one neighbour at the distance d.
get_weightvec(d, q) ==
    LET alpha1 == Over(d[1], q.r11)
        alpha2 == Over(d[2] - Times(q.r12, d[1]), q.r22)
        alpha3 == Over(d[3] - Times(q.r23, d[2]) + Times(beta(q), d[1]), q.r33)
    IN  << (alpha1 - Times(q.r12, alpha2) + Times(beta(q), alpha3)) % Prime,
           (alpha2 - Times(q.r23, alpha3)) % Prime, alpha3 >>

\* Least squares over the block's cells that the body does not cover, the cut
\* cell itself left out.
leastSquaresStencil(n, centroid, covered) ==
    LET base == baseOf(n, {})
        offset(p) == [d \in Directions |-> base[d] + p[d]]
        points == {p \in Block : offset(p) # Zeros /\ offset(p) \notin covered}
        delta == [p \in points |-> [d \in Directions |-> Over(2 * offset(p)[d] - centroid[d], 2)]]
        q == get_qmat([a \in Directions |-> [b \in Directions |->
                        Total(points, LAMBDA p : Times(delta[p][a], delta[p][b]))]])
        weights == [p \in points |-> get_weightvec(delta[p], q)]
        along(p) == (Times(weights[p][1], n[1]) + Times(weights[p][2], n[2])
                       + Times(weights[p][3], n[3])) % Prime
        val == [p \in Block |-> IF p \in points THEN along(p) ELSE 0]
    IN  [base |-> base, val |-> val, bcval |-> -Total(points, LAMBDA p : val[p]),
         solvable |-> Invertible(q.r11) /\ Invertible(q.r22) /\ Invertible(q.r33)]

\* The normal derivative times the wall's area of values given on the cells,
\* in halves from the centre of the cut cell, and at the wall's centroid.
pc_apply_eb_boundry_flux_stencil(stencil, value, wall) ==
    (Total(Block, LAMBDA p : Times(stencil.val[p],
                                   value[[d \in Directions |-> 2 * (stencil.base[d] + p[d])]]))
       + Times(wall, stencil.bcval)) % Prime

-----------------------------------------------------------------------------
\* The direction from which the first tangent is made: farthest from the normal.
reference(n) == idxsort(n)[3]

\* Directions along the wall, not normalized: the normal, the reference without its
\* part along the normal, and their cross product.
wallAxes(n) ==
    LET alpha == [d \in Directions |-> IF d = reference(n) THEN 1 ELSE 0]
        t1 == [d \in Directions |-> Inner(n, n) * alpha[d] - Inner(n, alpha) * n[d]]
        t2 == << n[2] * t1[3] - n[3] * t1[2], n[3] * t1[1] - n[1] * t1[3],
                 n[1] * t1[2] - n[2] * t1[1] >>
    IN  << n, t1, t2 >>

\* Layers times the viscous stress on the wall, from the normal derivative of
\* the velocity: turned to the wall's axes, by the viscosities there, and back.
pc_apply_eb_boundry_visc_flux_stencil(n, dUdn, mu, xi) ==
    LET Qt == wallAxes(n)
        tauDotN(m) == Times(IF m = 1 THEN 4 * mu + 3 * xi ELSE 3 * mu,
                            Over(Inner(Qt[m], dUdn), Inner(Qt[m], Qt[m])))
    IN  [d \in Directions |-> Total(Directions, LAMBDA m : Times(Qt[m][d], tauDotN(m)))]

-----------------------------------------------------------------------------
\* A cut face: its area fraction in quarters, its centroid in halves along its
\* two directions, and whether the neighbour on that side is connected. Values
\* are given at the face's centre and those beside it; weights in quarters.
Beside == {<<i, j>> : i \in -1..1, j \in -1..1}

share(i, fraction, side) ==
    CASE i = 0 -> 2 - fraction
      [] i = side -> fraction
      [] OTHER -> 0

\* Of +0 the sign is positive, and nothing depends on it.
side(ct) == IF ct < 0 THEN -1 ELSE 1

\* Mutant of pc_fill_flux_interp_stencil: both shares by the first direction.
firstTwice(face) ==
    [o \in Beside |-> face.area * share(o[1], AbsOf(face.ct[1]), side(face.ct[1]))
                               * share(o[2], AbsOf(face.ct[1]), side(face.ct[2]))]

\* The stencil of the method of lines, with the area fraction in it; scaled 16.
pc_fill_flux_interp_stencil(face) ==
    [o \in Beside |-> face.area * share(o[1], AbsOf(face.ct[1]), side(face.ct[1]))
                               * share(o[2], AbsOf(face.ct[2]), side(face.ct[2]))]

sumBeside(term) ==
    LET row(i) == term[<<i, -1>>] + term[<<i, 0>>] + term[<<i, 1>>]
    IN  row(-1) + row(0) + row(1)

\* What getMOLSrcTerm takes the divergence of; regular faces have no stencil.
pc_apply_face_stencil(face, flux) ==
    LET stencil == pc_fill_flux_interp_stencil(face)
    IN  IF face.area < 4 THEN sumBeside([o \in Beside |-> stencil[o] * flux[o]]) ELSE 16 * flux[<<0, 0>>]

\* And what its registers get: divided by the area fraction again, with which
\* AMReX multiplies; open faces only. Scaled 4.
molRegistered(face, flux) == pc_apply_face_stencil(face, flux) \div face.area

\* eb_compute_div's flux at the centroid: without the neighbours that are not
\* connected; scaled 4. Those of open and of closed faces stay at the centre.
centroidValue(face, flux) ==
    LET fraction(m) == IF face.connected[m] THEN AbsOf(face.ct[m]) ELSE 0
    IN  IF face.area \in {0, 4} THEN 4 * flux[<<0, 0>>]
        ELSE sumBeside([o \in Beside |-> share(o[1], fraction(1), side(face.ct[1]))
                                          * share(o[2], fraction(2), side(face.ct[2])) * flux[o]])

\* Momentum through a wall: the pressure on the area the faces differ by.
pc_compute_hyp_wallflux(axm, axp, p) == (axm - axp) * p

\* The Godunov scheme's divergence across one direction, with the wall's part;
\* the volume's fraction is a common factor. Scaled 16.
eb_compute_div(low, high, fluxlow, fluxhigh, p) ==
    -(high.area * centroidValue(high, fluxhigh) - low.area * centroidValue(low, fluxlow)
      + 4 * pc_compute_hyp_wallflux(low.area, high.area, p))

\* The pressure work in a cut cell; scaled 16.
pc_eb_pdivu(low, high, ulow, uhigh, p) ==
    LET open(face, u) == IF face.area > 0 THEN centroidValue(face, u) ELSE 0
    IN  p * (high.area * open(high, uhigh) - low.area * open(low, ulow))

\* The wall flux of the method of lines, and its divergence; scaled 16.
pc_compute_hyp_mol_flux_eb(low, high, p) == -4 * p * pc_fill_sv_ebg(low.area, high.area)

pc_eb_div(low, high, fluxlow, fluxhigh, ebflux) ==
    -(pc_apply_face_stencil(high, fluxhigh) - pc_apply_face_stencil(low, fluxlow) + ebflux)

-----------------------------------------------------------------------------
Species == 1..3
sumOver(rhoY) == rhoY[1] + rhoY[2] + rhoY[3]

clipped(y, rho) == IF y < 0 THEN 0 ELSE IF y > rho THEN rho ELSE y

\* Conserved quantities other than the partial densities are fractions: "per" is
\* their denominator, which is one until a state is cleaned.
denominator(U) == 2 * U.rho * U.rho

\* Mutant of rescaled: the momentum of the old density.
notRescaled(U, rhoNew) == denominator(U) * U.rhoU

rescaled(U, rhoNew) == 2 * U.rho * rhoNew * U.rhoU

\* Clean where a mass fraction is out of bounds by more than the threshold, in
\* halves. Velocity and specific energies are kept.
clean_massfrac(U, threshold) ==
    LET outside(y) == 2 * y < -threshold * U.rho \/ (2 + threshold) * U.rho < 2 * y
        rhoY == [n \in Species |-> clipped(U.rhoY[n], U.rho)]
        rhoNew == sumOver(rhoY)
        kinNRG == U.rhoU * U.rhoU
        eOld == 2 * U.rho * U.rhoE - kinNRG
    IN  IF \E n \in Species : outside(U.rhoY[n])
        THEN [rhoY |-> rhoY, rho |-> rhoNew, per |-> denominator(U), rhoU |-> rescaled(U, rhoNew),
              rhoe |-> rhoNew * eOld, rhoE |-> rhoNew * eOld + rhoNew * kinNRG]
        ELSE U

\* The density's change is that of the partial densities; the new state of the
\* cells at the body is cleaned and its change taken for the divergence. The
\* time step is the unit.
pc_post_eb_redistribution(U, div, atBody, threshold) ==
    LET rhoY == [n \in Species |-> U.rhoY[n] + div.rhoY[n]]
        scratch == [rhoY |-> rhoY, rho |-> U.rho + sumOver(div.rhoY), per |-> 1,
                    rhoU |-> U.rhoU + div.rhoU, rhoe |-> U.rhoe + div.rhoe, rhoE |-> U.rhoE + div.rhoE]
    IN  IF atBody THEN clean_massfrac(scratch, threshold) ELSE scratch

-----------------------------------------------------------------------------
Uncut == [what |-> "nothing"]

CutInit == cut = Uncut

Wall ==
    \E n \in Vectors(Normals), centroid \in Vectors(Halves), covered \in Blocked :
      /\ n # Zeros
      /\ cut' = [what |-> "wall", normal |-> n, centroid |-> centroid, covered |-> covered]

\* Both neighbours, one, or none; the directions are alike.
Connections == {<<TRUE, TRUE>>, <<TRUE, FALSE>>, <<FALSE, FALSE>>}

Faces ==
    \E low, high \in [area : 0..4, ct : Halves \X Halves, connected : Connections] :
      /\ high.connected = <<TRUE, TRUE>> /\ high.ct[1] = high.ct[2]
      /\ cut' = [what |-> "faces", low |-> low, high |-> high]

Gas ==
    \E rhoY \in [Species -> Partials], change \in [Species -> Partials], threshold \in 0..1 :
      /\ \A n \in Species : rhoY[n] >= 0
      /\ sumOver(rhoY) > 0 /\ sumOver(rhoY) + sumOver(change) > 0
      /\ cut' = [what |-> "gas", change |-> change, threshold |-> threshold,
                 state |-> [rhoY |-> rhoY, rho |-> sumOver(rhoY), rhoU |-> 3, rhoe |-> 5, rhoE |-> 7]]

CutNext == cut = Uncut /\ (Wall \/ Faces \/ Gas)

CutSpec == CutInit /\ [][CutNext]_cut

-----------------------------------------------------------------------------
\* Polynomials by their factors, coordinates or nothing, and their derivative
\* along a vector.
Factors == 0..3
factor(p, a) == IF a = 0 THEN 1 ELSE p[a]
Monomial(p, a, b) == factor(p, a) * factor(p, b)
Slope(p, n, a, b) ==
    (IF a = 0 THEN 0 ELSE n[a] * factor(p, b)) + (IF b = 0 THEN 0 ELSE n[b] * factor(p, a))

(* The wall's gradient is right to the order of its stencil, for every normal  *)
(* and place of the wall in the cell: a parabola's by the quadratic stencil    *)
(* although it slides and is turned, a line's by least squares although the    *)
(* body takes some of the cells, which the stencil then does not touch. The    *)
(* stress made of it does not depend on the tangents the code picks.           *)
WallFluxesExact ==
  cut.what = "wall" =>
    LET n == cut.normal
        exact(stencil, a, b) ==
          Same(pc_apply_eb_boundry_flux_stencil(stencil, [p \in Vectors(-4..4) |-> Monomial(p, a, b)],
                                                Monomial(cut.centroid, a, b)),
               2 * Slope(cut.centroid, n, a, b))
        quadratic == quadraticStencil(n, cut.centroid)
        byLeastSquares == leastSquaresStencil(n, cut.centroid, cut.covered)
        unit(a) == [d \in Directions |-> IF d = a THEN 1 ELSE 0]
    IN  /\ cut.covered = {} =>
             \A a \in Factors, b \in Factors : a <= b => exact(quadratic, a, b)
        /\ byLeastSquares.solvable =>
             /\ \A a \in Factors : exact(byLeastSquares, a, 0)
             /\ \A p \in Block : [d \in Directions |-> byLeastSquares.base[d] + p[d]] \in cut.covered \union {Zeros}
                                  => byLeastSquares.val[p] = 0
        /\ \A a \in Directions, xi \in 0..1 :
             LET stress == pc_apply_eb_boundry_visc_flux_stencil(n, unit(a), 1, xi)
             IN  \A d \in Directions :
                   Same(stress[d], 3 * unit(a)[d] + Times((1 + 3 * xi) * n[d], Over(n[a], Inner(n, n))))

(* Cut faces are treated alike by both schemes: a bilinear flux is taken at    *)
(* the face's centroid, and what the registers get, with the area fraction     *)
(* that AMReX applies, is what the divergence was taken of. A gas at rest      *)
(* under a uniform pressure gets no momentum in any cell: the faces' areas and *)
(* the wall's are balanced, also where neighbours are not connected, and the   *)
(* pressure's work vanishes only where the faces are equal.                    *)
CutFluxesBalance ==
  cut.what = "faces" =>
    LET low == cut.low
        high == cut.high
        bilinear(o, a, b) == (IF a THEN o[1] ELSE 1) * (IF b THEN o[2] ELSE 1)
        one == [o \in Beside |-> 1]
    IN  /\ \A face \in {low, high}, a, b \in BOOLEAN :
             LET F == [o \in Beside |-> bilinear(o, a, b)]
                 value == centroidValue(face, F)
             IN  face.connected = <<TRUE, TRUE>> /\ face.area > 0 =>
                   /\ face.area < 4 => value = (IF a THEN face.ct[1] ELSE 2) * (IF b THEN face.ct[2] ELSE 2)
                   /\ pc_apply_face_stencil(face, F) = face.area * value
                   /\ molRegistered(face, F) = value
        /\ eb_compute_div(low, high, one, one, 1) = 0
        /\ pc_eb_div(low, high, one, one, pc_compute_hyp_mol_flux_eb(low, high, 1)) = 0
        /\ pc_eb_pdivu(low, high, one, one, 1) = 4 * (high.area - low.area)

(* After a redistribution the density is that of the species, no mass fraction *)
(* is out of bounds by more than the threshold, and a cell whose species were  *)
(* clipped keeps its velocity and its specific total energy although its mass  *)
(* grew; its internal energy is what is left of that.                          *)
CleanedStatesConsistent ==
  cut.what = "gas" =>
    LET div == [rhoY |-> cut.change, rhoU |-> 1, rhoe |-> 1, rhoE |-> 2]
        before == pc_post_eb_redistribution(cut.state, div, FALSE, cut.threshold)
        after == pc_post_eb_redistribution(cut.state, div, TRUE, cut.threshold)
    IN  /\ before.rho = sumOver(before.rhoY)
        /\ after.rho = sumOver(after.rhoY) /\ after.rho >= before.rho
        /\ \A n \in Species : /\ 2 * after.rhoY[n] >= -cut.threshold * after.rho
                              /\ 2 * after.rhoY[n] <= (2 + cut.threshold) * after.rho
        /\ after.rhoU * before.rho = after.per * (before.rhoU * after.rho)
        /\ after.rhoE * before.rho = after.per * (before.rhoE * after.rho)
        /\ after # before =>
             2 * after.rho * after.per * (after.rhoE - after.rhoe) = after.rhoU * after.rhoU
=============================================================================

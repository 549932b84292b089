------------------------------ MODULE Stencils ------------------------------
(* The reconstructions of module Reconstruction along a line of cells: a       *)
(* stencil of seven cells moves over arbitrary data, or is laid over cell      *)
(* averages of a polynomial, whose values at the faces are known.              *)
EXTENDS Reconstruction

CONSTANTS
  Values,        \* cell averages of arbitrary data
  Coefficients   \* coefficients of a polynomial, as functions of the power

ASSUME StencilAssumption ==
  /\ Values \subseteq Int /\ 0 \in Values
  /\ Coefficients \subseteq [1..7 -> Int]

VARIABLES
  averages,      \* the cell averages of the stencil
  fitted         \* the polynomial they are the averages of, if any

stencilVars == <<averages, fitted>>

NoData == [d \in Offsets |-> 0]

NoPolynomial == [k \in 1..7 |-> 0]

\* The primitive at the face above offset n, the sum of c[k] n^k by Horner's rule.
Primitive(c, n) ==
    n * (c[1] + n * (c[2] + n * (c[3] + n * (c[4] + n * (c[5] + n * (c[6] + n * c[7]))))))

PolynomialAverages(c) == [d \in Offsets |-> Primitive(c, d) - Primitive(c, d - 1)]

\* Its derivative at the upper and at the lower face of the cell.
UpperEdge(c) == c[1]
LowerEdge(c) == c[1] - 2 * c[2] + 3 * c[3] - 4 * c[4] + 5 * c[5] - 6 * c[6] + 7 * c[7]

\* The polynomial, that is the derivative, has no power above k.
DegreeAtMost(c, k) == \A l \in (k + 2)..7 : c[l] = 0

StencilInit == averages = NoData /\ fitted = NoPolynomial

\* The stencil moves on by one cell.
Slide == /\ fitted = NoPolynomial
         /\ \E x \in Values :
              averages' = [d \in Offsets |-> IF d = 3 THEN x ELSE averages[d + 1]]
         /\ UNCHANGED fitted

Fit == /\ averages = NoData
       /\ \E c \in Coefficients :
            /\ c # NoPolynomial
            /\ fitted' = c
            /\ averages' = PolynomialAverages(c)

StencilNext == Slide \/ Fit

StencilSpec == StencilInit /\ [][StencilNext]_stencilVars

-----------------------------------------------------------------------------
Scaled == [d \in Offsets |-> Scale * averages[d]]

Mirrored(t) == [d \in Offsets |-> t[-d]]

Within(x, a, b) == Lesser(a, b) <= x /\ x <= Greater(a, b)

\* On cells of one value there is nothing to reconstruct.
Varies == averages # NoData

\* Slopes and parabolas look two cells to either side.
FiveCellsVary == Varies /\ fitted = NoPolynomial /\ averages[-3] = 0 /\ averages[3] = 0

\* Coverings of the stencil by the body, speeds in quarter cells a step, and
\* gases that flow slower and faster than sound in either direction.
Speeds == {-4, -1, 0, 2, 4}
FlowingGases ==
    {[rho |-> 1, u |-> g[1], c |-> g[2], enth |-> 2] :
        g \in {<<0, 1>>, <<1, 2>>, <<-1, 2>>, <<2, 1>>, <<-2, 1>>}}
Coverings == {{}, {-3}, {-2}, {-1}, {1}, {2}, {3}, {-1, 1}, {-2, 2}}

(* A limited profile stays within the averages of the cells it was built from: *)
(* each face value lies between the cell and its neighbour there, whatever the *)
(* order, the open neighbours or the flattening, and a slope next to the body  *)
(* does not change with the values inside it.                                  *)
EdgesBetweenNeighbours ==
  LET q == Scaled
      Bounded(slope) == /\ Within(2 * q[0] + slope, 2 * q[0], 2 * q[1])
                        /\ Within(2 * q[0] - slope, 2 * q[0], 2 * q[-1])
  IN Varies /\ fitted = NoPolynomial =>
     /\ \A order \in {1, 2, 4} : Bounded(plm_slope(q, order))
     /\ \A covered \in Coverings, order \in {1, 2, 4} :
           /\ Bounded(plm_slope_eb(q, covered, order))
           /\ \A d \in covered : plm_slope_eb([q EXCEPT ![d] = 0], covered, order)
                                   = plm_slope_eb(q, covered, order)
     /\ \A open \in SUBSET {-1, 1} : LET slope == mol_slope(q, open) IN
           /\ 1 \in open => Within(2 * q[0] + slope, 2 * q[0], 2 * q[1])
           /\ -1 \in open => Within(2 * q[0] - slope, 2 * q[0], 2 * q[-1])
           /\ open # {-1, 1} => slope = 0
     /\ \A flat2 \in 0..2 : LET edges == ppm_reconstruct(q, flat2) IN
           /\ Within(edges.sp, q[0], q[1]) /\ Within(edges.sm, q[0], q[-1])
           /\ flat2 = 0 => edges = [sm |-> q[0], sp |-> q[0]]

(* What a wave sweeps out of a cell is an average of its parabola: it lies     *)
(* between the edges, is the cell average when the wave crosses the whole cell *)
(* and the edge when it does not move towards the face.                        *)
SweptAverages ==
  LET q == Scaled IN
  FiveCellsVary =>
    \A u \in Speeds, flat2 \in 0..2 :
       LET edges == ppm_reconstruct(q, flat2)
           I == ppm_int_profile_single(edges.sm, edges.sp, q[0], u)
       IN /\ Within(I.Ip, edges.sm, edges.sp) /\ Within(I.Im, edges.sm, edges.sp)
          /\ u = 4 => I.Ip = q[0]
          /\ u = -4 => I.Im = q[0]

\* The waves by their strength's name, with the sound speeds they add to the flow.
Families == [alpham |-> -1, alpha0r |-> 0, alpha0e |-> 0, alpha0v |-> 0, alphap |-> 1]

\* The state in which one family alone has strength one.
UnitWave(family, gas) == Superposed([f \in DOMAIN Families |-> IF f = family THEN 1 ELSE 0], gas)

\* A profile of the wave alone, traced by PLM and by PPM in all its variables.
WaveLeavesAlone(q, slope, edges, gas, speed, wave) ==
  LET Times(k) == [x \in DOMAIN wave |-> k * wave[x]]
      passive == pc_plm_d_passive(q, slope, speed)
      plm(side) == pc_plm_d_eb(Times(q[0]), Times(slope), gas, {side})
      swept == ppm_int_profile_single(edges.sm, edges.sp, q[0], speed)
      ppm == trace_ppm([x \in DOMAIN wave |->
               ppm_int_profile(wave[x] * edges.sm, wave[x] * edges.sp, wave[x] * q[0],
                               gas.u, gas.c)], gas)
  IN /\ speed >= 0 => plm("upper").qm = Times(passive.qm)
     /\ speed < 0 => plm("lower").qp = Times(passive.qp)
     /\ speed > 0 => \A x \in DOMAIN ppm.qm : ppm.qm[x] = Times(swept.Ip)[x]
     /\ speed <= 0 => \A x \in DOMAIN ppm.qp : ppm.qp[x] = Times(swept.Im)[x]

(* Whatever the flow, a profile of one wave family alone - a sound wave in     *)
(* either direction, a contact, a shear - leaves the cell towards which it     *)
(* moves as any passive scalar of that wave's own speed does, in every         *)
(* variable, although both schemes put it together from a reference state on   *)
(* the fastest wave and the jumps of the others.                               *)
CharacteristicsTraced ==
  FiveCellsVary =>
    \A gas \in FlowingGases, family \in DOMAIN Families :
       WaveLeavesAlone(Scaled, plm_slope(Scaled, 4), ppm_reconstruct(Scaled, 2), gas,
                       gas.u + Families[family] * gas.c, UnitWave(family, gas))

(* No reconstruction makes a new extremum: neither at the faces nor in what a  *)
(* wave sweeps out of the cell on its way there, and none mixes the waves.     *)
ProfilesBounded == EdgesBetweenNeighbours /\ SweptAverages /\ CharacteristicsTraced

(* No scheme prefers a direction: reversing the data exchanges the two faces   *)
(* of every reconstruction, of which the code writes out both.                 *)
MirrorSymmetric ==
  LET q == Scaled
      m == Mirrored(q)
      Swapped(W(_), Beta(_)) == /\ W(averages).vr = W(Mirrored(averages)).vl
                                /\ Beta(averages).r = Beta(Mirrored(averages)).l
  IN Varies /\ fitted = NoPolynomial =>
     /\ \A order \in {1, 2, 4} : plm_slope(m, order) = -plm_slope(q, order)
     /\ \A flat2 \in 0..2 : LET edges == ppm_reconstruct(q, flat2) IN
           ppm_reconstruct(m, flat2) = [sm |-> edges.sp, sp |-> edges.sm]
     /\ \A u \in Speeds :
           LET edges == ppm_reconstruct(q, 2)
               I == ppm_int_profile_single(edges.sm, edges.sp, q[0], u)
           IN ppm_int_profile_single(edges.sp, edges.sm, q[0], -u)
                = [Ip |-> I.Im, Im |-> I.Ip]
     /\ Swapped(Weno3, Weno3Beta)
     /\ Swapped(Weno5, Weno5Beta)
     /\ Swapped(Weno7, Weno7Beta)

(* The schemes have their order: on averages of a polynomial, PLM's fourth-    *)
(* order slope and the method of lines give a line exactly, every candidate of *)
(* a WENO scheme gives polynomials of its own degree exactly, and the ideal    *)
(* weights those of the whole stencil (but see Weno3ThirdOrder). A smoothness  *)
(* indicator is zero on a constant and the same for all candidates on a line.  *)
PolynomialsExact ==
  LET c == fitted
      q == Scaled
      Exact(W, own, whole) ==
        /\ DegreeAtMost(c, own) => \A k \in DOMAIN W.ideal :
             W.vl[k] = W.common * UpperEdge(c) /\ W.vr[k] = W.common * LowerEdge(c)
        /\ DegreeAtMost(c, whole) =>
             LET total == W.common * IdealEdge([k \in DOMAIN W.ideal |-> 1], W.ideal)
             IN /\ IdealEdge(W.vl, W.ideal) = total * UpperEdge(c)
                /\ IdealEdge(W.vr, W.ideal) = total * LowerEdge(c)
      Even(beta) == /\ \A k \in DOMAIN beta.l : beta.l[k] = beta.l[1] /\ beta.r[k] = beta.l[1]
                    /\ beta.l[1] = 0 <=> c[2] = 0
  IN fitted # NoPolynomial =>
     /\ Exact(Weno3(averages), 1, 1) /\ Exact(Weno5(averages), 2, 4) /\ Exact(Weno7(averages), 3, 6)
     /\ DegreeAtMost(c, 1) =>
          /\ Even(Weno3Beta(averages)) /\ Even(Weno5Beta(averages)) /\ Even(Weno7Beta(averages))
          /\ plm_slope(q, 4) = q[1] - q[0] /\ mol_slope(q, {-1, 1}) = q[1] - q[0]
          /\ ppm_reconstruct(q, 2) = [sm |-> Scale * LowerEdge(c), sp |-> Scale * UpperEdge(c)]

(* The documentation's "3rd order WENO-Z": on averages of a parabola the ideal *)
(* weights of WENO 3 give its values at the faces.                             *)
Weno3ThirdOrder ==
  LET W == Weno3(averages)
      total == W.common * (W.ideal[1] + W.ideal[2])
  IN fitted # NoPolynomial /\ DegreeAtMost(fitted, 2) =>
       /\ IdealEdge(W.vl, W.ideal) = total * UpperEdge(fitted)
       /\ IdealEdge(W.vr, W.ideal) = total * LowerEdge(fitted)
=============================================================================

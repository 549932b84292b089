--------------------------- MODULE Reconstruction ---------------------------
(* How the hydrodynamics rebuilds a profile from cell averages: the limited    *)
(* slopes of PLM and of the method of lines, the parabolas of PPM, the         *)
(* candidate polynomials of WENO, and the tracing of a profile along a wave    *)
(* (Source/PLM.H, PPM.H, PPM.cpp, WENO.H, MOL.H).                              *)
(* A stencil is a function on -3..3, 0 being the cell itself. Its values are   *)
(* multiples of Scale, so every half, third and sixth below is exact; a speed  *)
(* is a number of quarter cells per time step. WENO's candidates and           *)
(* smoothness indicators are given without their common denominators.          *)
EXTENDS Integers, Functions

Scale == 384

Quarters == 4

Offsets == -3..3

Lesser(x, y) == IF x <= y THEN x ELSE y

Greater(x, y) == IF x >= y THEN x ELSE y

Abs(x) == IF x < 0 THEN -x ELSE x

CopySign(x, y) == IF y >= 0 THEN Abs(x) ELSE -Abs(x)

-----------------------------------------------------------------------------
(* PLM *)

\* Twice the smaller one-sided difference, nothing at an extremum.
SlopeLimit(dlft, drgt) ==
    IF (dlft >= 0 /\ drgt >= 0) \/ (dlft <= 0 /\ drgt <= 0)
    THEN 2 * Lesser(Abs(dlft), Abs(drgt)) ELSE 0

\* The wanted slope within the limit, with the sign of the central difference.
Limited(wanted, dlft, drgt) ==
    CopySign(Lesser(SlopeLimit(dlft, drgt), Abs(wanted)), dlft + drgt)

\* The monotonised central difference at offset d, the slopes dfm and dfp.
CentralSlope(s, d) ==
    LET dlft == s[d] - s[d - 1]
        drgt == s[d + 1] - s[d]
    IN  Limited((dlft + drgt) \div 2, dlft, drgt)

\* Mutant of plm_slope: the neighbours' slopes are added.
SlopesAdded(s, order) ==
    LET dlft == s[0] - s[-1]
        drgt == s[1] - s[0]
        fourth == IF order = 4 THEN CentralSlope(s, -1) + CentralSlope(s, 1) ELSE 0
    IN  IF order = 1 THEN 0
        ELSE Limited((4 * (dlft + drgt) + fourth) \div 6, dlft, drgt)

(* The flattening coefficient is one.                                          *)
plm_slope(s, order) ==
    LET dlft == s[0] - s[-1]
        drgt == s[1] - s[0]
        fourth == IF order = 4 THEN CentralSlope(s, -1) + CentralSlope(s, 1) ELSE 0
    IN  IF order = 1 THEN 0
        ELSE Limited((4 * (dlft + drgt) - fourth) \div 6, dlft, drgt)

(* Next to covered cells the order drops until the stencil is free of them.    *)
plm_slope_eb(s, covered, order) ==
    IF order = 4 /\ covered \cap (-2..2) = {} THEN plm_slope(s, 4)
    ELSE IF order > 1 /\ covered \cap (-1..1) = {} THEN plm_slope(s, 2)
    ELSE 0

\* The states a wave of speed u leaves at the cell's lower (qp) and upper (qm) face.
pc_plm_d_passive(s, slope, u) ==
    LET spzerom == IF u > 0 THEN -Quarters ELSE u
        spzerop == IF u >= 0 THEN u ELSE Quarters
    IN  [qp |-> s[0] + ((-Quarters - spzerom) * slope) \div (2 * Quarters),
         qm |-> s[0] + ((Quarters - spzerop) * slope) \div (2 * Quarters)]

(* A state is a record of the density, the velocity across and along the face, *)
(* the pressure and the internal energy density. The waves travel in a gas     *)
(* given by its density, its velocity, its speed of sound and enth, the        *)
(* enthalpy over the square of that speed. A jump is resolved into the two     *)
(* sound waves, the contact's density and energy, and the shear.               *)
Strengths(jump, gas) ==
    [alpham |-> (jump.p - gas.rho * gas.c * jump.u) \div (2 * gas.c * gas.c),
     alphap |-> (jump.p + gas.rho * gas.c * jump.u) \div (2 * gas.c * gas.c),
     alpha0r |-> jump.rho - jump.p \div (gas.c * gas.c),
     alpha0e |-> jump.e - jump.p * gas.enth,
     alpha0v |-> jump.v]

Superposed(a, gas) ==
    LET sound == a.alphap + a.alpham
    IN  [rho |-> sound + a.alpha0r,
         u |-> ((a.alphap - a.alpham) * gas.c) \div gas.rho,
         v |-> a.alpha0v,
         p |-> sound * gas.c * gas.c,
         e |-> sound * gas.enth * gas.c * gas.c + a.alpha0e]

(* The reference state at a face is traced with the fastest wave towards it;   *)
(* the other waves that move towards it add their part of the slope, each for  *)
(* the way it falls behind. Without the floors under density and pressure.     *)
pc_plm_d(q, slope, gas) ==
    LET toLower == Quarters + Lesser(gas.u - gas.c, 0)
        toUpper == Quarters - Greater(gas.u + gas.c, 0)
        a == Strengths(slope, gas)
        Behind(n, part) == IF part THEN n * gas.c ELSE 0
        lower(x) == Behind(-1, gas.u < 0) * x
        upper(x) == Behind(1, gas.u >= 0) * x
        right == [alpham |-> 0, alphap |-> Behind(-2, gas.u + gas.c < 0) * a.alphap,
                  alpha0r |-> lower(a.alpha0r), alpha0e |-> lower(a.alpha0e),
                  alpha0v |-> lower(a.alpha0v)]
        left == [alpham |-> Behind(2, gas.u - gas.c >= 0) * a.alpham, alphap |-> 0,
                 alpha0r |-> upper(a.alpha0r), alpha0e |-> upper(a.alpha0e),
                 alpha0v |-> upper(a.alpha0v)]
    IN  [qp |-> [x \in DOMAIN q |->
                   q[x] + (Superposed(right, gas)[x] - toLower * slope[x]) \div (2 * Quarters)],
         qm |-> [x \in DOMAIN q |->
                   q[x] + (Superposed(left, gas)[x] + toUpper * slope[x]) \div (2 * Quarters)]]

(* Nothing reaches a face that the body closes.                                *)
pc_plm_d_eb(q, slope, gas, open) ==
    LET traced == pc_plm_d(q, slope, gas)
        nothing == [x \in DOMAIN q |-> 0]
    IN  [qp |-> IF "lower" \in open THEN traced.qp ELSE nothing,
         qm |-> IF "upper" \in open THEN traced.qm ELSE nothing]

(* The slope of the method of lines for a variable that is a wave family of    *)
(* its own, such as an advected scalar or a transverse velocity; open tells    *)
(* whether the cell is connected to its lower and to its upper neighbour.      *)
mol_slope(s, open) ==
    LET dlft == IF -1 \in open THEN s[0] - s[-1] ELSE 0
        drgt == IF 1 \in open THEN s[1] - s[0] ELSE 0
    IN  Limited((dlft + drgt) \div 2, dlft, drgt)

-----------------------------------------------------------------------------
(* PPM *)

\* The van Leer slope at offset d; nothing where the neighbours do not rise or fall.
VanLeerSlope(s, d) ==
    LET dsl == 2 * (s[d] - s[d - 1])
        dsr == 2 * (s[d + 1] - s[d])
        dsc == (s[d + 1] - s[d - 1]) \div 2
    IN  IF (dsl > 0 /\ dsr > 0) \/ (dsl < 0 /\ dsr < 0)
        THEN CopySign(Lesser(Abs(dsc), Lesser(Abs(dsl), Abs(dsr))), dsc) ELSE 0

\* The fourth-order value at the face above offset d, clipped between its cells.
EdgeAbove(s, d) ==
    LET edge == (3 * (s[d] + s[d + 1])
                   - (VanLeerSlope(s, d + 1) - VanLeerSlope(s, d))) \div 6
    IN  Lesser(Greater(edge, Lesser(s[d], s[d + 1])), Greater(s[d], s[d + 1]))

\* Mutant of QuadraticLimit: the overshoot on the lower side is not looked at.
UpperLimitOnly(c, sm, sp) ==
    IF (sp <= c /\ c >= sm) \/ (sp >= c /\ c <= sm) THEN [sm |-> c, sp |-> c]
    ELSE IF Abs(sp - c) >= 2 * Abs(sm - c) THEN [sm |-> sm, sp |-> 3 * c - 2 * sm]
    ELSE [sm |-> sm, sp |-> sp]

\* A parabola with an extremum inside the cell is flattened or pulled in.
QuadraticLimit(c, sm, sp) ==
    IF (sp <= c /\ c >= sm) \/ (sp >= c /\ c <= sm) THEN [sm |-> c, sp |-> c]
    ELSE IF Abs(sp - c) >= 2 * Abs(sm - c) THEN [sm |-> sm, sp |-> 3 * c - 2 * sm]
    ELSE IF Abs(sm - c) >= 2 * Abs(sp - c) THEN [sm |-> 3 * c - 2 * sp, sp |-> sp]
    ELSE [sm |-> sm, sp |-> sp]

\* The edges of the parabola; flat2 is twice the flattening coefficient.
ppm_reconstruct(s, flat2) ==
    LET flattened(edge) == (flat2 * edge + (2 - flat2) * s[0]) \div 2
    IN  QuadraticLimit(s[0], flattened(EdgeAbove(s, -1)), flattened(EdgeAbove(s, 0)))

\* Mutant of ppm_int_profile_single: the curvature enters with the wrong sign below.
CurvatureSubtracted(sm, sp, sc, speed) ==
    LET k == Abs(speed)
        s6 == 6 * sc - 3 * (sm + sp)
    IN  [Ip |-> IF speed <= 0 THEN sp ELSE sp - (k * (6 * (sp - sm) - (6 - k) * s6)) \div 48,
         Im |-> IF speed > 0 THEN sm ELSE sm + (k * (6 * (sp - sm) - (6 - k) * s6)) \div 48]

(* The averages of the parabola over what a wave sweeps towards the upper      *)
(* (Ip) and the lower (Im) face.                                               *)
ppm_int_profile_single(sm, sp, sc, speed) ==
    LET k == Abs(speed)
        s6 == 6 * sc - 3 * (sm + sp)
    IN  [Ip |-> IF speed <= 0 THEN sp ELSE sp - (k * (6 * (sp - sm) - (6 - k) * s6)) \div 48,
         Im |-> IF speed > 0 THEN sm ELSE sm + (k * (6 * (sp - sm) + (6 - k) * s6)) \div 48]

\* The three waves u - c, u and u + c of ppm_int_profile.
ppm_int_profile(sm, sp, sc, u, c) ==
    [wave \in -1..1 |-> ppm_int_profile_single(sm, sp, sc, u + wave * c)]

(* The gas' state at a face, from the averages J[wave] that the three waves    *)
(* sweep towards it: that of the fastest wave, less the jumps to the waves     *)
(* that move towards the face, each resolved on its own; the transverse        *)
(* velocity, and like it a species, is the contact's. The internal energy      *)
(* follows from the equation of state and is left out, as are the floors.      *)
TracedGas(J, fastest, moves, gas) ==
    LET Jump(wave) == Strengths([x \in DOMAIN J[wave] |-> J[fastest][x] - J[wave][x]], gas)
        a == [alpham |-> IF moves[-1] THEN -Jump(-1).alpham ELSE 0,
              alphap |-> IF moves[1] THEN -Jump(1).alphap ELSE 0,
              alpha0r |-> IF moves[0] THEN -Jump(0).alpha0r ELSE 0,
              alpha0e |-> 0, alpha0v |-> -Jump(0).alpha0v]
    IN  [x \in {"rho", "u", "v", "p"} |-> J[fastest][x] + Superposed(a, gas)[x]]

(* I[x] are the averages of x under the three waves.                           *)
trace_ppm(I, gas) ==
    LET towards == [wave \in -1..1 |-> gas.u + wave * gas.c > 0]
    IN  [qp |-> TracedGas([wave \in -1..1 |-> [x \in DOMAIN I |-> I[x][wave].Im]], -1,
                          [wave \in -1..1 |-> ~towards[wave]], gas),
         qm |-> TracedGas([wave \in -1..1 |-> [x \in DOMAIN I |-> I[x][wave].Ip]], 1,
                          towards, gas)]

-----------------------------------------------------------------------------
(* WENO: candidates of the upper (vl) and the lower face (vr), and the         *)
(* indicators they are weighted with, for the upper (l) and the lower face (r).*)
(* All are listed from the code's number 0 on. The schemes 5js and 5z differ   *)
(* in the weight function only.                                                *)

Square(x) == x * x

\* Times 12.
Beta5(a, b, c, d, e) ==
    <<13 * Square(c - 2 * d + e) + 3 * Square(3 * c - 4 * d + e),
      13 * Square(b - 2 * c + d) + 3 * Square(b - d),
      13 * Square(a - 2 * b + c) + 3 * Square(a - 4 * b + 3 * c)>>

Weno5(s) ==
    [common |-> 6, ideal |-> <<3, 6, 1>>,
     vl |-> <<2 * s[0] + 5 * s[1] - s[2], -s[-1] + 5 * s[0] + 2 * s[1],
              2 * s[-2] - 7 * s[-1] + 11 * s[0]>>,
     vr |-> <<2 * s[0] + 5 * s[-1] - s[-2], -s[1] + 5 * s[0] + 2 * s[-1],
              11 * s[0] - 7 * s[1] + 2 * s[2]>>]

Weno5Beta(s) ==
    [l |-> Beta5(s[-2], s[-1], s[0], s[1], s[2]),
     r |-> Beta5(s[2], s[1], s[0], s[-1], s[-2])]

Beta7(a, b, c, d, e, f, g) ==
    <<d * (2107 * d - 9402 * e + 7042 * f - 1854 * g)
        + e * (11003 * e - 17246 * f + 4642 * g)
        + f * (7043 * f - 3882 * g) + 547 * g * g,
      c * (547 * c - 2522 * d + 1922 * e - 494 * f)
        + d * (3443 * d - 5966 * e + 1602 * f)
        + e * (2843 * e - 1642 * f) + 267 * f * f,
      b * (267 * b - 1642 * c + 1602 * d - 494 * e)
        + c * (2843 * c - 5966 * d + 1922 * e)
        + d * (3443 * d - 2522 * e) + 547 * e * e,
      a * (547 * a - 3882 * b + 4642 * c - 1854 * d)
        + b * (7043 * b - 17246 * c + 7042 * d)
        + c * (11003 * c - 9402 * d) + 2107 * d * d>>

Weno7(s) ==
    [common |-> 12, ideal |-> <<4, 18, 12, 1>>,
     vl |-> <<3 * s[0] + 13 * s[1] - 5 * s[2] + s[3],
              -s[-1] + 7 * s[0] + 7 * s[1] - s[2],
              s[-2] - 5 * s[-1] + 13 * s[0] + 3 * s[1],
              -3 * s[-3] + 13 * s[-2] - 23 * s[-1] + 25 * s[0]>>,
     vr |-> <<3 * s[0] + 13 * s[-1] - 5 * s[-2] + s[-3],
              -s[1] + 7 * s[0] + 7 * s[-1] - s[-2],
              s[2] - 5 * s[1] + 13 * s[0] + 3 * s[-1],
              -3 * s[3] + 13 * s[2] - 23 * s[1] + 25 * s[0]>>]

Weno7Beta(s) ==
    [l |-> Beta7(s[-3], s[-2], s[-1], s[0], s[1], s[2], s[3]),
     r |-> Beta7(s[3], s[2], s[1], s[0], s[-1], s[-2], s[-3])]

Weno3(s) ==
    [common |-> 2, ideal |-> <<1, 2>>,
     vl |-> <<s[0] + s[1], -s[-1] + 3 * s[0]>>,
     vr |-> <<s[-1] + s[0], 3 * s[0] - s[1]>>]

Weno3Beta(s) ==
    [l |-> <<Square(s[0] - s[1]), Square(s[-1] - s[0])>>,
     r |-> <<Square(s[0] - s[-1]), Square(s[1] - s[0])>>]

(* The weighted face value, times common and the sum of the ideal weights,     *)
(* where the indicators do not tell the candidates apart (tau is zero, or all  *)
(* are equal) and the weights are the ideal ones.                              *)
IdealEdge(candidates, ideal) ==
    LET part(k) == IF k \in DOMAIN ideal THEN ideal[k] * candidates[k] ELSE 0
    IN  part(1) + part(2) + part(3) + part(4)
=============================================================================

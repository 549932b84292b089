---------------------------- MODULE HydroProofs ----------------------------
(***************************************************************************)
(* Theorems about the reconstructions of the hydrodynamics, the fluxes of  *)
(* cut faces and the cleaning of mass fractions after a redistribution.    *)
(*                                                                         *)
(* Reconstructions divide integers.  Averages are multiples of Scale, and  *)
(* every division is exact: the lemmas say of which number each            *)
(* intermediate value is a multiple, and later ones reason about the       *)
(* quotients only.                                                         *)
(***************************************************************************)
EXTENDS Stencils, CutCells, TLAPS

-----------------------------------------------------------------------------
(* A stencil holds integers, and those of a polynomial once one is fitted. *)

Data == [Offsets -> Int]

StencilInv ==
  /\ averages \in Data
  /\ fitted \in [1..7 -> Int]
  /\ fitted # NoPolynomial => averages = PolynomialAverages(fitted)

LEMMA PrimitiveType ==
  ASSUME NEW c \in [1..7 -> Int], NEW n \in Int PROVE Primitive(c, n) \in Int
<1>1. \A a, x \in Int : a + n * x \in Int /\ n * x \in Int
  OBVIOUS
<1>2. \A k \in 1..7 : c[k] \in Int
  OBVIOUS
<1> DEFINE x5 == c[6] + n * c[7]
           x4 == c[5] + n * x5
           x3 == c[4] + n * x4
           x2 == c[3] + n * x3
           x1 == c[2] + n * x2
           x0 == c[1] + n * x1
<1>3. x5 \in Int
  BY <1>1, <1>2
<1>4. x4 \in Int
  BY <1>1, <1>2, <1>3
<1>5. x3 \in Int
  BY <1>1, <1>2, <1>4
<1>6. x2 \in Int
  BY <1>1, <1>2, <1>5
<1>7. x1 \in Int
  BY <1>1, <1>2, <1>6
<1>8. x0 \in Int
  BY <1>1, <1>2, <1>7
<1>9. n * x0 \in Int
  BY <1>1, <1>8
<1>10. Primitive(c, n) = n * x0
  BY DEF Primitive
<1> QED
  BY <1>9, <1>10

LEMMA StencilInvariant == StencilSpec => []StencilInv
<1>1. StencilInit => StencilInv
  BY DEF StencilInit, StencilInv, NoData, NoPolynomial, Data
<1>2. StencilInv /\ [StencilNext]_stencilVars => StencilInv'
  <2> SUFFICES ASSUME StencilInv, [StencilNext]_stencilVars PROVE StencilInv'
    OBVIOUS
  <2>1. CASE Slide
    <3>1. PICK x \in Values :
            averages' = [d \in Offsets |-> IF d = 3 THEN x ELSE averages[d + 1]]
      BY <2>1 DEF Slide
    <3>2. x \in Int
      BY StencilAssumption
    <3>3. \A d \in Offsets : d # 3 => averages[d + 1] \in Int
      BY DEF StencilInv, Data, Offsets
    <3>4. averages' \in Data
      BY <3>1, <3>2, <3>3 DEF Data
    <3> QED
      BY <2>1, <3>4 DEF Slide, StencilInv
  <2>2. CASE Fit
    <3>1. PICK c \in Coefficients : fitted' = c /\ averages' = PolynomialAverages(c)
      BY <2>2 DEF Fit
    <3>2. c \in [1..7 -> Int]
      BY StencilAssumption
    <3>3. \A n \in Int : Primitive(c, n) \in Int
      BY <3>2, PrimitiveType
    <3>4. averages' \in Data
      BY <3>1, <3>3 DEF PolynomialAverages, Data, Offsets
    <3> QED
      BY <3>1, <3>2, <3>4 DEF StencilInv
  <2>3. CASE UNCHANGED stencilVars
    BY <2>3 DEF StencilInv, stencilVars, PolynomialAverages, Primitive
  <2> QED
    BY <2>1, <2>2, <2>3 DEF StencilNext
<1> QED
  BY <1>1, <1>2, PTL DEF StencilSpec

LEMMA ScaledType ==
  ASSUME averages \in Data
  PROVE  Scaled \in Data /\ \A d \in Offsets : Scaled[d] = 384 * averages[d]
BY DEF Scaled, Data, Scale

-----------------------------------------------------------------------------
(* Limiters on any differences.                                            *)

\* A limited slope has the sign of both one-sided differences, or is zero,
\* and is at most twice either.
LEMMA LimitedBounded ==
  ASSUME NEW w \in Int, NEW dl \in Int, NEW dr \in Int
  PROVE  /\ Limited(w, dl, dr) \in Int
         /\ Within(Limited(w, dl, dr), 0, 2 * dr)
         /\ Within(Limited(w, dl, dr), 0, 2 * dl)
BY DEF Limited, SlopeLimit, CopySign, Lesser, Greater, Abs, Within

\* Reversed differences and a reversed wish give the reversed slope.
LEMMA LimitedReversed ==
  ASSUME NEW w \in Int, NEW dl \in Int, NEW dr \in Int
  PROVE  Limited(-w, -dr, -dl) = -Limited(w, dl, dr)
<1>1. SlopeLimit(-dr, -dl) = SlopeLimit(dl, dr) /\ SlopeLimit(dl, dr) \in Nat
  BY DEF SlopeLimit, Lesser, Abs
<1>2. Abs(-w) = Abs(w) /\ Abs(w) \in Nat
  BY DEF Abs
<1>3. dl + dr = 0 => SlopeLimit(dl, dr) = 0
  BY DEF SlopeLimit, Lesser, Abs
<1> DEFINE x == Lesser(SlopeLimit(dl, dr), Abs(w))
<1>4. x \in Nat /\ (dl + dr = 0 => x = 0)
  BY <1>1, <1>2, <1>3 DEF Lesser
<1>5. Limited(-w, -dr, -dl) = CopySign(x, -dr + -dl)
  BY <1>1, <1>2 DEF Limited
<1>6. Limited(w, dl, dr) = CopySign(x, dl + dr)
  BY DEF Limited
<1> HIDE DEF x
<1>7. CopySign(x, -dr + -dl) = -CopySign(x, dl + dr)
  BY <1>4 DEF CopySign, Abs
<1> QED
  BY <1>5, <1>6, <1>7

\* Equal differences are the slope when they are asked for.
LEMMA LimitedLine ==
  ASSUME NEW d \in Int
  PROVE  Limited(d, d, d) = d
BY DEF Limited, SlopeLimit, CopySign, Lesser, Abs

-----------------------------------------------------------------------------
(* Slopes.                                                                 *)

Orders == {1, 2, 4}

\* Between the cell and the neighbours the slope may not overshoot.
Monotone(s, slope) ==
  /\ slope \in Int
  /\ Within(2 * s[0] + slope, 2 * s[0], 2 * s[1])
  /\ Within(2 * s[0] - slope, 2 * s[0], 2 * s[-1])

LEMMA DataType ==
  ASSUME NEW s \in Data
  PROVE  /\ s[-3] \in Int /\ s[-2] \in Int /\ s[-1] \in Int /\ s[0] \in Int
         /\ s[1] \in Int /\ s[2] \in Int /\ s[3] \in Int
BY DEF Data, Offsets

LEMMA SlopeMonotone ==
  ASSUME NEW s \in Data, NEW w \in Int
  PROVE  Monotone(s, Limited(w, s[0] - s[-1], s[1] - s[0]))
<1>1. s[-1] \in Int /\ s[0] \in Int /\ s[1] \in Int
  BY DataType
<1> DEFINE dlft == s[0] - s[-1]
           drgt == s[1] - s[0]
           x == Limited(w, dlft, drgt)
<1>0. dlft \in Int /\ drgt \in Int
  BY <1>1
<1>2. x \in Int /\ Within(x, 0, 2 * (s[1] - s[0])) /\ Within(x, 0, 2 * (s[0] - s[-1]))
  <2> HIDE DEF dlft, drgt
  <2>1. x \in Int /\ Within(x, 0, 2 * drgt) /\ Within(x, 0, 2 * dlft)
    BY <1>0, LimitedBounded
  <2> QED
    BY <2>1 DEF dlft, drgt
<1> HIDE DEF x
<1>3. Within(2 * s[0] + x, 2 * s[0], 2 * s[1]) /\ Within(2 * s[0] - x, 2 * s[0], 2 * s[-1])
  BY <1>1, <1>2 DEF Within, Lesser, Greater
<1>4. Monotone(s, x)
  BY <1>2, <1>3 DEF Monotone
<1> QED
  BY <1>4 DEF x

LEMMA NoSlopeMonotone == ASSUME NEW s \in Data PROVE Monotone(s, 0)
BY DataType DEF Monotone, Within, Lesser, Greater

LEMMA CentralSlopeType ==
  ASSUME NEW s \in Data, NEW d \in -2..2
  PROVE  CentralSlope(s, d) \in Int
<1>1. s[d] \in Int /\ s[d - 1] \in Int /\ s[d + 1] \in Int
  BY DEF Data, Offsets
<1> DEFINE dlft == s[d] - s[d - 1]
           drgt == s[d + 1] - s[d]
<1>2. dlft \in Int /\ drgt \in Int /\ (dlft + drgt) \div 2 \in Int
  BY <1>1
<1>3. Limited((dlft + drgt) \div 2, dlft, drgt) \in Int
  BY <1>2, LimitedBounded
<1> QED
  BY <1>3 DEF CentralSlope

\* What the limiter of plm_slope is asked for.
WantedSlope(s, order) ==
  (4 * ((s[0] - s[-1]) + (s[1] - s[0]))
     - (IF order = 4 THEN CentralSlope(s, -1) + CentralSlope(s, 1) ELSE 0)) \div 6

LEMMA PlmSlopeOf ==
  ASSUME NEW s \in Data, NEW order \in Orders
  PROVE  /\ WantedSlope(s, order) \in Int
         /\ plm_slope(s, order) = IF order = 1 THEN 0
                                  ELSE Limited(WantedSlope(s, order), s[0] - s[-1], s[1] - s[0])
<1>1. CentralSlope(s, -1) \in Int /\ CentralSlope(s, 1) \in Int
  BY CentralSlopeType
<1>2. WantedSlope(s, order) \in Int
  BY <1>1, DataType DEF WantedSlope
<1> QED
  BY <1>2 DEF plm_slope, WantedSlope

LEMMA PlmSlopeMonotone ==
  ASSUME NEW s \in Data, NEW order \in Orders
  PROVE  Monotone(s, plm_slope(s, order))
BY PlmSlopeOf, SlopeMonotone, NoSlopeMonotone

LEMMA PlmSlopeEbOf ==
  ASSUME NEW s \in Data, NEW order \in Orders, NEW covered \in SUBSET Offsets
  PROVE  /\ Monotone(s, plm_slope_eb(s, covered, order))
         /\ \A d \in covered :
              plm_slope_eb([s EXCEPT ![d] = 0], covered, order) = plm_slope_eb(s, covered, order)
<1>1. Monotone(s, plm_slope_eb(s, covered, order))
  BY PlmSlopeMonotone, NoSlopeMonotone DEF plm_slope_eb, Orders
<1>2. ASSUME NEW d \in covered
      PROVE  plm_slope_eb([s EXCEPT ![d] = 0], covered, order) = plm_slope_eb(s, covered, order)
  <2> DEFINE r == [s EXCEPT ![d] = 0]
  <2>1. r \in Data /\ \A x \in Offsets : x # d => r[x] = s[x]
    BY DEF Data
  <2>2. CASE order = 4 /\ covered \cap (-2..2) = {}
    <3>1. d \notin -2..2
      BY <2>2
    <3>2. r[-2] = s[-2] /\ r[-1] = s[-1] /\ r[0] = s[0] /\ r[1] = s[1] /\ r[2] = s[2]
      BY <2>1, <3>1 DEF Offsets
    <3> HIDE DEF r
    <3>3. CentralSlope(r, -1) = CentralSlope(s, -1) /\ CentralSlope(r, 1) = CentralSlope(s, 1)
      BY <3>2 DEF CentralSlope
    <3>4. plm_slope(r, 4) = plm_slope(s, 4)
      BY <3>2, <3>3 DEF plm_slope
    <3> QED
      BY <2>2, <3>4 DEF plm_slope_eb, r
  <2>3. CASE ~(order = 4 /\ covered \cap (-2..2) = {}) /\ order > 1 /\ covered \cap (-1..1) = {}
    <3>1. d \notin -1..1
      BY <2>3
    <3>2. r[-1] = s[-1] /\ r[0] = s[0] /\ r[1] = s[1]
      BY <2>1, <3>1 DEF Offsets
    <3> HIDE DEF r
    <3>3. plm_slope(r, 2) = plm_slope(s, 2)
      BY <3>2 DEF plm_slope
    <3> QED
      BY <2>3, <3>3 DEF plm_slope_eb, r
  <2> QED
    BY <2>2, <2>3 DEF plm_slope_eb
<1> QED
  BY <1>1, <1>2

LEMMA MolSlopeOf ==
  ASSUME NEW s \in Data, NEW open \in SUBSET {-1, 1}
  PROVE  LET slope == mol_slope(s, open)
         IN  /\ slope \in Int
             /\ 1 \in open => Within(2 * s[0] + slope, 2 * s[0], 2 * s[1])
             /\ -1 \in open => Within(2 * s[0] - slope, 2 * s[0], 2 * s[-1])
             /\ open # {-1, 1} => slope = 0
<1>1. s[-1] \in Int /\ s[0] \in Int /\ s[1] \in Int
  BY DataType
<1>2. CASE open = {-1, 1}
  <2>1. mol_slope(s, open) = Limited(((s[0] - s[-1]) + (s[1] - s[0])) \div 2, s[0] - s[-1], s[1] - s[0])
    BY <1>2 DEF mol_slope
  <2> QED
    BY <1>1, <1>2, <2>1, SlopeMonotone DEF Monotone
<1>3. CASE open # {-1, 1}
  <2>1. -1 \notin open \/ 1 \notin open
    BY <1>3
  <2>2. \A w, a, b \in Int : a = 0 \/ b = 0 => Limited(w, a, b) = 0
    BY DEF Limited, SlopeLimit, CopySign, Lesser, Abs
  <2>3. ASSUME NEW a \in Int, NEW b \in Int, a = 0 \/ b = 0
        PROVE  Limited((a + b) \div 2, a, b) = 0
    <3>1. (a + b) \div 2 \in Int
      OBVIOUS
    <3> QED
      BY <2>2, <2>3, <3>1
  <2> DEFINE dlft == IF -1 \in open THEN s[0] - s[-1] ELSE 0
             drgt == IF 1 \in open THEN s[1] - s[0] ELSE 0
  <2>4. dlft \in Int /\ drgt \in Int /\ (dlft = 0 \/ drgt = 0)
    BY <1>1, <2>1
  <2>5. mol_slope(s, open) = Limited((dlft + drgt) \div 2, dlft, drgt)
    BY DEF mol_slope
  <2>6. mol_slope(s, open) = 0
    BY <2>3, <2>4, <2>5
  <2> QED
    BY <1>1, <1>3, <2>1, <2>6 DEF Within, Lesser, Greater
<1> QED
  BY <1>2, <1>3

-----------------------------------------------------------------------------
(* Parabolas.                                                              *)

LEMMA WithinTransitive ==
  ASSUME NEW a \in Int, NEW b \in Int, NEW x \in Int, NEW y \in Int,
         Within(x, a, b), Within(y, a, x)
  PROVE  Within(y, a, b)
BY DEF Within, Lesser, Greater

LEMMA VanLeerType ==
  ASSUME NEW s \in Data, NEW d \in -2..2
  PROVE  VanLeerSlope(s, d) \in Int
<1>1. s[d] \in Int /\ s[d - 1] \in Int /\ s[d + 1] \in Int
  BY DEF Data, Offsets
<1> QED
  BY <1>1 DEF VanLeerSlope, CopySign, Lesser, Abs

LEMMA EdgeBetween ==
  ASSUME NEW s \in Data, NEW d \in -2..1
  PROVE  EdgeAbove(s, d) \in Int /\ Within(EdgeAbove(s, d), s[d], s[d + 1])
<1>1. s[d] \in Int /\ s[d + 1] \in Int
  BY DEF Data, Offsets
<1>2. VanLeerSlope(s, d) \in Int /\ VanLeerSlope(s, d + 1) \in Int
  BY VanLeerType
<1> DEFINE edge == (3 * (s[d] + s[d + 1]) - (VanLeerSlope(s, d + 1) - VanLeerSlope(s, d))) \div 6
<1>3. edge \in Int
  BY <1>1, <1>2
<1>4. EdgeAbove(s, d) = Lesser(Greater(edge, Lesser(s[d], s[d + 1])), Greater(s[d], s[d + 1]))
  BY DEF EdgeAbove
<1> HIDE DEF edge
<1> QED
  BY <1>1, <1>3, <1>4 DEF Within, Lesser, Greater

\* A parabola without an extremum inside the cell.
Rises(c, sm, sp) ==
  \/ sm <= c /\ c <= sp /\ sp - c <= 2 * (c - sm) /\ c - sm <= 2 * (sp - c)
  \/ sp <= c /\ c <= sm /\ c - sp <= 2 * (sm - c) /\ sm - c <= 2 * (c - sp)

LEMMA QuadraticOf ==
  ASSUME NEW c \in Int, NEW sm \in Int, NEW sp \in Int
  PROVE  LET edges == QuadraticLimit(c, sm, sp)
         IN  /\ edges = [sm |-> edges.sm, sp |-> edges.sp]
             /\ edges.sm \in Int /\ edges.sp \in Int
             /\ Within(edges.sm, c, sm) /\ Within(edges.sp, c, sp)
             /\ Rises(c, edges.sm, edges.sp)
<1>1. CASE (sp <= c /\ c >= sm) \/ (sp >= c /\ c <= sm)
  <2>1. QuadraticLimit(c, sm, sp) = [sm |-> c, sp |-> c]
    BY <1>1 DEF QuadraticLimit
  <2> QED
    BY <2>1 DEF Within, Lesser, Greater, Rises
<1>2. CASE ~((sp <= c /\ c >= sm) \/ (sp >= c /\ c <= sm)) /\ Abs(sp - c) >= 2 * Abs(sm - c)
  <2>1. QuadraticLimit(c, sm, sp) = [sm |-> sm, sp |-> 3 * c - 2 * sm]
    BY <1>2 DEF QuadraticLimit
  <2> QED
    BY <1>2, <2>1 DEF Within, Lesser, Greater, Rises, Abs
<1>3. CASE /\ ~((sp <= c /\ c >= sm) \/ (sp >= c /\ c <= sm))
           /\ ~(Abs(sp - c) >= 2 * Abs(sm - c)) /\ Abs(sm - c) >= 2 * Abs(sp - c)
  <2>1. QuadraticLimit(c, sm, sp) = [sm |-> 3 * c - 2 * sp, sp |-> sp]
    BY <1>3 DEF QuadraticLimit
  <2> QED
    BY <1>3, <2>1 DEF Within, Lesser, Greater, Rises, Abs
<1>4. CASE /\ ~((sp <= c /\ c >= sm) \/ (sp >= c /\ c <= sm))
           /\ ~(Abs(sp - c) >= 2 * Abs(sm - c)) /\ ~(Abs(sm - c) >= 2 * Abs(sp - c))
  <2>1. QuadraticLimit(c, sm, sp) = [sm |-> sm, sp |-> sp]
    BY <1>4 DEF QuadraticLimit
  <2> QED
    BY <1>4, <2>1 DEF Within, Lesser, Greater, Rises, Abs
<1> QED
  BY <1>1, <1>2, <1>3, <1>4

Flattened(s, flat2, edge) == (flat2 * edge + (2 - flat2) * s[0]) \div 2

LEMMA FlattenedOf ==
  ASSUME NEW f \in 0..2, NEW x \in Int, NEW c \in Int
  PROVE  LET y == (f * x + (2 - f) * c) \div 2
         IN  y \in Int /\ Within(y, c, x) /\ (f = 0 => y = c) /\ (f = 2 => y = x)
<1>1. CASE f = 0
  BY <1>1 DEF Within, Lesser, Greater
<1>2. CASE f = 1
  BY <1>2 DEF Within, Lesser, Greater
<1>3. CASE f = 2
  BY <1>3 DEF Within, Lesser, Greater
<1> QED
  BY <1>1, <1>2, <1>3

LEMMA FlattenedAs ==
  ASSUME NEW s, NEW flat2
  PROVE  ppm_reconstruct(s, flat2)
           = QuadraticLimit(s[0], Flattened(s, flat2, EdgeAbove(s, -1)),
                            Flattened(s, flat2, EdgeAbove(s, 0)))
BY DEF ppm_reconstruct, Flattened

LEMMA ReconstructedOf ==
  ASSUME NEW s \in Data, NEW flat2 \in 0..2
  PROVE  LET edges == ppm_reconstruct(s, flat2)
         IN  /\ edges = [sm |-> edges.sm, sp |-> edges.sp]
             /\ edges.sm \in Int /\ edges.sp \in Int
             /\ Within(edges.sp, s[0], s[1]) /\ Within(edges.sm, s[0], s[-1])
             /\ Rises(s[0], edges.sm, edges.sp)
             /\ flat2 = 0 => edges = [sm |-> s[0], sp |-> s[0]]
<1>1. s[-1] \in Int /\ s[0] \in Int /\ s[1] \in Int
  BY DataType
<1> DEFINE lower == EdgeAbove(s, -1)
           upper == EdgeAbove(s, 0)
           sm == Flattened(s, flat2, lower)
           sp == Flattened(s, flat2, upper)
<1>2. lower \in Int /\ Within(lower, s[0], s[-1])
  <2>1. lower \in Int /\ Within(lower, s[-1], s[-1 + 1])
    BY EdgeBetween
  <2> QED
    BY <1>1, <2>1 DEF Within, Lesser, Greater
<1>3. upper \in Int /\ Within(upper, s[0], s[1])
  <2>1. upper \in Int /\ Within(upper, s[0], s[0 + 1])
    BY EdgeBetween
  <2> QED
    BY <2>1
<1> HIDE DEF lower, upper
<1>4. sm \in Int /\ Within(sm, s[0], lower) /\ (flat2 = 0 => sm = s[0])
  BY <1>1, <1>2, FlattenedOf DEF Flattened
<1>5. sp \in Int /\ Within(sp, s[0], upper) /\ (flat2 = 0 => sp = s[0])
  BY <1>1, <1>3, FlattenedOf DEF Flattened
<1>6. ppm_reconstruct(s, flat2) = QuadraticLimit(s[0], sm, sp)
  BY DEF ppm_reconstruct, Flattened, lower, upper
<1> HIDE DEF sm, sp
<1> DEFINE edges == QuadraticLimit(s[0], sm, sp)
<1>7. /\ edges = [sm |-> edges.sm, sp |-> edges.sp]
      /\ edges.sm \in Int /\ edges.sp \in Int
      /\ Within(edges.sm, s[0], sm) /\ Within(edges.sp, s[0], sp)
      /\ Rises(s[0], edges.sm, edges.sp)
  BY <1>1, <1>4, <1>5, QuadraticOf
<1>8. flat2 = 0 => edges = [sm |-> s[0], sp |-> s[0]]
  BY <1>1, <1>4, <1>5 DEF QuadraticLimit
<1> HIDE DEF edges
<1>9. Within(edges.sm, s[0], s[-1])
  BY <1>1, <1>2, <1>4, <1>7, WithinTransitive
<1>10. Within(edges.sp, s[0], s[1])
  BY <1>1, <1>3, <1>5, <1>7, WithinTransitive
<1> QED
  BY <1>6, <1>7, <1>8, <1>9, <1>10 DEF edges

\* What a wave sweeps out of a parabola that rises or falls throughout.
LEMMA SweptOf ==
  ASSUME NEW c \in Int, NEW sm \in Int, NEW sp \in Int, Rises(c, sm, sp), NEW u \in Speeds
  PROVE  LET I == ppm_int_profile_single(sm, sp, c, u)
         IN  /\ Within(I.Ip, sm, sp) /\ Within(I.Im, sm, sp)
             /\ u = 4 => I.Ip = c
             /\ u = -4 => I.Im = c
<1>1. CASE u = -4
  BY <1>1 DEF ppm_int_profile_single, Abs, Within, Lesser, Greater, Rises
<1>2. CASE u = -1
  BY <1>2 DEF ppm_int_profile_single, Abs, Within, Lesser, Greater, Rises
<1>3. CASE u = 0
  BY <1>3 DEF ppm_int_profile_single, Abs, Within, Lesser, Greater, Rises
<1>4. CASE u = 2
  BY <1>4 DEF ppm_int_profile_single, Abs, Within, Lesser, Greater, Rises
<1>5. CASE u = 4
  BY <1>5 DEF ppm_int_profile_single, Abs, Within, Lesser, Greater, Rises
<1> QED
  BY <1>1, <1>2, <1>3, <1>4, <1>5 DEF Speeds

LEMMA EdgesBounded == averages \in Data => EdgesBetweenNeighbours
<1> SUFFICES ASSUME averages \in Data PROVE EdgesBetweenNeighbours
  OBVIOUS
<1> DEFINE q == Scaled
<1>1. q \in Data
  BY ScaledType
<1> HIDE DEF q
<1>2. \A order \in Orders :
        LET slope == plm_slope(q, order)
        IN  /\ Within(2 * q[0] + slope, 2 * q[0], 2 * q[1])
            /\ Within(2 * q[0] - slope, 2 * q[0], 2 * q[-1])
  BY <1>1, PlmSlopeMonotone DEF Monotone
<1>3. ASSUME NEW covered \in Coverings, NEW order \in Orders
      PROVE  LET slope == plm_slope_eb(q, covered, order)
             IN  /\ Within(2 * q[0] + slope, 2 * q[0], 2 * q[1])
                 /\ Within(2 * q[0] - slope, 2 * q[0], 2 * q[-1])
                 /\ \A d \in covered : plm_slope_eb([q EXCEPT ![d] = 0], covered, order) = slope
  <2>1. covered \in SUBSET Offsets
    BY DEF Coverings, Offsets
  <2> QED
    BY <1>1, <2>1, PlmSlopeEbOf DEF Monotone
<1>4. \A open \in SUBSET {-1, 1} :
        LET slope == mol_slope(q, open)
        IN  /\ 1 \in open => Within(2 * q[0] + slope, 2 * q[0], 2 * q[1])
            /\ -1 \in open => Within(2 * q[0] - slope, 2 * q[0], 2 * q[-1])
            /\ open # {-1, 1} => slope = 0
  BY <1>1, MolSlopeOf
<1>5. \A flat2 \in 0..2 :
        LET edges == ppm_reconstruct(q, flat2)
        IN  /\ Within(edges.sp, q[0], q[1]) /\ Within(edges.sm, q[0], q[-1])
            /\ flat2 = 0 => edges = [sm |-> q[0], sp |-> q[0]]
  BY <1>1, ReconstructedOf
<1> QED
  BY <1>2, <1>3, <1>4, <1>5 DEF EdgesBetweenNeighbours, Orders, q

LEMMA SweptBounded == averages \in Data => SweptAverages
<1> SUFFICES ASSUME averages \in Data PROVE SweptAverages
  OBVIOUS
<1> DEFINE q == Scaled
<1>1. q \in Data /\ q[0] \in Int
  BY ScaledType, DataType
<1> HIDE DEF q
<1>2. ASSUME NEW u \in Speeds, NEW flat2 \in 0..2
      PROVE  LET edges == ppm_reconstruct(q, flat2)
                 I == ppm_int_profile_single(edges.sm, edges.sp, q[0], u)
             IN /\ Within(I.Ip, edges.sm, edges.sp) /\ Within(I.Im, edges.sm, edges.sp)
                /\ u = 4 => I.Ip = q[0]
                /\ u = -4 => I.Im = q[0]
  <2> DEFINE edges == ppm_reconstruct(q, flat2)
  <2>1. edges.sm \in Int /\ edges.sp \in Int /\ Rises(q[0], edges.sm, edges.sp)
    BY <1>1, ReconstructedOf
  <2> HIDE DEF edges
  <2>2. LET I == ppm_int_profile_single(edges.sm, edges.sp, q[0], u)
        IN  /\ Within(I.Ip, edges.sm, edges.sp) /\ Within(I.Im, edges.sm, edges.sp)
            /\ u = 4 => I.Ip = q[0]
            /\ u = -4 => I.Im = q[0]
    BY <1>1, <2>1, SweptOf
  <2> QED
    BY <2>2 DEF edges
<1> QED
  BY <1>2 DEF SweptAverages, q

-----------------------------------------------------------------------------
(* Reversed data.  Every division below is exact on multiples of Scale.    *)

LEMMA MirroredOf ==
  ASSUME NEW s \in Data
  PROVE  /\ Mirrored(s) \in Data
         /\ \A d \in Offsets : Mirrored(s)[d] = s[-d]
<1>1. \A d \in Offsets : -d \in Offsets
  BY DEF Offsets
<1>2. \A d \in Offsets : s[-d] \in Int
  BY <1>1 DEF Data
<1> QED
  BY <1>2 DEF Mirrored, Data

\* Integers that the code's differences and divisions act on.
Multiples == {s \in Data : \A d \in Offsets : \E n \in Int : s[d] = 384 * n}

LEMMA ScaledMultiples ==
  ASSUME averages \in Data
  PROVE  Scaled \in Multiples /\ Mirrored(Scaled) \in Multiples
<1>1. Scaled \in Data /\ \A d \in Offsets : Scaled[d] = 384 * averages[d] /\ averages[d] \in Int
  BY ScaledType DEF Data
<1>2. \A d \in Offsets : -d \in Offsets
  BY DEF Offsets
<1>3. Mirrored(Scaled) \in Data /\ \A d \in Offsets : Mirrored(Scaled)[d] = Scaled[-d]
  BY <1>1, MirroredOf
<1>4. Scaled \in Multiples
  BY <1>1 DEF Multiples
<1>5. \A d \in Offsets : Mirrored(Scaled)[d] = 384 * averages[-d] /\ averages[-d] \in Int
  BY <1>1, <1>2, <1>3
<1>6. Mirrored(Scaled) \in Multiples
  BY <1>3, <1>5 DEF Multiples
<1> QED
  BY <1>4, <1>6

LEMMA LimitedMultiple ==
  ASSUME NEW w \in Int, NEW a \in Int, NEW b \in Int
  PROVE  \E n \in Int : Limited(192 * w, 384 * a, 384 * b) = 192 * n
<1> DEFINE x == Lesser(2 * Lesser(2 * Abs(a), 2 * Abs(b)), Abs(w))
           y == IF (a >= 0 /\ b >= 0) \/ (a <= 0 /\ b <= 0) THEN x ELSE 0
           n == CopySign(y, a + b)
<1>1. n \in Int
  BY DEF CopySign, Lesser, Abs
<1>2. Limited(192 * w, 384 * a, 384 * b) = 192 * n
  BY DEF Limited, SlopeLimit, CopySign, Lesser, Abs
<1> QED
  BY <1>1, <1>2

LEMMA CentralSlopeAs ==
  ASSUME NEW s, NEW d, NEW x, NEW y, NEW w,
         s[d] - s[d - 1] = x, s[d + 1] - s[d] = y, (x + y) \div 2 = w
  PROVE  CentralSlope(s, d) = Limited(w, x, y)
BY DEF CentralSlope

LEMMA CentralSlopeReversed ==
  ASSUME NEW s \in Multiples, NEW d \in -2..2, NEW e \in -2..2, d + e = 0
  PROVE  /\ CentralSlope(Mirrored(s), d) = -CentralSlope(s, e)
         /\ \E n \in Int : CentralSlope(s, d) = 192 * n
<1> DEFINE m == Mirrored(s)
<1>1. s \in Data /\ \A x \in Offsets : m[x] = s[-x]
  BY MirroredOf DEF Multiples
<1>2. ASSUME NEW z \in -2..2
      PROVE  \E a, b \in Int : s[z] - s[z - 1] = 384 * a /\ s[z + 1] - s[z] = 384 * b
  <2>1. z \in Offsets /\ z - 1 \in Offsets /\ z + 1 \in Offsets
    BY DEF Offsets
  <2>2. PICK i, j, k \in Int : s[z] = 384 * i /\ s[z - 1] = 384 * j /\ s[z + 1] = 384 * k
    BY <2>1 DEF Multiples
  <2>3. s[z] - s[z - 1] = 384 * (i - j) /\ s[z + 1] - s[z] = 384 * (k - i)
    BY <2>2
  <2> WITNESS i - j \in Int, k - i \in Int
  <2> QED
    BY <2>3
<1>3. \E n \in Int : CentralSlope(s, d) = 192 * n
  <2>1. PICK a, b \in Int : s[d] - s[d - 1] = 384 * a /\ s[d + 1] - s[d] = 384 * b
    BY <1>2
  <2>2. (384 * a + 384 * b) \div 2 = 192 * (a + b) /\ a + b \in Int
    OBVIOUS
  <2>3. CentralSlope(s, d) = Limited(192 * (a + b), 384 * a, 384 * b)
    BY <2>1, <2>2, CentralSlopeAs
  <2> DEFINE w == a + b
  <2>4. w \in Int /\ CentralSlope(s, d) = Limited(192 * w, 384 * a, 384 * b)
    BY <2>2, <2>3
  <2> HIDE DEF w
  <2>5. \E n \in Int : Limited(192 * w, 384 * a, 384 * b) = 192 * n
    BY <2>4, LimitedMultiple
  <2> QED
    BY <2>4, <2>5
<1>4. CentralSlope(m, d) = -CentralSlope(s, e)
  <2>2. PICK a, b \in Int : s[e] - s[e - 1] = 384 * a /\ s[e + 1] - s[e] = 384 * b
    BY <1>2
  <2>3. d \in Offsets /\ d - 1 \in Offsets /\ d + 1 \in Offsets
    BY DEF Offsets
  <2>5. -d = e /\ -(d - 1) = e + 1 /\ -(d + 1) = e - 1
    OBVIOUS
  <2> HIDE DEF m
  <2>4. m[d] = s[e] /\ m[d - 1] = s[-(d - 1)] /\ m[d + 1] = s[-(d + 1)]
    BY <1>1, <2>3, <2>5
  <2> USE DEF m
  <2>5a. s[e] \in Int /\ s[e + 1] \in Int /\ s[e - 1] \in Int
    BY <1>1 DEF Data, Offsets
  <2>6. m[d] - m[d - 1] = -(384 * b) /\ m[d + 1] - m[d] = -(384 * a)
    BY <2>2, <2>4, <2>5, <2>5a
  <2>7. /\ (-(384 * b) + -(384 * a)) \div 2 = -(192 * (a + b))
        /\ (384 * a + 384 * b) \div 2 = 192 * (a + b)
    OBVIOUS
  <2>8. CentralSlope(m, d) = Limited(-(192 * (a + b)), -(384 * b), -(384 * a))
    BY <2>6, <2>7, CentralSlopeAs
  <2>9. CentralSlope(s, e) = Limited(192 * (a + b), 384 * a, 384 * b)
    BY <2>2, <2>7, CentralSlopeAs
  <2>10. 192 * (a + b) \in Int /\ 384 * a \in Int /\ 384 * b \in Int
    OBVIOUS
  <2> QED
    BY <2>8, <2>9, <2>10, LimitedReversed
<1> QED
  BY <1>3, <1>4

\* The cell and its neighbours in whole multiples.
LEMMA MultipleOf ==
  ASSUME NEW s \in Multiples
  PROVE  \E a, b, c, d, e \in Int :
           s[-2] = 384 * a /\ s[-1] = 384 * b /\ s[0] = 384 * c /\ s[1] = 384 * d /\ s[2] = 384 * e
<1>1. -2 \in Offsets /\ -1 \in Offsets /\ 0 \in Offsets /\ 1 \in Offsets /\ 2 \in Offsets
  BY DEF Offsets
<1>2. \A x \in Offsets : \E n \in Int : s[x] = 384 * n
  BY DEF Multiples
<1> QED
  BY <1>1, <1>2

LEMMA MirroredAt ==
  ASSUME NEW s \in Multiples
  PROVE  /\ Mirrored(s)[-2] = s[2] /\ Mirrored(s)[-1] = s[1] /\ Mirrored(s)[0] = s[0]
         /\ Mirrored(s)[1] = s[-1] /\ Mirrored(s)[2] = s[-2]
         /\ s \in Data /\ Mirrored(s) \in Data
<1>1. s \in Data
  BY DEF Multiples
<1>2. -2 \in Offsets /\ -1 \in Offsets /\ 0 \in Offsets /\ 1 \in Offsets /\ 2 \in Offsets
  BY DEF Offsets
<1> QED
  BY <1>1, <1>2, MirroredOf

LEMMA WantedSlopeAs ==
  ASSUME NEW s, NEW x, NEW y,
         4 * ((s[0] - s[-1]) + (s[1] - s[0])) = x, CentralSlope(s, -1) + CentralSlope(s, 1) = y
  PROVE  WantedSlope(s, 4) = (x - y) \div 6
BY DEF WantedSlope

LEMMA PlmSlopeReversed ==
  ASSUME NEW s \in Multiples, NEW order \in Orders
  PROVE  plm_slope(Mirrored(s), order) = -plm_slope(s, order)
<1> DEFINE m == Mirrored(s)
<1>1. PICK a, b, c, d, e \in Int :
        s[-2] = 384 * a /\ s[-1] = 384 * b /\ s[0] = 384 * c /\ s[1] = 384 * d /\ s[2] = 384 * e
  BY MultipleOf
<1>2. m[-1] = s[1] /\ m[0] = s[0] /\ m[1] = s[-1] /\ s \in Data /\ m \in Data
  BY MirroredAt
<1>3. /\ CentralSlope(m, -1) = -CentralSlope(s, 1) /\ CentralSlope(m, 1) = -CentralSlope(s, -1)
      /\ \E n \in Int : CentralSlope(s, -1) = 192 * n
      /\ \E n \in Int : CentralSlope(s, 1) = 192 * n
  <2>1. -1 \in -2..2 /\ 1 \in -2..2 /\ -1 + 1 = 0 /\ 1 + -1 = 0
    OBVIOUS
  <2> QED
    BY <2>1, CentralSlopeReversed
<1> HIDE DEF m
<1>4. PICK i, j \in Int : CentralSlope(s, -1) = 192 * i /\ CentralSlope(s, 1) = 192 * j
  BY <1>3
<1> DEFINE dlft == s[0] - s[-1]
           drgt == s[1] - s[0]
           w == WantedSlope(s, order)
<1>5. WantedSlope(m, order) = -w /\ w \in Int
  <2>1. CASE order = 4
    <3> DEFINE x == 8 * (d - b) - (i + j)
    <3>1. x \in Int
      OBVIOUS
    <3>2. WantedSlope(s, order) = (192 * x) \div 6
      BY <1>1, <1>4, <2>1 DEF WantedSlope
    <3>3. WantedSlope(m, order) = (-(192 * x)) \div 6
      <4>1. 4 * ((m[0] - m[-1]) + (m[1] - m[0])) = 1536 * (b - d)
        BY <1>1, <1>2
      <4> DEFINE k == (0 - i) - j
      <4>2. CentralSlope(m, -1) + CentralSlope(m, 1) = 192 * k
        BY <1>3, <1>4
      <4>3. WantedSlope(m, order) = (1536 * (b - d) - 192 * k) \div 6
        BY <2>1, <4>1, <4>2, WantedSlopeAs
      <4>4. 1536 * (b - d) - 192 * k = -(192 * x)
        OBVIOUS
      <4> QED
        BY <4>3, <4>4
    <3>4. (192 * x) \div 6 = 32 * x /\ (-(192 * x)) \div 6 = -(32 * x)
      BY <3>1
    <3> QED
      BY <3>1, <3>2, <3>3, <3>4
  <2>2. CASE order # 4
    BY <1>1, <1>2, <2>2 DEF WantedSlope
  <2> QED
    BY <2>1, <2>2
<1>6. m[0] - m[-1] = -drgt /\ m[1] - m[0] = -dlft /\ dlft \in Int /\ drgt \in Int
  BY <1>1, <1>2
<1>7. plm_slope(m, order) = IF order = 1 THEN 0 ELSE Limited(-w, -drgt, -dlft)
  BY <1>2, <1>5, <1>6, PlmSlopeOf
<1>8. plm_slope(s, order) = IF order = 1 THEN 0 ELSE Limited(w, dlft, drgt)
  BY <1>2, PlmSlopeOf
<1> HIDE DEF dlft, drgt, w
<1>9. Limited(-w, -drgt, -dlft) = -Limited(w, dlft, drgt)
  BY <1>5, <1>6, LimitedReversed
<1> QED
  BY <1>7, <1>8, <1>9 DEF m

LEMMA VanLeerReversed ==
  ASSUME NEW a \in Int, NEW b \in Int, NEW c \in Int, NEW s, NEW m, NEW d \in Int, NEW e \in Int,
         s[d - 1] = 384 * a, s[d] = 384 * b, s[d + 1] = 384 * c,
         m[e - 1] = 384 * c, m[e] = 384 * b, m[e + 1] = 384 * a
  PROVE  /\ VanLeerSlope(m, e) = -VanLeerSlope(s, d)
         /\ \E n \in Int : VanLeerSlope(s, d) = 192 * n
<1> DEFINE l == 4 * (b - a)
           r == 4 * (c - b)
           k == c - a
           size == Lesser(Abs(k), Lesser(Abs(l), Abs(r)))
           n == IF (l > 0 /\ r > 0) \/ (l < 0 /\ r < 0) THEN CopySign(size, k) ELSE 0
<1>1. /\ 2 * (s[d] - s[d - 1]) = 192 * l /\ 2 * (s[d + 1] - s[d]) = 192 * r
      /\ (s[d + 1] - s[d - 1]) \div 2 = 192 * k
      /\ 2 * (m[e] - m[e - 1]) = -(192 * r) /\ 2 * (m[e + 1] - m[e]) = -(192 * l)
      /\ (m[e + 1] - m[e - 1]) \div 2 = -(192 * k)
      /\ l \in Int /\ r \in Int /\ k \in Int /\ 4 * k = l + r
  OBVIOUS
<1> HIDE DEF l, r, k
<1>2. n \in Int
  BY <1>1 DEF CopySign, Lesser, Abs
<1>3. VanLeerSlope(s, d) = 192 * n
  BY <1>1 DEF VanLeerSlope, CopySign, Lesser, Abs
<1>4. VanLeerSlope(m, e) = -(192 * n)
  BY <1>1 DEF VanLeerSlope, CopySign, Lesser, Abs
<1> QED
  BY <1>2, <1>3, <1>4

\* The faces' values: those of the reversed data are the other ones, and all
\* are whole multiples.
LEMMA EdgesReversed ==
  ASSUME NEW s \in Multiples
  PROVE  /\ EdgeAbove(Mirrored(s), -1) = EdgeAbove(s, 0)
         /\ EdgeAbove(Mirrored(s), 0) = EdgeAbove(s, -1)
         /\ \E n \in Int : EdgeAbove(s, -1) = 32 * n
         /\ \E n \in Int : EdgeAbove(s, 0) = 32 * n
<1> DEFINE m == Mirrored(s)
<1>1. PICK a, b, c, d, e \in Int :
        s[-2] = 384 * a /\ s[-1] = 384 * b /\ s[0] = 384 * c /\ s[1] = 384 * d /\ s[2] = 384 * e
  BY MultipleOf
<1>2. /\ m[-2] = s[2] /\ m[-1] = s[1] /\ m[0] = s[0] /\ m[1] = s[-1] /\ m[2] = s[-2]
  BY MirroredAt
<1> HIDE DEF m
<1>3. VanLeerSlope(m, 1) = -VanLeerSlope(s, -1) /\ \E n \in Int : VanLeerSlope(s, -1) = 192 * n
  <2>1. -1 - 1 = -2 /\ -1 + 1 = 0 /\ 1 - 1 = 0 /\ 1 + 1 = 2
    OBVIOUS
  <2> QED
    BY <1>1, <1>2, <2>1, VanLeerReversed
<1>4. VanLeerSlope(m, 0) = -VanLeerSlope(s, 0) /\ \E n \in Int : VanLeerSlope(s, 0) = 192 * n
  <2>1. 0 - 1 = -1 /\ 0 + 1 = 1
    OBVIOUS
  <2> QED
    BY <1>1, <1>2, <2>1, VanLeerReversed
<1>5. VanLeerSlope(m, -1) = -VanLeerSlope(s, 1) /\ \E n \in Int : VanLeerSlope(s, 1) = 192 * n
  <2>1. -1 - 1 = -2 /\ -1 + 1 = 0 /\ 1 - 1 = 0 /\ 1 + 1 = 2
    OBVIOUS
  <2> QED
    BY <1>1, <1>2, <2>1, VanLeerReversed
<1>6. PICK x, y, z \in Int : /\ VanLeerSlope(s, -1) = 192 * x
                             /\ VanLeerSlope(s, 0) = 192 * y
                             /\ VanLeerSlope(s, 1) = 192 * z
  BY <1>3, <1>4, <1>5
<1> DEFINE v == 6 * (b + c) - (y - x)
           w == 6 * (c + d) - (z - y)
           low == 32 * v
           high == 32 * w
           Between(x1, p, q) == Lesser(Greater(x1, Lesser(p, q)), Greater(p, q))
<1>7. -1 + 1 = 0 /\ 0 + 1 = 1
  OBVIOUS
<1>8. /\ EdgeAbove(s, -1) = Between(low, 384 * b, 384 * c)
      /\ EdgeAbove(m, 0) = Between(low, 384 * c, 384 * b)
  <2>1. /\ (3 * (s[-1] + s[0]) - (VanLeerSlope(s, 0) - VanLeerSlope(s, -1))) \div 6 = low
        /\ (3 * (m[0] + m[1]) - (VanLeerSlope(m, 1) - VanLeerSlope(m, 0))) \div 6 = low
    BY <1>1, <1>2, <1>3, <1>4, <1>6
  <2> HIDE DEF low
  <2> QED
    BY <1>1, <1>2, <1>7, <2>1 DEF EdgeAbove
<1>9. /\ EdgeAbove(s, 0) = Between(high, 384 * c, 384 * d)
      /\ EdgeAbove(m, -1) = Between(high, 384 * d, 384 * c)
  <2>1. /\ (3 * (s[0] + s[1]) - (VanLeerSlope(s, 1) - VanLeerSlope(s, 0))) \div 6 = high
        /\ (3 * (m[-1] + m[0]) - (VanLeerSlope(m, 0) - VanLeerSlope(m, -1))) \div 6 = high
    BY <1>1, <1>2, <1>4, <1>5, <1>6
  <2> HIDE DEF high
  <2> QED
    BY <1>1, <1>2, <1>7, <2>1 DEF EdgeAbove
<1>10. ASSUME NEW k \in Int, NEW p \in Int, NEW q \in Int
       PROVE  /\ Between(32 * k, 384 * p, 384 * q) = Between(32 * k, 384 * q, 384 * p)
              /\ \E n \in Int : Between(32 * k, 384 * p, 384 * q) = 32 * n
  <2>1. Between(32 * k, 384 * p, 384 * q) = 32 * Between(k, 12 * p, 12 * q)
    BY DEF Lesser, Greater
  <2>2. Between(k, 12 * p, 12 * q) \in Int
    BY DEF Lesser, Greater
  <2>3. Between(32 * k, 384 * p, 384 * q) = Between(32 * k, 384 * q, 384 * p)
    BY DEF Lesser, Greater
  <2> QED
    BY <2>1, <2>2, <2>3
<1>11. v \in Int /\ w \in Int
  OBVIOUS
<1> HIDE DEF Between, v, w
<1>12. EdgeAbove(m, 0) = EdgeAbove(s, -1) /\ \E n \in Int : EdgeAbove(s, -1) = 32 * n
  BY <1>8, <1>10, <1>11
<1>13. EdgeAbove(m, -1) = EdgeAbove(s, 0) /\ \E n \in Int : EdgeAbove(s, 0) = 32 * n
  BY <1>9, <1>10, <1>11
<1> QED
  BY <1>12, <1>13 DEF m

LEMMA QuadraticReversed ==
  ASSUME NEW c \in Int, NEW sm \in Int, NEW sp \in Int
  PROVE  LET edges == QuadraticLimit(c, sm, sp)
         IN  QuadraticLimit(c, sp, sm) = [sm |-> edges.sp, sp |-> edges.sm]
<1>1. CASE (sp <= c /\ c >= sm) \/ (sp >= c /\ c <= sm)
  BY <1>1 DEF QuadraticLimit
<1>2. CASE ~((sp <= c /\ c >= sm) \/ (sp >= c /\ c <= sm))
  <2>1. ~(Abs(sp - c) >= 2 * Abs(sm - c) /\ Abs(sm - c) >= 2 * Abs(sp - c))
    BY <1>2 DEF Abs
  <2> QED
    BY <1>2, <2>1 DEF QuadraticLimit
<1> QED
  BY <1>1, <1>2

LEMMA ReconstructedReversed ==
  ASSUME NEW s \in Multiples, NEW flat2 \in 0..2
  PROVE  LET edges == ppm_reconstruct(s, flat2)
         IN  ppm_reconstruct(Mirrored(s), flat2) = [sm |-> edges.sp, sp |-> edges.sm]
<1> DEFINE m == Mirrored(s)
           sm == Flattened(s, flat2, EdgeAbove(s, -1))
           sp == Flattened(s, flat2, EdgeAbove(s, 0))
<1>1. m[0] = s[0] /\ s \in Data
  BY MirroredAt
<1>2. EdgeAbove(m, -1) = EdgeAbove(s, 0) /\ EdgeAbove(m, 0) = EdgeAbove(s, -1)
  BY EdgesReversed
<1> HIDE DEF m
<1>3. ppm_reconstruct(m, flat2) = QuadraticLimit(s[0], sp, sm)
  <2>1. Flattened(m, flat2, EdgeAbove(s, 0)) = sp /\ Flattened(m, flat2, EdgeAbove(s, -1)) = sm
    BY <1>1 DEF Flattened
  <2> QED
    BY <1>1, <1>2, <2>1, FlattenedAs
<1>4. ppm_reconstruct(s, flat2) = QuadraticLimit(s[0], sm, sp)
  BY FlattenedAs
<1>5. sm \in Int /\ sp \in Int /\ s[0] \in Int
  <2>1. EdgeAbove(s, -1) \in Int /\ EdgeAbove(s, 0) \in Int /\ s[0] \in Int
    BY <1>1, EdgeBetween, DataType
  <2> QED
    BY <2>1, FlattenedOf DEF Flattened
<1> HIDE DEF sm, sp
<1> QED
  BY <1>3, <1>4, <1>5, QuadraticReversed DEF m

\* The edges of an unflattened parabola are whole multiples, too.
LEMMA ReconstructedMultiple ==
  ASSUME NEW s \in Multiples
  PROVE  LET edges == ppm_reconstruct(s, 2)
         IN  \E x, y, c \in Int : edges.sm = 32 * x /\ edges.sp = 32 * y /\ s[0] = 32 * c
<1>1. PICK i, j \in Int : EdgeAbove(s, -1) = 32 * i /\ EdgeAbove(s, 0) = 32 * j
  BY EdgesReversed
<1>2. PICK n \in Int : s[0] = 384 * n
  BY MultipleOf
<1>3. Flattened(s, 2, 32 * i) = 32 * i /\ Flattened(s, 2, 32 * j) = 32 * j
  BY <1>2 DEF Flattened
<1> DEFINE c == 12 * n
           edges == QuadraticLimit(32 * c, 32 * i, 32 * j)
<1>4. s[0] = 32 * c /\ c \in Int
  BY <1>2
<1>5. ppm_reconstruct(s, 2) = edges
  BY <1>1, <1>3, <1>4, FlattenedAs
<1>6. edges = [sm |-> 32 * QuadraticLimit(c, i, j).sm, sp |-> 32 * QuadraticLimit(c, i, j).sp]
  <2> HIDE DEF c
  <2>1. CASE (j <= c /\ c >= i) \/ (j >= c /\ c <= i)
    BY <1>4, <2>1 DEF QuadraticLimit
  <2>2. CASE ~((j <= c /\ c >= i) \/ (j >= c /\ c <= i))
    <3>1. /\ (Abs(32 * j - 32 * c) >= 2 * Abs(32 * i - 32 * c)) <=> (Abs(j - c) >= 2 * Abs(i - c))
          /\ (Abs(32 * i - 32 * c) >= 2 * Abs(32 * j - 32 * c)) <=> (Abs(i - c) >= 2 * Abs(j - c))
      BY <1>4 DEF Abs
    <3>2. ~((32 * j <= 32 * c /\ 32 * c >= 32 * i) \/ (32 * j >= 32 * c /\ 32 * c <= 32 * i))
      BY <1>4, <2>2
    <3>3. /\ 3 * (32 * c) - 2 * (32 * i) = 32 * (3 * c - 2 * i)
          /\ 3 * (32 * c) - 2 * (32 * j) = 32 * (3 * c - 2 * j)
      BY <1>4
    <3> QED
      BY <2>2, <3>1, <3>2, <3>3 DEF QuadraticLimit
  <2> QED
    BY <2>1, <2>2
<1>7. QuadraticLimit(c, i, j).sm \in Int /\ QuadraticLimit(c, i, j).sp \in Int
  BY <1>4, QuadraticOf
<1> HIDE DEF c, edges
<1>8. edges.sm = 32 * QuadraticLimit(c, i, j).sm /\ edges.sp = 32 * QuadraticLimit(c, i, j).sp
  BY <1>6
<1> QED
  BY <1>4, <1>5, <1>7, <1>8

LEMMA SweptReversed ==
  ASSUME NEW x \in Int, NEW y \in Int, NEW c \in Int, NEW u \in Speeds, NEW v \in Int, u + v = 0
  PROVE  LET I == ppm_int_profile_single(32 * x, 32 * y, 32 * c, u)
         IN  ppm_int_profile_single(32 * y, 32 * x, 32 * c, v) = [Ip |-> I.Im, Im |-> I.Ip]
<1>1. CASE u = -4
  <2>1. v = 4
    BY <1>1
  <2> QED
    BY <1>1, <2>1 DEF ppm_int_profile_single, Abs
<1>2. CASE u = -1
  <2>1. v = 1
    BY <1>2
  <2> QED
    BY <1>2, <2>1 DEF ppm_int_profile_single, Abs
<1>3. CASE u = 0
  <2>1. v = 0
    BY <1>3
  <2> QED
    BY <1>3, <2>1 DEF ppm_int_profile_single, Abs
<1>4. CASE u = 2
  <2>1. v = -2
    BY <1>4
  <2> QED
    BY <1>4, <2>1 DEF ppm_int_profile_single, Abs
<1>5. CASE u = 4
  <2>1. v = -4
    BY <1>5
  <2> QED
    BY <1>5, <2>1 DEF ppm_int_profile_single, Abs
<1> QED
  BY <1>1, <1>2, <1>3, <1>4, <1>5 DEF Speeds

\* The two halves of every WENO scheme, of which the code writes out both.
LEMMA WenoReversed ==
  ASSUME NEW s \in Data
  PROVE  LET m == Mirrored(s)
         IN  /\ Weno3(s).vr = Weno3(m).vl /\ Weno3Beta(s).r = Weno3Beta(m).l
             /\ Weno5(s).vr = Weno5(m).vl /\ Weno5Beta(s).r = Weno5Beta(m).l
             /\ Weno7(s).vr = Weno7(m).vl /\ Weno7Beta(s).r = Weno7Beta(m).l
<1> DEFINE m == Mirrored(s)
<1>1. /\ m[-3] = s[3] /\ m[-2] = s[2] /\ m[-1] = s[1] /\ m[0] = s[0]
      /\ m[1] = s[-1] /\ m[2] = s[-2] /\ m[3] = s[-3]
  <2>1. -3 \in Offsets /\ -2 \in Offsets /\ -1 \in Offsets /\ 0 \in Offsets
        /\ 1 \in Offsets /\ 2 \in Offsets /\ 3 \in Offsets
    BY DEF Offsets
  <2> QED
    BY <2>1, MirroredOf
<1>2. /\ s[-3] \in Int /\ s[-2] \in Int /\ s[-1] \in Int /\ s[0] \in Int
      /\ s[1] \in Int /\ s[2] \in Int /\ s[3] \in Int
  BY DataType
<1> HIDE DEF m
<1>3. Weno3(s).vr = Weno3(m).vl /\ Weno3Beta(s).r = Weno3Beta(m).l
  BY <1>1, <1>2 DEF Weno3, Weno3Beta
<1>4. Weno5(s).vr = Weno5(m).vl /\ Weno5Beta(s).r = Weno5Beta(m).l
  BY <1>1, <1>2 DEF Weno5, Weno5Beta
<1>5. Weno7(s).vr = Weno7(m).vl
  BY <1>1, <1>2 DEF Weno7
<1>6. Weno7Beta(s).r = Weno7Beta(m).l
  BY <1>1 DEF Weno7Beta
<1> QED
  BY <1>3, <1>4, <1>5, <1>6 DEF m

LEMMA MirrorSymmetricOf == averages \in Data => MirrorSymmetric
<1> SUFFICES ASSUME averages \in Data PROVE MirrorSymmetric
  OBVIOUS
<1> DEFINE q == Scaled
           m == Mirrored(q)
<1>1. q \in Multiples /\ q \in Data
  BY ScaledMultiples, ScaledType
<1> HIDE DEF q
<1>2. \A order \in Orders : plm_slope(m, order) = -plm_slope(q, order)
  BY <1>1, PlmSlopeReversed
<1>3. \A flat2 \in 0..2 : LET edges == ppm_reconstruct(q, flat2) IN
        ppm_reconstruct(m, flat2) = [sm |-> edges.sp, sp |-> edges.sm]
  BY <1>1, ReconstructedReversed
<1>4. \A u \in Speeds :
        LET edges == ppm_reconstruct(q, 2)
            I == ppm_int_profile_single(edges.sm, edges.sp, q[0], u)
        IN ppm_int_profile_single(edges.sp, edges.sm, q[0], -u) = [Ip |-> I.Im, Im |-> I.Ip]
  <2> DEFINE edges == ppm_reconstruct(q, 2)
  <2>1. PICK x, y, c \in Int : edges.sm = 32 * x /\ edges.sp = 32 * y /\ q[0] = 32 * c
    BY <1>1, ReconstructedMultiple
  <2> HIDE DEF edges
  <2>2. \A u \in Speeds :
          LET I == ppm_int_profile_single(edges.sm, edges.sp, q[0], u)
          IN ppm_int_profile_single(edges.sp, edges.sm, q[0], -u) = [Ip |-> I.Im, Im |-> I.Ip]
    <3>1. \A u \in Speeds : -u \in Int /\ u + -u = 0
      BY DEF Speeds
    <3> QED
      BY <2>1, <3>1, SweptReversed
  <2> QED
    BY <2>2 DEF edges
<1>5. LET n == Mirrored(averages)
      IN  /\ Weno3(averages).vr = Weno3(n).vl /\ Weno3Beta(averages).r = Weno3Beta(n).l
          /\ Weno5(averages).vr = Weno5(n).vl /\ Weno5Beta(averages).r = Weno5Beta(n).l
          /\ Weno7(averages).vr = Weno7(n).vl /\ Weno7Beta(averages).r = Weno7Beta(n).l
  BY WenoReversed
<1> QED
  BY <1>2, <1>3, <1>4, <1>5 DEF MirrorSymmetric, Orders, q

(***************************************************************************)
(* No scheme prefers a direction: for any cell averages, reversing them    *)
(* exchanges the two faces of every slope, parabola, swept average, WENO   *)
(* candidate and smoothness indicator that PLM.H, PPM.H, PPM.cpp and       *)
(* WENO.H write out for both.                                              *)
(***************************************************************************)
THEOREM ReconstructionsMirrorSymmetric == StencilSpec => []MirrorSymmetric
<1>1. StencilInv => MirrorSymmetric
  BY MirrorSymmetricOf DEF StencilInv
<1> QED
  BY <1>1, StencilInvariant, PTL

-----------------------------------------------------------------------------
(* Averages of polynomials.                                                *)

LEMMA CoefficientsNamed ==
  ASSUME NEW c \in [1..7 -> Int]
  PROVE  \E a, b, d, e, f, g, h \in Int : /\ c[1] = a /\ c[2] = b /\ c[3] = d /\ c[4] = e
                                         /\ c[5] = f /\ c[6] = g /\ c[7] = h
<1>1. /\ c[1] \in Int /\ c[2] \in Int /\ c[3] \in Int /\ c[4] \in Int
      /\ c[5] \in Int /\ c[6] \in Int /\ c[7] \in Int
  OBVIOUS
<1> WITNESS c[1] \in Int, c[2] \in Int, c[3] \in Int, c[4] \in Int, c[5] \in Int, c[6] \in Int, c[7] \in Int
<1> QED
  OBVIOUS

LEMMA PolynomialAveragesOf ==
  ASSUME NEW c \in [1..7 -> Int]
  PROVE  LET s == PolynomialAverages(c)
         IN  /\ s[-3] = c[1] - 7 * c[2] + 37 * c[3] - 175 * c[4] + 781 * c[5] - 3367 * c[6] + 14197 * c[7]
             /\ s[-2] = c[1] - 5 * c[2] + 19 * c[3] - 65 * c[4] + 211 * c[5] - 665 * c[6] + 2059 * c[7]
             /\ s[-1] = c[1] - 3 * c[2] + 7 * c[3] - 15 * c[4] + 31 * c[5] - 63 * c[6] + 127 * c[7]
             /\ s[0] = c[1] - c[2] + c[3] - c[4] + c[5] - c[6] + c[7]
             /\ s[1] = c[1] + c[2] + c[3] + c[4] + c[5] + c[6] + c[7]
             /\ s[2] = c[1] + 3 * c[2] + 7 * c[3] + 15 * c[4] + 31 * c[5] + 63 * c[6] + 127 * c[7]
             /\ s[3] = c[1] + 5 * c[2] + 19 * c[3] + 65 * c[4] + 211 * c[5] + 665 * c[6] + 2059 * c[7]
<1> DEFINE s == PolynomialAverages(c)
<1>1. PICK a, b, d, e, f, g, h \in Int : /\ c[1] = a /\ c[2] = b /\ c[3] = d /\ c[4] = e
                                        /\ c[5] = f /\ c[6] = g /\ c[7] = h
  BY CoefficientsNamed
<1>2. /\ s[-3] = Primitive(c, -3) - Primitive(c, -4) /\ s[-2] = Primitive(c, -2) - Primitive(c, -3)
      /\ s[-1] = Primitive(c, -1) - Primitive(c, -2) /\ s[0] = Primitive(c, 0) - Primitive(c, -1)
      /\ s[1] = Primitive(c, 1) - Primitive(c, 0) /\ s[2] = Primitive(c, 2) - Primitive(c, 1)
      /\ s[3] = Primitive(c, 3) - Primitive(c, 2)
  <2>1. -3 \in Offsets /\ -2 \in Offsets /\ -1 \in Offsets /\ 0 \in Offsets
        /\ 1 \in Offsets /\ 2 \in Offsets /\ 3 \in Offsets
    BY DEF Offsets
  <2>2. /\ -3 - 1 = -4 /\ -2 - 1 = -3 /\ -1 - 1 = -2 /\ 0 - 1 = -1
        /\ 1 - 1 = 0 /\ 2 - 1 = 1 /\ 3 - 1 = 2
    OBVIOUS
  <2> QED
    BY <2>1, <2>2 DEF PolynomialAverages
\* Horner's rule, multiplied out.
<1> DEFINE P(n) == n * (a + n * (b + n * (d + n * (e + n * (f + n * (g + n * h))))))
<1>3. \A n : Primitive(c, n) = P(n)
  BY <1>1 DEF Primitive
<1>4. P(-4) = -4 * a + 16 * b - 64 * d + 256 * e - 1024 * f + 4096 * g - 16384 * h
  BY Z3
<1>5. P(-3) = -3 * a + 9 * b - 27 * d + 81 * e - 243 * f + 729 * g - 2187 * h
  BY Z3
<1>6. P(-2) = -2 * a + 4 * b - 8 * d + 16 * e - 32 * f + 64 * g - 128 * h
  BY Z3
<1>7. P(-1) = -1 * a + b - d + e - f + g - h
  BY Z3
<1>8. P(0) = 0
  BY Z3
<1>9. P(1) = a + b + d + e + f + g + h
  BY Z3
<1>10. P(2) = 2 * a + 4 * b + 8 * d + 16 * e + 32 * f + 64 * g + 128 * h
  BY Z3
<1>11. P(3) = 3 * a + 9 * b + 27 * d + 81 * e + 243 * f + 729 * g + 2187 * h
  BY Z3
<1> HIDE DEF s, P
<1>12. s[-3] = a - 7 * b + 37 * d - 175 * e + 781 * f - 3367 * g + 14197 * h
  BY <1>2, <1>3, <1>5, <1>4
<1>13. s[-2] = a - 5 * b + 19 * d - 65 * e + 211 * f - 665 * g + 2059 * h
  BY <1>2, <1>3, <1>6, <1>5
<1>14. s[-1] = a - 3 * b + 7 * d - 15 * e + 31 * f - 63 * g + 127 * h
  BY <1>2, <1>3, <1>7, <1>6
<1>15. s[0] = a - b + d - e + f - g + h
  BY <1>2, <1>3, <1>8, <1>7
<1>16. s[1] = a + b + d + e + f + g + h
  BY <1>2, <1>3, <1>9, <1>8
<1>17. s[2] = a + 3 * b + 7 * d + 15 * e + 31 * f + 63 * g + 127 * h
  BY <1>2, <1>3, <1>10, <1>9
<1>18. s[3] = a + 5 * b + 19 * d + 65 * e + 211 * f + 665 * g + 2059 * h
  BY <1>2, <1>3, <1>11, <1>10
<1> QED
  BY <1>1, <1>12, <1>13, <1>14, <1>15, <1>16, <1>17, <1>18 DEF s

\* PolynomialsExact's clause for one scheme.
ExactFor(W, c, own, whole) ==
  /\ DegreeAtMost(c, own) => \A k \in DOMAIN W.ideal :
       W.vl[k] = W.common * UpperEdge(c) /\ W.vr[k] = W.common * LowerEdge(c)
  /\ DegreeAtMost(c, whole) =>
       LET total == W.common * IdealEdge([k \in DOMAIN W.ideal |-> 1], W.ideal)
       IN /\ IdealEdge(W.vl, W.ideal) = total * UpperEdge(c)
          /\ IdealEdge(W.vr, W.ideal) = total * LowerEdge(c)

LEMMA Weno3Exact ==
  ASSUME NEW c \in [1..7 -> Int], NEW s, s = PolynomialAverages(c)
  PROVE  ExactFor(Weno3(s), c, 1, 1)
<1> DEFINE W == Weno3(s)
<1>1. PICK a, b, d, e, f, g, h \in Int : /\ c[1] = a /\ c[2] = b /\ c[3] = d /\ c[4] = e
                                        /\ c[5] = f /\ c[6] = g /\ c[7] = h
  BY CoefficientsNamed
<1>2. PICK y3, y2, y1, x0, x1, x2, x3 \in Int :
        /\ s[-3] = y3 /\ y3 = a - 7 * b + 37 * d - 175 * e + 781 * f - 3367 * g + 14197 * h
        /\ s[-2] = y2 /\ y2 = a - 5 * b + 19 * d - 65 * e + 211 * f - 665 * g + 2059 * h
        /\ s[-1] = y1 /\ y1 = a - 3 * b + 7 * d - 15 * e + 31 * f - 63 * g + 127 * h
        /\ s[0] = x0 /\ x0 = a - b + d - e + f - g + h
        /\ s[1] = x1 /\ x1 = a + b + d + e + f + g + h
        /\ s[2] = x2 /\ x2 = a + 3 * b + 7 * d + 15 * e + 31 * f + 63 * g + 127 * h
        /\ s[3] = x3 /\ x3 = a + 5 * b + 19 * d + 65 * e + 211 * f + 665 * g + 2059 * h
  <2> DEFINE S(y3, y2, y1, x0, x1, x2, x3) ==
        /\ s[-3] = y3 /\ y3 = a - 7 * b + 37 * d - 175 * e + 781 * f - 3367 * g + 14197 * h
        /\ s[-2] = y2 /\ y2 = a - 5 * b + 19 * d - 65 * e + 211 * f - 665 * g + 2059 * h
        /\ s[-1] = y1 /\ y1 = a - 3 * b + 7 * d - 15 * e + 31 * f - 63 * g + 127 * h
        /\ s[0] = x0 /\ x0 = a - b + d - e + f - g + h
        /\ s[1] = x1 /\ x1 = a + b + d + e + f + g + h
        /\ s[2] = x2 /\ x2 = a + 3 * b + 7 * d + 15 * e + 31 * f + 63 * g + 127 * h
        /\ s[3] = x3 /\ x3 = a + 5 * b + 19 * d + 65 * e + 211 * f + 665 * g + 2059 * h
  <2>1. s[-3] \in Int /\ s[-2] \in Int /\ s[-1] \in Int /\ s[0] \in Int /\ s[1] \in Int /\ s[2] \in Int /\ s[3] \in Int
    BY <1>1, PolynomialAveragesOf
  <2>2. S(s[-3], s[-2], s[-1], s[0], s[1], s[2], s[3])
    BY <1>1, PolynomialAveragesOf
  <2> HIDE DEF S
  <2>3. \E y3, y2, y1, x0, x1, x2, x3 \in Int : S(y3, y2, y1, x0, x1, x2, x3)
    BY <2>1, <2>2
  <2> QED
    BY <2>3 DEF S
<1>3. /\ W.common = 2 /\ W.ideal = <<1, 2>> /\ DOMAIN W.ideal = 1..2
      /\ W.vl[1] = x0 + x1
      /\ W.vl[2] = -1 * y1 + 3 * x0
      /\ W.vr[1] = y1 + x0
      /\ W.vr[2] = 3 * x0 - x1
  BY <1>2 DEF Weno3
<1>4. UpperEdge(c) = a /\ LowerEdge(c) = a - 2 * b + 3 * d - 4 * e + 5 * f - 6 * g + 7 * h
  BY <1>1 DEF UpperEdge, LowerEdge
<1>5. ASSUME DegreeAtMost(c, 1)
      PROVE  \A k \in DOMAIN W.ideal :
               W.vl[k] = W.common * UpperEdge(c) /\ W.vr[k] = W.common * LowerEdge(c)
  <2>1. d = 0 /\ e = 0 /\ f = 0 /\ g = 0 /\ h = 0
    BY <1>1, <1>5 DEF DegreeAtMost
  <2>2. W.vl[1] = 2 * a /\ W.vr[1] = 2 * LowerEdge(c)
    BY <1>2, <1>3, <1>4, <2>1
  <2>3. W.vl[2] = 2 * a /\ W.vr[2] = 2 * LowerEdge(c)
    BY <1>2, <1>3, <1>4, <2>1
  <2>4. \A k \in 1..2 : k = 1 \/ k = 2
    OBVIOUS
  <2> QED
    BY <1>3, <1>4, <2>2, <2>3, <2>4
<1>6. /\ IdealEdge([k \in DOMAIN W.ideal |-> 1], W.ideal) = 3
      /\ IdealEdge(W.vl, W.ideal) = 1 * W.vl[1] + 2 * W.vl[2]
      /\ IdealEdge(W.vr, W.ideal) = 1 * W.vr[1] + 2 * W.vr[2]
  BY <1>2, <1>3 DEF IdealEdge
<1>7. ASSUME DegreeAtMost(c, 1)
      PROVE  /\ IdealEdge(W.vl, W.ideal) = 6 * UpperEdge(c)
             /\ IdealEdge(W.vr, W.ideal) = 6 * LowerEdge(c)
  <2>1. d = 0 /\ e = 0 /\ f = 0 /\ g = 0 /\ h = 0
    BY <1>1, <1>7 DEF DegreeAtMost
  <2> QED
    BY <1>2, <1>3, <1>4, <1>6, <2>1
<1> HIDE DEF W
<1>8. W.common * 3 = 6
  BY <1>3
<1>9. ExactFor(W, c, 1, 1)
  BY <1>5, <1>6, <1>7, <1>8 DEF ExactFor
<1> QED
  BY <1>9 DEF W

LEMMA Weno5Exact ==
  ASSUME NEW c \in [1..7 -> Int], NEW s, s = PolynomialAverages(c)
  PROVE  ExactFor(Weno5(s), c, 2, 4)
<1> DEFINE W == Weno5(s)
<1>1. PICK a, b, d, e, f, g, h \in Int : /\ c[1] = a /\ c[2] = b /\ c[3] = d /\ c[4] = e
                                        /\ c[5] = f /\ c[6] = g /\ c[7] = h
  BY CoefficientsNamed
<1>2. PICK y3, y2, y1, x0, x1, x2, x3 \in Int :
        /\ s[-3] = y3 /\ y3 = a - 7 * b + 37 * d - 175 * e + 781 * f - 3367 * g + 14197 * h
        /\ s[-2] = y2 /\ y2 = a - 5 * b + 19 * d - 65 * e + 211 * f - 665 * g + 2059 * h
        /\ s[-1] = y1 /\ y1 = a - 3 * b + 7 * d - 15 * e + 31 * f - 63 * g + 127 * h
        /\ s[0] = x0 /\ x0 = a - b + d - e + f - g + h
        /\ s[1] = x1 /\ x1 = a + b + d + e + f + g + h
        /\ s[2] = x2 /\ x2 = a + 3 * b + 7 * d + 15 * e + 31 * f + 63 * g + 127 * h
        /\ s[3] = x3 /\ x3 = a + 5 * b + 19 * d + 65 * e + 211 * f + 665 * g + 2059 * h
  <2> DEFINE S(y3, y2, y1, x0, x1, x2, x3) ==
        /\ s[-3] = y3 /\ y3 = a - 7 * b + 37 * d - 175 * e + 781 * f - 3367 * g + 14197 * h
        /\ s[-2] = y2 /\ y2 = a - 5 * b + 19 * d - 65 * e + 211 * f - 665 * g + 2059 * h
        /\ s[-1] = y1 /\ y1 = a - 3 * b + 7 * d - 15 * e + 31 * f - 63 * g + 127 * h
        /\ s[0] = x0 /\ x0 = a - b + d - e + f - g + h
        /\ s[1] = x1 /\ x1 = a + b + d + e + f + g + h
        /\ s[2] = x2 /\ x2 = a + 3 * b + 7 * d + 15 * e + 31 * f + 63 * g + 127 * h
        /\ s[3] = x3 /\ x3 = a + 5 * b + 19 * d + 65 * e + 211 * f + 665 * g + 2059 * h
  <2>1. s[-3] \in Int /\ s[-2] \in Int /\ s[-1] \in Int /\ s[0] \in Int /\ s[1] \in Int /\ s[2] \in Int /\ s[3] \in Int
    BY <1>1, PolynomialAveragesOf
  <2>2. S(s[-3], s[-2], s[-1], s[0], s[1], s[2], s[3])
    BY <1>1, PolynomialAveragesOf
  <2> HIDE DEF S
  <2>3. \E y3, y2, y1, x0, x1, x2, x3 \in Int : S(y3, y2, y1, x0, x1, x2, x3)
    BY <2>1, <2>2
  <2> QED
    BY <2>3 DEF S
<1>3. /\ W.common = 6 /\ W.ideal = <<3, 6, 1>> /\ DOMAIN W.ideal = 1..3
      /\ W.vl[1] = 2 * x0 + 5 * x1 - x2
      /\ W.vl[2] = -1 * y1 + 5 * x0 + 2 * x1
      /\ W.vl[3] = 2 * y2 - 7 * y1 + 11 * x0
      /\ W.vr[1] = -1 * y2 + 5 * y1 + 2 * x0
      /\ W.vr[2] = 2 * y1 + 5 * x0 - x1
      /\ W.vr[3] = 11 * x0 - 7 * x1 + 2 * x2
  BY <1>2 DEF Weno5
<1>4. UpperEdge(c) = a /\ LowerEdge(c) = a - 2 * b + 3 * d - 4 * e + 5 * f - 6 * g + 7 * h
  BY <1>1 DEF UpperEdge, LowerEdge
<1>5. ASSUME DegreeAtMost(c, 2)
      PROVE  \A k \in DOMAIN W.ideal :
               W.vl[k] = W.common * UpperEdge(c) /\ W.vr[k] = W.common * LowerEdge(c)
  <2>1. e = 0 /\ f = 0 /\ g = 0 /\ h = 0
    BY <1>1, <1>5 DEF DegreeAtMost
  <2>2. W.vl[1] = 6 * a /\ W.vr[1] = 6 * LowerEdge(c)
    BY <1>2, <1>3, <1>4, <2>1
  <2>3. W.vl[2] = 6 * a /\ W.vr[2] = 6 * LowerEdge(c)
    BY <1>2, <1>3, <1>4, <2>1
  <2>4. W.vl[3] = 6 * a /\ W.vr[3] = 6 * LowerEdge(c)
    BY <1>2, <1>3, <1>4, <2>1
  <2>5. \A k \in 1..3 : k = 1 \/ k = 2 \/ k = 3
    OBVIOUS
  <2> QED
    BY <1>3, <1>4, <2>2, <2>3, <2>4, <2>5
<1>6. /\ IdealEdge([k \in DOMAIN W.ideal |-> 1], W.ideal) = 10
      /\ IdealEdge(W.vl, W.ideal) = 3 * W.vl[1] + 6 * W.vl[2] + 1 * W.vl[3]
      /\ IdealEdge(W.vr, W.ideal) = 3 * W.vr[1] + 6 * W.vr[2] + 1 * W.vr[3]
  BY <1>2, <1>3 DEF IdealEdge
<1>7. ASSUME DegreeAtMost(c, 4)
      PROVE  /\ IdealEdge(W.vl, W.ideal) = 60 * UpperEdge(c)
             /\ IdealEdge(W.vr, W.ideal) = 60 * LowerEdge(c)
  <2>1. g = 0 /\ h = 0
    BY <1>1, <1>7 DEF DegreeAtMost
  <2> QED
    BY <1>2, <1>3, <1>4, <1>6, <2>1
<1> HIDE DEF W
<1>8. W.common * 10 = 60
  BY <1>3
<1>9. ExactFor(W, c, 2, 4)
  BY <1>5, <1>6, <1>7, <1>8 DEF ExactFor
<1> QED
  BY <1>9 DEF W

LEMMA Weno7Exact ==
  ASSUME NEW c \in [1..7 -> Int], NEW s, s = PolynomialAverages(c)
  PROVE  ExactFor(Weno7(s), c, 3, 6)
<1> DEFINE W == Weno7(s)
<1>1. PICK a, b, d, e, f, g, h \in Int : /\ c[1] = a /\ c[2] = b /\ c[3] = d /\ c[4] = e
                                        /\ c[5] = f /\ c[6] = g /\ c[7] = h
  BY CoefficientsNamed
<1>2. PICK y3, y2, y1, x0, x1, x2, x3 \in Int :
        /\ s[-3] = y3 /\ y3 = a - 7 * b + 37 * d - 175 * e + 781 * f - 3367 * g + 14197 * h
        /\ s[-2] = y2 /\ y2 = a - 5 * b + 19 * d - 65 * e + 211 * f - 665 * g + 2059 * h
        /\ s[-1] = y1 /\ y1 = a - 3 * b + 7 * d - 15 * e + 31 * f - 63 * g + 127 * h
        /\ s[0] = x0 /\ x0 = a - b + d - e + f - g + h
        /\ s[1] = x1 /\ x1 = a + b + d + e + f + g + h
        /\ s[2] = x2 /\ x2 = a + 3 * b + 7 * d + 15 * e + 31 * f + 63 * g + 127 * h
        /\ s[3] = x3 /\ x3 = a + 5 * b + 19 * d + 65 * e + 211 * f + 665 * g + 2059 * h
  <2> DEFINE S(y3, y2, y1, x0, x1, x2, x3) ==
        /\ s[-3] = y3 /\ y3 = a - 7 * b + 37 * d - 175 * e + 781 * f - 3367 * g + 14197 * h
        /\ s[-2] = y2 /\ y2 = a - 5 * b + 19 * d - 65 * e + 211 * f - 665 * g + 2059 * h
        /\ s[-1] = y1 /\ y1 = a - 3 * b + 7 * d - 15 * e + 31 * f - 63 * g + 127 * h
        /\ s[0] = x0 /\ x0 = a - b + d - e + f - g + h
        /\ s[1] = x1 /\ x1 = a + b + d + e + f + g + h
        /\ s[2] = x2 /\ x2 = a + 3 * b + 7 * d + 15 * e + 31 * f + 63 * g + 127 * h
        /\ s[3] = x3 /\ x3 = a + 5 * b + 19 * d + 65 * e + 211 * f + 665 * g + 2059 * h
  <2>1. s[-3] \in Int /\ s[-2] \in Int /\ s[-1] \in Int /\ s[0] \in Int /\ s[1] \in Int /\ s[2] \in Int /\ s[3] \in Int
    BY <1>1, PolynomialAveragesOf
  <2>2. S(s[-3], s[-2], s[-1], s[0], s[1], s[2], s[3])
    BY <1>1, PolynomialAveragesOf
  <2> HIDE DEF S
  <2>3. \E y3, y2, y1, x0, x1, x2, x3 \in Int : S(y3, y2, y1, x0, x1, x2, x3)
    BY <2>1, <2>2
  <2> QED
    BY <2>3 DEF S
<1>3. /\ W.common = 12 /\ W.ideal = <<4, 18, 12, 1>> /\ DOMAIN W.ideal = 1..4
      /\ W.vl[1] = 3 * x0 + 13 * x1 - 5 * x2 + x3
      /\ W.vl[2] = -1 * y1 + 7 * x0 + 7 * x1 - x2
      /\ W.vl[3] = y2 - 5 * y1 + 13 * x0 + 3 * x1
      /\ W.vl[4] = -3 * y3 + 13 * y2 - 23 * y1 + 25 * x0
      /\ W.vr[1] = y3 - 5 * y2 + 13 * y1 + 3 * x0
      /\ W.vr[2] = -1 * y2 + 7 * y1 + 7 * x0 - x1
      /\ W.vr[3] = 3 * y1 + 13 * x0 - 5 * x1 + x2
      /\ W.vr[4] = 25 * x0 - 23 * x1 + 13 * x2 - 3 * x3
  BY <1>2 DEF Weno7
<1>4. UpperEdge(c) = a /\ LowerEdge(c) = a - 2 * b + 3 * d - 4 * e + 5 * f - 6 * g + 7 * h
  BY <1>1 DEF UpperEdge, LowerEdge
<1>5. ASSUME DegreeAtMost(c, 3)
      PROVE  \A k \in DOMAIN W.ideal :
               W.vl[k] = W.common * UpperEdge(c) /\ W.vr[k] = W.common * LowerEdge(c)
  <2>1. f = 0 /\ g = 0 /\ h = 0
    BY <1>1, <1>5 DEF DegreeAtMost
  <2>2. W.vl[1] = 12 * a /\ W.vr[1] = 12 * LowerEdge(c)
    BY <1>2, <1>3, <1>4, <2>1
  <2>3. W.vl[2] = 12 * a /\ W.vr[2] = 12 * LowerEdge(c)
    BY <1>2, <1>3, <1>4, <2>1
  <2>4. W.vl[3] = 12 * a /\ W.vr[3] = 12 * LowerEdge(c)
    BY <1>2, <1>3, <1>4, <2>1
  <2>5. W.vl[4] = 12 * a /\ W.vr[4] = 12 * LowerEdge(c)
    BY <1>2, <1>3, <1>4, <2>1
  <2>6. \A k \in 1..4 : k = 1 \/ k = 2 \/ k = 3 \/ k = 4
    OBVIOUS
  <2> QED
    BY <1>3, <1>4, <2>2, <2>3, <2>4, <2>5, <2>6
<1>6. /\ IdealEdge([k \in DOMAIN W.ideal |-> 1], W.ideal) = 35
      /\ IdealEdge(W.vl, W.ideal) = 4 * W.vl[1] + 18 * W.vl[2] + 12 * W.vl[3] + 1 * W.vl[4]
      /\ IdealEdge(W.vr, W.ideal) = 4 * W.vr[1] + 18 * W.vr[2] + 12 * W.vr[3] + 1 * W.vr[4]
  BY <1>2, <1>3 DEF IdealEdge
<1>7. ASSUME DegreeAtMost(c, 6)
      PROVE  /\ IdealEdge(W.vl, W.ideal) = 420 * UpperEdge(c)
             /\ IdealEdge(W.vr, W.ideal) = 420 * LowerEdge(c)
  BY <1>2, <1>3, <1>4, <1>6
<1> HIDE DEF W
<1>8. W.common * 35 = 420
  BY <1>3
<1>9. ExactFor(W, c, 3, 6)
  BY <1>5, <1>6, <1>7, <1>8 DEF ExactFor
<1> QED
  BY <1>9 DEF W

\* Two numbers of a line, multiplied.
LEMMA LineProduct ==
  ASSUME NEW p \in Int, NEW h \in Int, NEW i \in Int, NEW m \in Int, NEW n \in Int
  PROVE  (p + i * h) * (m * p + n * h) = m * (p * p) + (n + i * m) * (p * h) + (i * n) * (h * h)
  BY Z3

Steps(a, b, c, d, e, f, g, h) ==
  /\ a = d - 3 * h /\ b = d - 2 * h /\ c = d - h
  /\ e = d + h /\ f = d + 2 * h /\ g = d + 3 * h

StepIndicator(h) == 240 * (h * h)

FourEqual(b, x) == DOMAIN b = 1..4 /\ \A k \in 1..4 : b[k] = x

LEMMA Beta7OnLine ==
  ASSUME NEW a \in Int, NEW b \in Int, NEW c \in Int, NEW d \in Int, NEW e \in Int, NEW f \in Int,
         NEW g \in Int, NEW h \in Int, Steps(a, b, c, d, e, f, g, h)
  PROVE  FourEqual(Beta7(a, b, c, d, e, f, g), StepIndicator(h))
<1> USE DEF Steps, StepIndicator
<1>1. PICK dd, dh, hh \in Int : dd = d * d /\ dh = d * h /\ hh = h * h
  OBVIOUS
<1> DEFINE P(i, m, n) == (d + i * h) * (m * d + n * h)
<1>2. \A i, m, n \in Int : P(i, m, n) = m * dd + (n + i * m) * dh + (i * n) * hh
  BY <1>1, LineProduct
<1> HIDE DEF P
<1>3. d * (2107 * d - 9402 * e + 7042 * f - 1854 * g) = -2107 * dd - 880 * dh
  <2>1. 2107 * d - 9402 * e + 7042 * f - 1854 * g = -2107 * d + -880 * h
    OBVIOUS
  <2>2. d = d + 0 * h
    OBVIOUS
  <2>3. d * (2107 * d - 9402 * e + 7042 * f - 1854 * g) = P(0, -2107, -880)
    BY <2>1, <2>2 DEF P
  <2>4. P(0, -2107, -880) = -2107 * dd - 880 * dh
    BY <1>1, <1>2
  <2> QED
    BY <2>3, <2>4
<1>4. e * (11003 * e - 17246 * f + 4642 * g) = -1601 * dd - 11164 * dh - 9563 * hh
  <2>1. 11003 * e - 17246 * f + 4642 * g = -1601 * d + -9563 * h
    OBVIOUS
  <2>2. e = d + 1 * h
    OBVIOUS
  <2>3. e * (11003 * e - 17246 * f + 4642 * g) = P(1, -1601, -9563)
    BY <2>1, <2>2 DEF P
  <2>4. P(1, -1601, -9563) = -1601 * dd - 11164 * dh - 9563 * hh
    BY <1>1, <1>2
  <2> QED
    BY <2>3, <2>4
<1>5. f * (7043 * f - 3882 * g) = 3161 * dd + 8762 * dh + 4880 * hh
  <2>1. 7043 * f - 3882 * g = 3161 * d + 2440 * h
    OBVIOUS
  <2>2. f = d + 2 * h
    OBVIOUS
  <2>3. f * (7043 * f - 3882 * g) = P(2, 3161, 2440)
    BY <2>1, <2>2 DEF P
  <2>4. P(2, 3161, 2440) = 3161 * dd + 8762 * dh + 4880 * hh
    BY <1>1, <1>2
  <2> QED
    BY <2>3, <2>4
<1>6. 547 * g * g = 547 * dd + 3282 * dh + 4923 * hh
  <2>1. 547 * g = 547 * d + 1641 * h
    OBVIOUS
  <2>2. g = d + 3 * h
    OBVIOUS
  <2>3. g * (547 * g) = P(3, 547, 1641)
    BY <2>1, <2>2 DEF P
  <2>4. P(3, 547, 1641) = 547 * dd + 3282 * dh + 4923 * hh
    BY <1>1, <1>2
  <2> QED
    BY <2>3, <2>4
<1>7. c * (547 * c - 2522 * d + 1922 * e - 494 * f) = -547 * dd + 934 * dh - 387 * hh
  <2>1. 547 * c - 2522 * d + 1922 * e - 494 * f = -547 * d + 387 * h
    OBVIOUS
  <2>2. c = d + -1 * h
    OBVIOUS
  <2>3. c * (547 * c - 2522 * d + 1922 * e - 494 * f) = P(-1, -547, 387)
    BY <2>1, <2>2 DEF P
  <2>4. P(-1, -547, 387) = -547 * dd + 934 * dh - 387 * hh
    BY <1>1, <1>2
  <2> QED
    BY <2>3, <2>4
<1>8. d * (3443 * d - 5966 * e + 1602 * f) = -921 * dd - 2762 * dh
  <2>1. 3443 * d - 5966 * e + 1602 * f = -921 * d + -2762 * h
    OBVIOUS
  <2>2. d = d + 0 * h
    OBVIOUS
  <2>3. d * (3443 * d - 5966 * e + 1602 * f) = P(0, -921, -2762)
    BY <2>1, <2>2 DEF P
  <2>4. P(0, -921, -2762) = -921 * dd - 2762 * dh
    BY <1>1, <1>2
  <2> QED
    BY <2>3, <2>4
<1>9. e * (2843 * e - 1642 * f) = 1201 * dd + 760 * dh - 441 * hh
  <2>1. 2843 * e - 1642 * f = 1201 * d + -441 * h
    OBVIOUS
  <2>2. e = d + 1 * h
    OBVIOUS
  <2>3. e * (2843 * e - 1642 * f) = P(1, 1201, -441)
    BY <2>1, <2>2 DEF P
  <2>4. P(1, 1201, -441) = 1201 * dd + 760 * dh - 441 * hh
    BY <1>1, <1>2
  <2> QED
    BY <2>3, <2>4
<1>10. 267 * f * f = 267 * dd + 1068 * dh + 1068 * hh
  <2>1. 267 * f = 267 * d + 534 * h
    OBVIOUS
  <2>2. f = d + 2 * h
    OBVIOUS
  <2>3. f * (267 * f) = P(2, 267, 534)
    BY <2>1, <2>2 DEF P
  <2>4. P(2, 267, 534) = 267 * dd + 1068 * dh + 1068 * hh
    BY <1>1, <1>2
  <2> QED
    BY <2>3, <2>4
<1>11. b * (267 * b - 1642 * c + 1602 * d - 494 * e) = -267 * dd + 1148 * dh - 1228 * hh
  <2>1. 267 * b - 1642 * c + 1602 * d - 494 * e = -267 * d + 614 * h
    OBVIOUS
  <2>2. b = d + -2 * h
    OBVIOUS
  <2>3. b * (267 * b - 1642 * c + 1602 * d - 494 * e) = P(-2, -267, 614)
    BY <2>1, <2>2 DEF P
  <2>4. P(-2, -267, 614) = -267 * dd + 1148 * dh - 1228 * hh
    BY <1>1, <1>2
  <2> QED
    BY <2>3, <2>4
<1>12. c * (2843 * c - 5966 * d + 1922 * e) = -1201 * dd + 280 * dh + 921 * hh
  <2>1. 2843 * c - 5966 * d + 1922 * e = -1201 * d + -921 * h
    OBVIOUS
  <2>2. c = d + -1 * h
    OBVIOUS
  <2>3. c * (2843 * c - 5966 * d + 1922 * e) = P(-1, -1201, -921)
    BY <2>1, <2>2 DEF P
  <2>4. P(-1, -1201, -921) = -1201 * dd + 280 * dh + 921 * hh
    BY <1>1, <1>2
  <2> QED
    BY <2>3, <2>4
<1>13. d * (3443 * d - 2522 * e) = 921 * dd - 2522 * dh
  <2>1. 3443 * d - 2522 * e = 921 * d + -2522 * h
    OBVIOUS
  <2>2. d = d + 0 * h
    OBVIOUS
  <2>3. d * (3443 * d - 2522 * e) = P(0, 921, -2522)
    BY <2>1, <2>2 DEF P
  <2>4. P(0, 921, -2522) = 921 * dd - 2522 * dh
    BY <1>1, <1>2
  <2> QED
    BY <2>3, <2>4
<1>14. 547 * e * e = 547 * dd + 1094 * dh + 547 * hh
  <2>1. 547 * e = 547 * d + 547 * h
    OBVIOUS
  <2>2. e = d + 1 * h
    OBVIOUS
  <2>3. e * (547 * e) = P(1, 547, 547)
    BY <2>1, <2>2 DEF P
  <2>4. P(1, 547, 547) = 547 * dd + 1094 * dh + 547 * hh
    BY <1>1, <1>2
  <2> QED
    BY <2>3, <2>4
<1>15. a * (547 * a - 3882 * b + 4642 * c - 1854 * d) = -547 * dd + 3122 * dh - 4443 * hh
  <2>1. 547 * a - 3882 * b + 4642 * c - 1854 * d = -547 * d + 1481 * h
    OBVIOUS
  <2>2. a = d + -3 * h
    OBVIOUS
  <2>3. a * (547 * a - 3882 * b + 4642 * c - 1854 * d) = P(-3, -547, 1481)
    BY <2>1, <2>2 DEF P
  <2>4. P(-3, -547, 1481) = -547 * dd + 3122 * dh - 4443 * hh
    BY <1>1, <1>2
  <2> QED
    BY <2>3, <2>4
<1>16. b * (7043 * b - 17246 * c + 7042 * d) = -3161 * dd + 9482 * dh - 6320 * hh
  <2>1. 7043 * b - 17246 * c + 7042 * d = -3161 * d + 3160 * h
    OBVIOUS
  <2>2. b = d + -2 * h
    OBVIOUS
  <2>3. b * (7043 * b - 17246 * c + 7042 * d) = P(-2, -3161, 3160)
    BY <2>1, <2>2 DEF P
  <2>4. P(-2, -3161, 3160) = -3161 * dd + 9482 * dh - 6320 * hh
    BY <1>1, <1>2
  <2> QED
    BY <2>3, <2>4
<1>17. c * (11003 * c - 9402 * d) = 1601 * dd - 12604 * dh + 11003 * hh
  <2>1. 11003 * c - 9402 * d = 1601 * d + -11003 * h
    OBVIOUS
  <2>2. c = d + -1 * h
    OBVIOUS
  <2>3. c * (11003 * c - 9402 * d) = P(-1, 1601, -11003)
    BY <2>1, <2>2 DEF P
  <2>4. P(-1, 1601, -11003) = 1601 * dd - 12604 * dh + 11003 * hh
    BY <1>1, <1>2
  <2> QED
    BY <2>3, <2>4
<1>18. 2107 * d * d = 2107 * dd
  <2>1. 2107 * d = 2107 * d + 0 * h
    OBVIOUS
  <2>2. d = d + 0 * h
    OBVIOUS
  <2>3. d * (2107 * d) = P(0, 2107, 0)
    BY <2>1, <2>2 DEF P
  <2>4. P(0, 2107, 0) = 2107 * dd
    BY <1>1, <1>2
  <2> QED
    BY <2>3, <2>4
<1>19. DOMAIN Beta7(a, b, c, d, e, f, g) = 1..4
  BY DEF Beta7
<1>20. Beta7(a, b, c, d, e, f, g)[1] = 240 * hh
  BY <1>1, <1>3, <1>4, <1>5, <1>6 DEF Beta7
<1>21. Beta7(a, b, c, d, e, f, g)[2] = 240 * hh
  BY <1>1, <1>7, <1>8, <1>9, <1>10 DEF Beta7
<1>22. Beta7(a, b, c, d, e, f, g)[3] = 240 * hh
  BY <1>1, <1>11, <1>12, <1>13, <1>14 DEF Beta7
<1>23. Beta7(a, b, c, d, e, f, g)[4] = 240 * hh
  BY <1>1, <1>15, <1>16, <1>17, <1>18 DEF Beta7
<1> QED
  BY <1>1, <1>19, <1>20, <1>21, <1>22, <1>23 DEF FourEqual

\* The indicators on a line, in terms of its step alone.
LEMMA Beta7OfStep ==
  ASSUME NEW p \in Int, NEW h \in Int
  PROVE  FourEqual(Beta7(p - 3 * h, p - 2 * h, p - h, p, p + h, p + 2 * h, p + 3 * h), StepIndicator(h))
<1>1. PICK a, b, c, e, f, g \in Int : Steps(a, b, c, p, e, f, g, h)
  <2>1. /\ p - 3 * h \in Int /\ p - 2 * h \in Int /\ p - h \in Int
        /\ p + h \in Int /\ p + 2 * h \in Int /\ p + 3 * h \in Int
    OBVIOUS
  <2>2. Steps(p - 3 * h, p - 2 * h, p - h, p, p + h, p + 2 * h, p + 3 * h, h)
    BY DEF Steps
  <2> WITNESS p - 3 * h \in Int, p - 2 * h \in Int, p - h \in Int,
              p + h \in Int, p + 2 * h \in Int, p + 3 * h \in Int
  <2> QED
    BY <2>2
<1>2. FourEqual(Beta7(a, b, c, p, e, f, g), StepIndicator(h))
  BY <1>1, Beta7OnLine
<1> QED
  BY <1>1, <1>2 DEF Steps

-----------------------------------------------------------------------------
(* Averages of a line: equal steps h from the cell's own average p.        *)

OnLine(s, p, h) ==
  /\ s[-3] = p - 3 * h /\ s[-2] = p - 2 * h /\ s[-1] = p - h /\ s[0] = p
  /\ s[1] = p + h /\ s[2] = p + 2 * h /\ s[3] = p + 3 * h

LEMMA AveragesOnLine ==
  ASSUME NEW c \in [1..7 -> Int], DegreeAtMost(c, 1)
  PROVE  /\ OnLine(PolynomialAverages(c), c[1] - c[2], 2 * c[2])
         /\ UpperEdge(c) = c[1] /\ LowerEdge(c) = c[1] - 2 * c[2]
<1>1. PICK a, b \in Int : c[1] = a /\ c[2] = b
  OBVIOUS
<1>2. c[3] = 0 /\ c[4] = 0 /\ c[5] = 0 /\ c[6] = 0 /\ c[7] = 0
  BY DEF DegreeAtMost
<1> DEFINE s == PolynomialAverages(c)
<1>3. /\ s[-3] = a - 7 * b /\ s[-2] = a - 5 * b /\ s[-1] = a - 3 * b /\ s[0] = a - b
      /\ s[1] = a + b /\ s[2] = a + 3 * b /\ s[3] = a + 5 * b
  BY <1>1, <1>2, PolynomialAveragesOf
<1> HIDE DEF s
<1>4. OnLine(s, a - b, 2 * b)
  BY <1>1, <1>3 DEF OnLine
<1> QED
  BY <1>1, <1>2, <1>4 DEF s, UpperEdge, LowerEdge

\* PolynomialsExact's clause for the indicators of one scheme.
EvenFor(b, c) ==
  /\ \A k \in DOMAIN b.l : b.l[k] = b.l[1] /\ b.r[k] = b.l[1]
  /\ b.l[1] = 0 <=> c[2] = 0

LEMMA SquareOfStep ==
  ASSUME NEW b \in Int, NEW h \in Int, h = 2 * b
  PROVE  /\ h * h \in Int /\ Square(h) = h * h /\ Square(-h) = h * h /\ Square(0) = 0
         /\ Square(2 * h) = 4 * (h * h) /\ Square(-2 * h) = 4 * (h * h)
         /\ (h * h = 0 <=> b = 0)
<1>1. h * h \in Int /\ Square(h) = h * h /\ Square(0) = 0
  BY DEF Square
<1>2. Square(-h) = h * h
  BY Z3 DEF Square
<1>3. Square(2 * h) = 4 * (h * h)
  BY Z3 DEF Square
<1>4. Square(-2 * h) = 4 * (h * h)
  BY Z3 DEF Square
<1>5. h * h = 0 <=> b = 0
  <2>1. h = 0 <=> b = 0
    OBVIOUS
  <2>2. h > 0 => h * h > 0
    BY Z3
  <2>3. h < 0 => h * h > 0
    BY Z3
  <2> QED
    BY <1>1, <2>1, <2>2, <2>3
<1> QED
  BY <1>1, <1>2, <1>3, <1>4, <1>5

LEMMA IndicatorsEven ==
  ASSUME NEW c \in [1..7 -> Int], NEW s, NEW p \in Int, OnLine(s, p, 2 * c[2])
  PROVE  EvenFor(Weno3Beta(s), c) /\ EvenFor(Weno5Beta(s), c) /\ EvenFor(Weno7Beta(s), c)
<1>1. PICK b, h \in Int : b = c[2] /\ h = 2 * b
  OBVIOUS
<1>2. PICK hh \in Int : hh = h * h
  OBVIOUS
<1>3. /\ Square(h) = hh /\ Square(-h) = hh /\ Square(0) = 0
      /\ Square(2 * h) = 4 * hh /\ Square(-2 * h) = 4 * hh /\ (hh = 0 <=> b = 0)
  BY <1>1, <1>2, SquareOfStep
<1>4. PICK y3, y2, y1, x1, x2, x3 \in Int :
        /\ s[-3] = y3 /\ s[-2] = y2 /\ s[-1] = y1 /\ s[0] = p /\ s[1] = x1 /\ s[2] = x2 /\ s[3] = x3
        /\ y3 = p - 3 * h /\ y2 = p - 2 * h /\ y1 = p - h
        /\ x1 = p + h /\ x2 = p + 2 * h /\ x3 = p + 3 * h
  <2>1. /\ s[-3] = p - 3 * h /\ s[-2] = p - 2 * h /\ s[-1] = p - h /\ s[0] = p
        /\ s[1] = p + h /\ s[2] = p + 2 * h /\ s[3] = p + 3 * h
    BY <1>1 DEF OnLine
  <2>2. /\ p - 3 * h \in Int /\ p - 2 * h \in Int /\ p - h \in Int
        /\ p + h \in Int /\ p + 2 * h \in Int /\ p + 3 * h \in Int
    OBVIOUS
  <2> WITNESS p - 3 * h \in Int, p - 2 * h \in Int, p - h \in Int,
              p + h \in Int, p + 2 * h \in Int, p + 3 * h \in Int
  <2> QED
    BY <2>1
<1>5. EvenFor(Weno3Beta(s), c)
  <2>1. p - x1 = -h /\ y1 - p = -h /\ p - y1 = h /\ x1 - p = h
    BY <1>4
  <2>2. Weno3Beta(s) = [l |-> <<Square(p - x1), Square(y1 - p)>>, r |-> <<Square(p - y1), Square(x1 - p)>>]
    BY <1>4 DEF Weno3Beta
  <2>3. Weno3Beta(s) = [l |-> <<hh, hh>>, r |-> <<hh, hh>>]
    BY <1>3, <2>1, <2>2
  <2> QED
    BY <1>1, <1>3, <2>3 DEF EvenFor
<1>6. EvenFor(Weno5Beta(s), c)
  <2>1. /\ p - 2 * x1 + x2 = 0 /\ y1 - 2 * p + x1 = 0 /\ y2 - 2 * y1 + p = 0
        /\ 3 * p - 4 * x1 + x2 = -2 * h /\ y1 - x1 = -2 * h /\ y2 - 4 * y1 + 3 * p = 2 * h
    BY <1>4
  <2>2. Beta5(y2, y1, p, x1, x2) = <<12 * hh, 12 * hh, 12 * hh>>
    BY <1>3, <2>1 DEF Beta5
  <2>3. /\ p - 2 * y1 + y2 = 0 /\ x1 - 2 * p + y1 = 0 /\ x2 - 2 * x1 + p = 0
        /\ 3 * p - 4 * y1 + y2 = 2 * h /\ x1 - y1 = 2 * h /\ x2 - 4 * x1 + 3 * p = -2 * h
    BY <1>4
  <2>4. Beta5(x2, x1, p, y1, y2) = <<12 * hh, 12 * hh, 12 * hh>>
    BY <1>3, <2>3 DEF Beta5
  <2>5. Weno5Beta(s) = [l |-> <<12 * hh, 12 * hh, 12 * hh>>, r |-> <<12 * hh, 12 * hh, 12 * hh>>]
    BY <1>4, <2>2, <2>4 DEF Weno5Beta
  <2> QED
    BY <1>1, <1>3, <2>5 DEF EvenFor
<1>7. EvenFor(Weno7Beta(s), c)
  <2> DEFINE l == Beta7(y3, y2, y1, p, x1, x2, x3)
             r == Beta7(x3, x2, x1, p, y1, y2, y3)
  <2>1. FourEqual(l, 240 * hh)
    <3>1. FourEqual(Beta7(p - 3 * h, p - 2 * h, p - h, p, p + h, p + 2 * h, p + 3 * h), StepIndicator(h))
      BY Beta7OfStep
    <3> QED
      BY <1>2, <1>4, <3>1 DEF StepIndicator
  <2>2. PICK g \in Int : g + h = 0
    <3>1. -h \in Int /\ -h + h = 0
      OBVIOUS
    <3> QED
      BY <3>1
  <2>3. g * g = hh
    BY <1>2, <2>2, Z3
  <2>4. /\ x3 = p - 3 * g /\ x2 = p - 2 * g /\ x1 = p - g
        /\ y1 = p + g /\ y2 = p + 2 * g /\ y3 = p + 3 * g
    BY <1>4, <2>2
  <2>5. FourEqual(r, 240 * hh)
    <3>1. FourEqual(Beta7(p - 3 * g, p - 2 * g, p - g, p, p + g, p + 2 * g, p + 3 * g), StepIndicator(g))
      BY Beta7OfStep
    <3> QED
      BY <2>3, <2>4, <3>1 DEF StepIndicator
  <2>6. Weno7Beta(s) = [l |-> l, r |-> r]
    BY <1>4 DEF Weno7Beta
  <2> HIDE DEF l, r
  <2> QED
    BY <1>1, <1>3, <2>1, <2>5, <2>6 DEF EvenFor, FourEqual
<1> QED
  BY <1>5, <1>6, <1>7

\* Every limiter leaves equal differences alone.
LEMMA SlopesOnLine ==
  ASSUME NEW q \in Data, NEW p \in Int, NEW b \in Int, OnLine(q, p, 768 * b)
  PROVE  /\ plm_slope(q, 4) = 768 * b /\ mol_slope(q, {-1, 1}) = 768 * b
         /\ ppm_reconstruct(q, 2) = [sm |-> p - 384 * b, sp |-> p + 384 * b]
<1>1. PICK h \in Int : h = 768 * b /\ (h + h) \div 2 = h
  OBVIOUS
<1>2. PICK y2, y1, x1, x2 \in Int :
        /\ q[-2] = y2 /\ q[-1] = y1 /\ q[0] = p /\ q[1] = x1 /\ q[2] = x2
        /\ y2 = p - 2 * h /\ y1 = p - h /\ x1 = p + h /\ x2 = p + 2 * h
  BY <1>1 DEF OnLine
<1>3. Limited(h, h, h) = h
  BY LimitedLine
<1>4. CentralSlope(q, -1) = h /\ CentralSlope(q, 1) = h
  <2>1. y1 - y2 = h /\ p - y1 = h /\ x1 - p = h /\ x2 - x1 = h
    BY <1>2
  <2>2. q[-1] - q[-1 - 1] = h /\ q[-1 + 1] - q[-1] = h /\ q[1] - q[1 - 1] = h /\ q[1 + 1] - q[1] = h
    <3>1. -1 - 1 = -2 /\ -1 + 1 = 0 /\ 1 - 1 = 0 /\ 1 + 1 = 2
      OBVIOUS
    <3> QED
      BY <1>2, <2>1, <3>1
  <2> QED
    BY <1>1, <1>3, <2>2 DEF CentralSlope
<1>5. q[0] - q[-1] = h /\ q[1] - q[0] = h
  BY <1>2
<1>6. plm_slope(q, 4) = h
  <2>1. WantedSlope(q, 4) = (4 * (h + h) - (h + h)) \div 6
    BY <1>4, <1>5 DEF WantedSlope
  <2>2. (4 * (h + h) - (h + h)) \div 6 = h
    OBVIOUS
  <2>3. plm_slope(q, 4) = Limited(WantedSlope(q, 4), q[0] - q[-1], q[1] - q[0])
    BY PlmSlopeOf DEF Orders
  <2> QED
    BY <1>3, <1>5, <2>1, <2>2, <2>3
<1>7. mol_slope(q, {-1, 1}) = h
  BY <1>1, <1>3, <1>5 DEF mol_slope
<1>8. ppm_reconstruct(q, 2) = [sm |-> p - 384 * b, sp |-> p + 384 * b]
  <2>1. VanLeerSlope(q, -1) = VanLeerSlope(q, 0) /\ VanLeerSlope(q, 1) = VanLeerSlope(q, 0)
        /\ VanLeerSlope(q, 0) \in Int
    <3> DEFINE V(dsl, dsr, dsc) ==
               IF (dsl > 0 /\ dsr > 0) \/ (dsl < 0 /\ dsr < 0)
               THEN CopySign(Lesser(Abs(dsc), Lesser(Abs(dsl), Abs(dsr))), dsc) ELSE 0
    <3>1. \A d : VanLeerSlope(q, d)
                   = V(2 * (q[d] - q[d - 1]), 2 * (q[d + 1] - q[d]), (q[d + 1] - q[d - 1]) \div 2)
      BY DEF VanLeerSlope
    <3> HIDE DEF V
    <3>2. -1 - 1 = -2 /\ -1 + 1 = 0 /\ 1 - 1 = 0 /\ 1 + 1 = 2 /\ 0 - 1 = -1 /\ 0 + 1 = 1
      OBVIOUS
    <3>3. /\ y1 - y2 = h /\ p - y1 = h /\ x1 - p = h /\ x2 - x1 = h
          /\ p - y2 = h + h /\ x1 - y1 = h + h /\ x2 - p = h + h
      BY <1>2
    <3>4. /\ VanLeerSlope(q, -1) = V(2 * h, 2 * h, (h + h) \div 2)
          /\ VanLeerSlope(q, 0) = V(2 * h, 2 * h, (h + h) \div 2)
          /\ VanLeerSlope(q, 1) = V(2 * h, 2 * h, (h + h) \div 2)
      BY <1>2, <3>1, <3>2, <3>3
    <3>5. VanLeerSlope(q, 0) \in Int
      BY VanLeerType
    <3> QED
      BY <3>4, <3>5
  <2>2. EdgeAbove(q, 0) = p + 384 * b
    <3> DEFINE edge == (3 * (p + x1) - (VanLeerSlope(q, 0 + 1) - VanLeerSlope(q, 0))) \div 6
    <3>1. edge = p + 384 * b
      <4>1. 0 + 1 = 1
        OBVIOUS
      <4>2. edge = (3 * (p + x1)) \div 6
        BY <1>2, <2>1, <4>1
      <4> QED
        BY <1>1, <1>2, <4>2
    <3>2. EdgeAbove(q, 0) = Lesser(Greater(edge, Lesser(p, x1)), Greater(p, x1))
      BY <1>2 DEF EdgeAbove
    <3> HIDE DEF edge
    <3> QED
      BY <1>1, <1>2, <3>1, <3>2 DEF Lesser, Greater
  <2>3. EdgeAbove(q, -1) = p - 384 * b
    <3> DEFINE edge == (3 * (y1 + p) - (VanLeerSlope(q, -1 + 1) - VanLeerSlope(q, -1))) \div 6
    <3>0. -1 + 1 = 0
      OBVIOUS
    <3>1. edge = p - 384 * b
      <4>2. edge = (3 * (y1 + p)) \div 6
        BY <1>2, <2>1, <3>0
      <4> QED
        BY <1>1, <1>2, <4>2
    <3>2. EdgeAbove(q, -1) = Lesser(Greater(edge, Lesser(y1, p)), Greater(y1, p))
      BY <1>2, <3>0 DEF EdgeAbove
    <3> HIDE DEF edge
    <3> QED
      BY <1>1, <1>2, <3>1, <3>2 DEF Lesser, Greater
  <2>4. \A x \in Int : Flattened(q, 2, x) = x
    BY <1>2 DEF Flattened
  <2>5. ppm_reconstruct(q, 2) = QuadraticLimit(p, p - 384 * b, p + 384 * b)
    BY <1>2, <2>2, <2>3, <2>4, FlattenedAs
  <2> QED
    BY <2>5 DEF QuadraticLimit, Abs
<1> QED
  BY <1>1, <1>6, <1>7, <1>8

LEMMA PolynomialsExactOf == StencilInv => PolynomialsExact
<1> SUFFICES ASSUME StencilInv, fitted # NoPolynomial PROVE PolynomialsExact
  BY DEF PolynomialsExact
<1> DEFINE c == fitted
           q == Scaled
<1>1. c \in [1..7 -> Int] /\ averages \in Data /\ averages = PolynomialAverages(c)
  BY DEF StencilInv
<1>2. /\ ExactFor(Weno3(averages), c, 1, 1) /\ ExactFor(Weno5(averages), c, 2, 4)
      /\ ExactFor(Weno7(averages), c, 3, 6)
  BY <1>1, Weno3Exact, Weno5Exact, Weno7Exact
<1>3. ASSUME DegreeAtMost(c, 1)
      PROVE  /\ EvenFor(Weno3Beta(averages), c) /\ EvenFor(Weno5Beta(averages), c)
             /\ EvenFor(Weno7Beta(averages), c)
             /\ plm_slope(q, 4) = q[1] - q[0] /\ mol_slope(q, {-1, 1}) = q[1] - q[0]
             /\ ppm_reconstruct(q, 2) = [sm |-> Scale * LowerEdge(c), sp |-> Scale * UpperEdge(c)]
  <2>1. PICK a, b \in Int : c[1] = a /\ c[2] = b
    BY <1>1
  <2>2. OnLine(averages, a - b, 2 * b) /\ UpperEdge(c) = a /\ LowerEdge(c) = a - 2 * b
    BY <1>1, <1>3, <2>1, AveragesOnLine
  <2>3. /\ EvenFor(Weno3Beta(averages), c) /\ EvenFor(Weno5Beta(averages), c)
        /\ EvenFor(Weno7Beta(averages), c)
    BY <1>1, <2>1, <2>2, IndicatorsEven
  <2>4. q \in Data /\ \A d \in Offsets : q[d] = 384 * averages[d]
    BY <1>1, ScaledType
  <2> HIDE DEF q
  <2>5. OnLine(q, 384 * (a - b), 768 * b)
    BY <2>2, <2>4 DEF OnLine, Offsets
  <2>6. /\ plm_slope(q, 4) = 768 * b /\ mol_slope(q, {-1, 1}) = 768 * b
        /\ ppm_reconstruct(q, 2) = [sm |-> 384 * (a - b) - 384 * b, sp |-> 384 * (a - b) + 384 * b]
    BY <2>4, <2>5, SlopesOnLine
  <2>7. q[1] - q[0] = 768 * b
    BY <2>5 DEF OnLine
  <2>8. /\ Scale * LowerEdge(c) = 384 * (a - b) - 384 * b
        /\ Scale * UpperEdge(c) = 384 * (a - b) + 384 * b
    BY <2>2 DEF Scale
  <2> QED
    BY <2>3, <2>6, <2>7, <2>8
<1> QED
  BY <1>2, <1>3 DEF PolynomialsExact, ExactFor, EvenFor

(***************************************************************************)
(* The schemes have their order: on averages of any polynomial of degree   *)
(* six or less, a candidate of PLM.H, MOL.H, PPM.H and WENO.H gives those  *)
(* of its own degree exactly and WENO's ideal weights those of the whole   *)
(* stencil, and on a line the smoothness indicators do not tell the        *)
(* candidates apart.                                                       *)
(***************************************************************************)
THEOREM ReconstructionsExactOnPolynomials == StencilSpec => []PolynomialsExact
<1>1. StencilInv => PolynomialsExact
  BY PolynomialsExactOf
<1> QED
  BY <1>1, StencilInvariant, PTL

-----------------------------------------------------------------------------
(* One wave alone, traced by PLM and by PPM.                               *)

FamilyNames == {"alpham", "alpha0r", "alpha0e", "alpha0v", "alphap"}

WaveVariables == {"rho", "u", "v", "p", "e"}

\* What the tracing uses of a gas.
Flows(gas) ==
  /\ gas.rho = 1 /\ gas.enth = 2 /\ gas.c \in {1, 2} /\ gas.u \in -2..2
  /\ gas.u - gas.c \in -3..3 /\ gas.u + gas.c \in -3..3

LEMMA FlowsOf == ASSUME NEW gas \in FlowingGases PROVE Flows(gas)
<1>1. PICK g \in {<<0, 1>>, <<1, 2>>, <<-1, 2>>, <<2, 1>>, <<-2, 1>>} :
        gas = [rho |-> 1, u |-> g[1], c |-> g[2], enth |-> 2]
  BY DEF FlowingGases
<1>2. gas.rho = 1 /\ gas.u = g[1] /\ gas.c = g[2] /\ gas.enth = 2
  BY <1>1
<1> QED
  BY <1>2 DEF Flows

LEMMA SuperposedOf ==
  ASSUME NEW gas, Flows(gas), NEW a, a.alpham \in Int, a.alphap \in Int, a.alpha0r \in Int,
         a.alpha0e \in Int, a.alpha0v \in Int
  PROVE  LET s == Superposed(a, gas)
         IN  /\ DOMAIN s = WaveVariables
             /\ s.rho = a.alphap + a.alpham + a.alpha0r
             /\ s.v = a.alpha0v
             /\ gas.c = 1 => /\ s.u = a.alphap - a.alpham
                             /\ s.p = a.alphap + a.alpham
                             /\ s.e = 2 * (a.alphap + a.alpham) + a.alpha0e
             /\ gas.c = 2 => /\ s.u = 2 * (a.alphap - a.alpham)
                             /\ s.p = 4 * (a.alphap + a.alpham)
                             /\ s.e = 8 * (a.alphap + a.alpham) + a.alpha0e
<1>0. PICK am, ap, ar, ae, av \in Int : /\ a.alpham = am /\ a.alphap = ap /\ a.alpha0r = ar
                                      /\ a.alpha0e = ae /\ a.alpha0v = av
  OBVIOUS
<1>1. Superposed(a, gas) =
        [rho |-> (ap + am) + ar, u |-> ((ap - am) * gas.c) \div gas.rho, v |-> av,
         p |-> (ap + am) * gas.c * gas.c, e |-> (ap + am) * gas.enth * gas.c * gas.c + ae]
  BY <1>0 DEF Superposed
<1>2. gas.rho = 1 /\ gas.enth = 2
  BY DEF Flows
<1>3. ap + am + ar = (ap + am) + ar
  OBVIOUS
<1>4. DOMAIN Superposed(a, gas) = WaveVariables /\ Superposed(a, gas).rho = ap + am + ar
      /\ Superposed(a, gas).v = av
  BY <1>1, <1>3 DEF WaveVariables
<1>5. ASSUME gas.c = 1
      PROVE  /\ Superposed(a, gas).u = ap - am
             /\ Superposed(a, gas).p = ap + am
             /\ Superposed(a, gas).e = 2 * (ap + am) + ae
  <2>1. ((ap - am) * 1) \div 1 = ap - am /\ (ap + am) * 1 * 1 = ap + am
        /\ (ap + am) * 2 * 1 * 1 + ae = 2 * (ap + am) + ae
    OBVIOUS
  <2> QED
    BY <1>1, <1>2, <1>5, <2>1
<1>6. ASSUME gas.c = 2
      PROVE  /\ Superposed(a, gas).u = 2 * (ap - am)
             /\ Superposed(a, gas).p = 4 * (ap + am)
             /\ Superposed(a, gas).e = 8 * (ap + am) + ae
  <2>1. ((ap - am) * 2) \div 1 = 2 * (ap - am) /\ (ap + am) * 2 * 2 = 4 * (ap + am)
        /\ (ap + am) * 2 * 2 * 2 + ae = 8 * (ap + am) + ae
    OBVIOUS
  <2> QED
    BY <1>1, <1>2, <1>6, <2>1
<1> QED
  BY <1>0, <1>4, <1>5, <1>6

OneFamily(a, family, n) == \A f \in FamilyNames : a[f] = IF f = family THEN n ELSE 0

\* What a family changes: the columns of the waves' matrix.
LEMMA UnitWaveOf ==
  ASSUME NEW gas, Flows(gas), NEW family \in FamilyNames, NEW n \in Int, NEW a,
         OneFamily(a, family, n)
  PROVE  LET w == UnitWave(family, gas)
         IN  /\ DOMAIN w = WaveVariables /\ DOMAIN Superposed(a, gas) = WaveVariables
             /\ \A x \in WaveVariables : w[x] \in Int /\ Superposed(a, gas)[x] = n * w[x]
<1> USE DEF OneFamily
<1>1. a.alpham \in Int /\ a.alphap \in Int /\ a.alpha0r \in Int /\ a.alpha0e \in Int /\ a.alpha0v \in Int
  BY DEF FamilyNames
<1> DEFINE one == [f \in DOMAIN Families |-> IF f = family THEN 1 ELSE 0]
           w == UnitWave(family, gas)
           s == Superposed(a, gas)
<1>2. DOMAIN Families = FamilyNames
  BY DEF Families, FamilyNames
<1>3. w = Superposed(one, gas) /\ \A f \in FamilyNames : one[f] = IF f = family THEN 1 ELSE 0
  BY <1>2 DEF UnitWave
<1> HIDE DEF one
<1>4. one.alpham \in Int /\ one.alphap \in Int /\ one.alpha0r \in Int /\ one.alpha0e \in Int /\ one.alpha0v \in Int
  BY <1>3 DEF FamilyNames
<1>5. /\ DOMAIN s = WaveVariables
      /\ s.rho = a.alphap + a.alpham + a.alpha0r /\ s.v = a.alpha0v
      /\ gas.c = 1 => /\ s.u = a.alphap - a.alpham
                      /\ s.p = a.alphap + a.alpham
                      /\ s.e = 2 * (a.alphap + a.alpham) + a.alpha0e
      /\ gas.c = 2 => /\ s.u = 2 * (a.alphap - a.alpham)
                      /\ s.p = 4 * (a.alphap + a.alpham)
                      /\ s.e = 8 * (a.alphap + a.alpham) + a.alpha0e
  BY <1>1, SuperposedOf
<1>6. /\ DOMAIN w = WaveVariables
      /\ w.rho = one.alphap + one.alpham + one.alpha0r /\ w.v = one.alpha0v
      /\ gas.c = 1 => /\ w.u = one.alphap - one.alpham
                      /\ w.p = one.alphap + one.alpham
                      /\ w.e = 2 * (one.alphap + one.alpham) + one.alpha0e
      /\ gas.c = 2 => /\ w.u = 2 * (one.alphap - one.alpham)
                      /\ w.p = 4 * (one.alphap + one.alpham)
                      /\ w.e = 8 * (one.alphap + one.alpham) + one.alpha0e
  BY <1>3, <1>4, SuperposedOf
<1> HIDE DEF w, s
<1>7. gas.c = 1 \/ gas.c = 2
  BY DEF Flows
<1> DEFINE Proportional == /\ w.rho \in Int /\ w.u \in Int /\ w.v \in Int /\ w.p \in Int /\ w.e \in Int
                           /\ s.rho = n * w.rho /\ s.u = n * w.u /\ s.v = n * w.v
                           /\ s.p = n * w.p /\ s.e = n * w.e
<1>8. ASSUME family = "alpham" PROVE Proportional
  <2>1. a.alpham = n /\ a.alphap = 0 /\ a.alpha0r = 0 /\ a.alpha0e = 0 /\ a.alpha0v = 0
    BY <1>8 DEF FamilyNames
  <2>2. one.alpham = 1 /\ one.alphap = 0 /\ one.alpha0r = 0 /\ one.alpha0e = 0 /\ one.alpha0v = 0
    BY <1>3, <1>8 DEF FamilyNames
  <2> QED
    BY <1>5, <1>6, <1>7, <2>1, <2>2
<1>9. ASSUME family = "alphap" PROVE Proportional
  <2>1. a.alpham = 0 /\ a.alphap = n /\ a.alpha0r = 0 /\ a.alpha0e = 0 /\ a.alpha0v = 0
    BY <1>9 DEF FamilyNames
  <2>2. one.alpham = 0 /\ one.alphap = 1 /\ one.alpha0r = 0 /\ one.alpha0e = 0 /\ one.alpha0v = 0
    BY <1>3, <1>9 DEF FamilyNames
  <2> QED
    BY <1>5, <1>6, <1>7, <2>1, <2>2
<1>10. ASSUME family = "alpha0r" PROVE Proportional
  <2>1. a.alpham = 0 /\ a.alphap = 0 /\ a.alpha0r = n /\ a.alpha0e = 0 /\ a.alpha0v = 0
    BY <1>10 DEF FamilyNames
  <2>2. one.alpham = 0 /\ one.alphap = 0 /\ one.alpha0r = 1 /\ one.alpha0e = 0 /\ one.alpha0v = 0
    BY <1>3, <1>10 DEF FamilyNames
  <2> QED
    BY <1>5, <1>6, <1>7, <2>1, <2>2
<1>11. ASSUME family = "alpha0e" PROVE Proportional
  <2>1. a.alpham = 0 /\ a.alphap = 0 /\ a.alpha0r = 0 /\ a.alpha0e = n /\ a.alpha0v = 0
    BY <1>11 DEF FamilyNames
  <2>2. one.alpham = 0 /\ one.alphap = 0 /\ one.alpha0r = 0 /\ one.alpha0e = 1 /\ one.alpha0v = 0
    BY <1>3, <1>11 DEF FamilyNames
  <2> QED
    BY <1>5, <1>6, <1>7, <2>1, <2>2
<1>12. ASSUME family = "alpha0v" PROVE Proportional
  <2>1. a.alpham = 0 /\ a.alphap = 0 /\ a.alpha0r = 0 /\ a.alpha0e = 0 /\ a.alpha0v = n
    BY <1>12 DEF FamilyNames
  <2>2. one.alpham = 0 /\ one.alphap = 0 /\ one.alpha0r = 0 /\ one.alpha0e = 0 /\ one.alpha0v = 1
    BY <1>3, <1>12 DEF FamilyNames
  <2> QED
    BY <1>5, <1>6, <1>7, <2>1, <2>2
<1>13. Proportional
  BY <1>8, <1>9, <1>10, <1>11, <1>12 DEF FamilyNames
<1>14. \A x \in WaveVariables : w[x] \in Int /\ s[x] = n * w[x]
  BY <1>13 DEF WaveVariables
<1> QED
  BY <1>5, <1>6, <1>14 DEF w, s

\* Resolving a superposition gives the waves back that it was put together from.
LEMMA StrengthsOf ==
  ASSUME NEW gas, Flows(gas), NEW a, a.alpham \in Int, a.alphap \in Int, a.alpha0r \in Int,
         a.alpha0e \in Int, a.alpha0v \in Int, NEW jump,
         \A x \in WaveVariables : jump[x] = Superposed(a, gas)[x]
  PROVE  Strengths(jump, gas) = [alpham |-> a.alpham, alphap |-> a.alphap, alpha0r |-> a.alpha0r,
                                 alpha0e |-> a.alpha0e, alpha0v |-> a.alpha0v]
<1>1. PICK am, ap, ar, ae, av \in Int : /\ a.alpham = am /\ a.alphap = ap /\ a.alpha0r = ar
                                      /\ a.alpha0e = ae /\ a.alpha0v = av
  OBVIOUS
<1>2. /\ jump.rho = Superposed(a, gas).rho /\ jump.u = Superposed(a, gas).u
      /\ jump.v = Superposed(a, gas).v /\ jump.p = Superposed(a, gas).p
      /\ jump.e = Superposed(a, gas).e
  BY DEF WaveVariables
<1>3. /\ jump.rho = ap + am + ar /\ jump.v = av
      /\ gas.c = 1 => jump.u = ap - am /\ jump.p = ap + am /\ jump.e = 2 * (ap + am) + ae
      /\ gas.c = 2 => /\ jump.u = 2 * (ap - am) /\ jump.p = 4 * (ap + am)
                      /\ jump.e = 8 * (ap + am) + ae
  BY <1>1, <1>2, SuperposedOf
<1>4. gas.rho = 1 /\ gas.enth = 2 /\ (gas.c = 1 \/ gas.c = 2)
  BY DEF Flows
<1> DEFINE S(rho, u, v, p, e, c) ==
             [alpham |-> (p - 1 * c * u) \div (2 * c * c),
              alphap |-> (p + 1 * c * u) \div (2 * c * c),
              alpha0r |-> rho - p \div (c * c),
              alpha0e |-> e - p * 2,
              alpha0v |-> v]
<1>5. Strengths(jump, gas) = S(jump.rho, jump.u, jump.v, jump.p, jump.e, gas.c)
  BY <1>4 DEF Strengths
<1>6. S(ap + am + ar, ap - am, av, ap + am, 2 * (ap + am) + ae, 1)
        = [alpham |-> am, alphap |-> ap, alpha0r |-> ar, alpha0e |-> ae, alpha0v |-> av]
  <2>1. /\ ((ap + am) - 1 * 1 * (ap - am)) \div (2 * 1 * 1) = am
        /\ ((ap + am) + 1 * 1 * (ap - am)) \div (2 * 1 * 1) = ap
        /\ (ap + am + ar) - (ap + am) \div (1 * 1) = ar
        /\ (2 * (ap + am) + ae) - (ap + am) * 2 = ae
    OBVIOUS
  <2> QED
    BY <2>1
<1>7. S(ap + am + ar, 2 * (ap - am), av, 4 * (ap + am), 8 * (ap + am) + ae, 2)
        = [alpham |-> am, alphap |-> ap, alpha0r |-> ar, alpha0e |-> ae, alpha0v |-> av]
  <2>1. /\ (4 * (ap + am) - 1 * 2 * (2 * (ap - am))) \div (2 * 2 * 2) = am
        /\ (4 * (ap + am) + 1 * 2 * (2 * (ap - am))) \div (2 * 2 * 2) = ap
        /\ (ap + am + ar) - (4 * (ap + am)) \div (2 * 2) = ar
        /\ (8 * (ap + am) + ae) - (4 * (ap + am)) * 2 = ae
    OBVIOUS
  <2> QED
    BY <2>1
<1> HIDE DEF S
<1> QED
  BY <1>1, <1>3, <1>4, <1>5, <1>6, <1>7

\* In a profile of one family, that family alone has a strength.
LEMMA WaveStrengths ==
  ASSUME NEW gas, Flows(gas), NEW family \in FamilyNames, NEW n \in Int, NEW jump,
         \A x \in WaveVariables : jump[x] = n * UnitWave(family, gas)[x]
  PROVE  OneFamily(Strengths(jump, gas), family, n)
<1> DEFINE a == [f \in FamilyNames |-> IF f = family THEN n ELSE 0]
<1>1. \A f \in FamilyNames : a[f] = (IF f = family THEN n ELSE 0) /\ a[f] \in Int
  OBVIOUS
<1> HIDE DEF a
<1>2. \A x \in WaveVariables : jump[x] = Superposed(a, gas)[x]
  <2>1. OneFamily(a, family, n)
    BY <1>1 DEF OneFamily
  <2> QED
    BY <2>1, UnitWaveOf
<1>3. a.alpham \in Int /\ a.alphap \in Int /\ a.alpha0r \in Int /\ a.alpha0e \in Int /\ a.alpha0v \in Int
  BY <1>1 DEF FamilyNames
<1>4. Strengths(jump, gas) = [alpham |-> a.alpham, alphap |-> a.alphap, alpha0r |-> a.alpha0r,
                              alpha0e |-> a.alpha0e, alpha0v |-> a.alpha0v]
  BY <1>2, <1>3, StrengthsOf
<1> QED
  BY <1>1, <1>4 DEF FamilyNames, OneFamily

LEMMA WaveType ==
  ASSUME NEW gas, Flows(gas), NEW family \in FamilyNames
  PROVE  DOMAIN UnitWave(family, gas) = WaveVariables
         /\ \A x \in WaveVariables : UnitWave(family, gas)[x] \in Int
<1> DEFINE one == [f \in FamilyNames |-> IF f = family THEN 1 ELSE 0]
<1>1. OneFamily(one, family, 1)
  BY DEF OneFamily
<1> HIDE DEF one
<1>2. PICK n \in Int : OneFamily(one, family, n)
  BY <1>1
<1> QED
  BY <1>2, UnitWaveOf

\* What is traced of one variable, w times the profile's own part.
TracedValue(q0, t, w, m, k) == q0 * w + ((m * (8 * t)) * w + k * ((8 * t) * w)) \div 8

PassiveValue(q0, t, r) == q0 + (r * (8 * t)) \div 8

LEMMA TracedPart ==
  ASSUME NEW q0 \in Int, NEW t \in Int, NEW w \in Int, NEW m \in Int, NEW k \in Int
  PROVE  TracedValue(q0, t, w, m, k) = PassiveValue(q0, t, m + k) * w
<1> DEFINE r == m + k
<1>0. r \in Int
  OBVIOUS
<1>1. PICK mt, kt, rt \in Int : mt = m * t /\ kt = k * t /\ rt = r * t
  OBVIOUS
<1>2. mt + kt = rt
  BY <1>1, Z3
<1> HIDE DEF r
<1>3. m * (8 * t) = 8 * mt /\ r * (8 * t) = 8 * rt
  BY <1>0, <1>1, Z3
<1>4. k * ((8 * t) * w) = (8 * kt) * w
  BY <1>1, Z3
<1>5. (8 * mt) * w + (8 * kt) * w = 8 * (rt * w)
  BY <1>2, Z3
<1>6. PICK x \in Int : x = rt * w
  OBVIOUS
<1>7. ((m * (8 * t)) * w + k * ((8 * t) * w)) \div 8 = x
  <2>1. (m * (8 * t)) * w + k * ((8 * t) * w) = 8 * x
    BY <1>3, <1>4, <1>5, <1>6
  <2> QED
    BY <2>1
<1>8. (r * (8 * t)) \div 8 = rt
  <2>1. (8 * rt) \div 8 = rt
    OBVIOUS
  <2> QED
    BY <1>3, <2>1
<1>9. (q0 + rt) * w = q0 * w + x
  BY <1>6, Z3
<1> QED
  BY <1>7, <1>8, <1>9 DEF TracedValue, PassiveValue

LEMMA SpeedOf ==
  ASSUME NEW gas, Flows(gas), NEW family \in FamilyNames
  PROVE  LET speed == gas.u + Families[family] * gas.c
         IN  /\ speed \in -3..3 /\ Families[family] \in {-1, 0, 1}
             /\ family = "alpham" => speed = gas.u - gas.c /\ Families[family] = -1
             /\ family = "alphap" => speed = gas.u + gas.c /\ Families[family] = 1
             /\ family \in {"alpha0r", "alpha0e", "alpha0v"} => speed = gas.u /\ Families[family] = 0
<1>1. gas.u \in -2..2 /\ gas.c \in {1, 2} /\ gas.u - gas.c \in -3..3 /\ gas.u + gas.c \in -3..3
  BY DEF Flows
<1>2. CASE family = "alpham"
  <2>1. Families[family] = -1
    BY <1>2 DEF Families
  <2> QED
    BY <1>1, <1>2, <2>1
<1>3. CASE family = "alphap"
  <2>1. Families[family] = 1
    BY <1>3 DEF Families
  <2> QED
    BY <1>1, <1>3, <2>1
<1>4. CASE family \in {"alpha0r", "alpha0e", "alpha0v"}
  <2>1. Families[family] = 0
    BY <1>4 DEF Families
  <2> QED
    BY <1>1, <1>4, <2>1
<1> QED
  BY <1>2, <1>3, <1>4 DEF FamilyNames

\* PLM's left state is the passive scalar's, wave by wave.
LEMMA PlmUpperTraced ==
  ASSUME NEW gas, Flows(gas), NEW family \in FamilyNames, NEW s, NEW q0 \in Int, s[0] = q0,
         NEW t \in Int, NEW speed, speed = gas.u + Families[family] * gas.c, speed >= 0
  PROVE  LET wave == UnitWave(family, gas)
             Times(k) == [x \in DOMAIN wave |-> k * wave[x]]
         IN  pc_plm_d_eb(Times(q0), Times(8 * t), gas, {"upper"}).qm
               = Times(pc_plm_d_passive(s, 8 * t, speed).qm)
<1> DEFINE wave == UnitWave(family, gas)
           Times(k) == [x \in DOMAIN wave |-> k * wave[x]]
           slope == Times(8 * t)
           a == Strengths(slope, gas)
           toUpper == 4 - Greater(gas.u + gas.c, 0)
           Behind(n, part) == IF part THEN n * gas.c ELSE 0
           upper(x) == Behind(1, gas.u >= 0) * x
           left == [alpham |-> Behind(2, gas.u - gas.c >= 0) * a.alpham, alphap |-> 0,
                    alpha0r |-> upper(a.alpha0r), alpha0e |-> upper(a.alpha0e),
                    alpha0v |-> upper(a.alpha0v)]
           m == CASE family = "alpham" -> 2 * gas.c [] family = "alphap" -> 0
                  [] OTHER -> 1 * gas.c
<1>1. DOMAIN wave = WaveVariables /\ \A x \in WaveVariables : wave[x] \in Int
  BY WaveType
<1>2. gas.u \in -2..2 /\ gas.c \in {1, 2}
  BY DEF Flows
<1>3. OneFamily(a, family, 8 * t)
  <2>1. 8 * t \in Int /\ \A x \in WaveVariables : slope[x] = (8 * t) * UnitWave(family, gas)[x]
    BY <1>1
  <2> HIDE DEF slope
  <2> QED
    BY <2>1, WaveStrengths
<1>4. m \in Int /\ m + toUpper = 4 - speed
  <2>1. CASE family = "alpham"
    <3>1. speed = gas.u - gas.c /\ m = 2 * gas.c
      BY <2>1, SpeedOf
    <3> QED
      BY <1>2, <3>1 DEF Greater
  <2>2. CASE family = "alphap"
    <3>1. speed = gas.u + gas.c /\ m = 0
      BY <2>2, SpeedOf
    <3> QED
      BY <1>2, <3>1 DEF Greater
  <2>3. CASE family \in {"alpha0r", "alpha0e", "alpha0v"}
    <3>1. speed = gas.u /\ m = 1 * gas.c
      BY <2>3, SpeedOf
    <3> QED
      BY <1>2, <3>1 DEF Greater
  <2> QED
    BY <2>1, <2>2, <2>3 DEF FamilyNames
<1>5. OneFamily(left, family, m * (8 * t))
  <2> USE DEF OneFamily
  <2>0. /\ left.alpham = Behind(2, gas.u - gas.c >= 0) * a.alpham /\ left.alphap = 0
        /\ left.alpha0r = upper(a.alpha0r) /\ left.alpha0e = upper(a.alpha0e)
        /\ left.alpha0v = upper(a.alpha0v)
    OBVIOUS
  <2>1. /\ a.alpham = IF family = "alpham" THEN 8 * t ELSE 0
        /\ a.alpha0r = IF family = "alpha0r" THEN 8 * t ELSE 0
        /\ a.alpha0e = IF family = "alpha0e" THEN 8 * t ELSE 0
        /\ a.alpha0v = IF family = "alpha0v" THEN 8 * t ELSE 0
    BY <1>3 DEF FamilyNames
  <2> HIDE DEF a, left
  <2>2. Behind(2, gas.u - gas.c >= 0) \in Int /\ Behind(1, gas.u >= 0) \in Int
    BY <1>2
  <2>3. CASE family = "alpham"
    <3>1. speed = gas.u - gas.c /\ m = 2 * gas.c
      BY <2>3, SpeedOf
    <3>2. Behind(2, gas.u - gas.c >= 0) = m
      BY <3>1
    <3> HIDE DEF Behind, m
    <3>3. left.alpham = m * (8 * t)
      BY <2>0, <2>1, <2>3, <3>2
    <3>4. left.alpha0r = 0 /\ left.alpha0e = 0 /\ left.alpha0v = 0
      BY <2>0, <2>1, <2>2, <2>3
    <3> QED
      BY <2>0, <2>3, <3>3, <3>4 DEF FamilyNames
  <2>4. CASE family = "alphap"
    <3>1. m = 0
      BY <2>4
    <3> HIDE DEF Behind, m
    <3>2. left.alpham = 0 /\ left.alpha0r = 0 /\ left.alpha0e = 0 /\ left.alpha0v = 0
      BY <2>0, <2>1, <2>2, <2>4
    <3>3. m * (8 * t) = 0
      BY <3>1
    <3> QED
      BY <2>0, <2>4, <3>2, <3>3 DEF FamilyNames
  <2>5. CASE family \in {"alpha0r", "alpha0e", "alpha0v"}
    <3>1. speed = gas.u /\ m = 1 * gas.c
      BY <2>5, SpeedOf
    <3>2. Behind(1, gas.u >= 0) = m
      BY <3>1
    <3> HIDE DEF Behind, m
    <3>3. left.alpham = 0
      BY <2>0, <2>1, <2>2, <2>5
    <3>4. /\ left.alpha0r = m * a.alpha0r /\ left.alpha0e = m * a.alpha0e /\ left.alpha0v = m * a.alpha0v
      BY <2>0, <3>2
    <3>5. m * 0 = 0
      BY <1>4
    <3> QED
      BY <2>0, <2>1, <2>5, <3>3, <3>4, <3>5 DEF FamilyNames
  <2> QED
    BY <2>3, <2>4, <2>5 DEF FamilyNames
<1>6. pc_plm_d_eb(Times(q0), slope, gas, {"upper"}).qm
        = [x \in WaveVariables |->
             q0 * wave[x] + (Superposed(left, gas)[x] + toUpper * ((8 * t) * wave[x])) \div 8]
  <2>1. 2 * Quarters = 8 /\ DOMAIN Times(q0) = WaveVariables
    BY <1>1 DEF Quarters
  <2>2. pc_plm_d_eb(Times(q0), slope, gas, {"upper"}).qm = pc_plm_d(Times(q0), slope, gas).qm
    BY DEF pc_plm_d_eb
  <2>3. pc_plm_d(Times(q0), slope, gas).qm
          = [x \in WaveVariables |->
               Times(q0)[x] + (Superposed(left, gas)[x] + toUpper * slope[x]) \div 8]
    BY <2>1 DEF pc_plm_d, Quarters
  <2> QED
    BY <1>1, <2>2, <2>3
<1> HIDE DEF left, a
<1>7. \A x \in WaveVariables : Superposed(left, gas)[x] = (m * (8 * t)) * wave[x]
  <2>1. m * (8 * t) \in Int
    BY <1>4
  <2> QED
    BY <1>5, <2>1, UnitWaveOf
<1> HIDE DEF m, wave
<1>8. toUpper \in Int
  BY <1>2 DEF Greater
<1> HIDE DEF toUpper
<1> DEFINE r == 4 - speed
<1>9. r \in Int /\ m + toUpper = r
  BY <1>4, <1>8
<1>10. pc_plm_d_passive(s, 8 * t, speed).qm = PassiveValue(q0, t, r)
  BY DEF pc_plm_d_passive, Quarters, PassiveValue
<1> HIDE DEF r
<1>11. ASSUME NEW x \in WaveVariables
       PROVE  q0 * wave[x] + (Superposed(left, gas)[x] + toUpper * ((8 * t) * wave[x])) \div 8
                = PassiveValue(q0, t, r) * wave[x]
  <2>1. PICK w \in Int, k \in Int, n \in Int : wave[x] = w /\ toUpper = k /\ m = n
    BY <1>1, <1>4, <1>8
  <2>2. TracedValue(q0, t, w, n, k) = PassiveValue(q0, t, n + k) * w
    BY TracedPart
  <2>3. n + k = r
    BY <1>9, <2>1
  <2> QED
    BY <1>7, <2>1, <2>2, <2>3 DEF TracedValue
<1>12. pc_plm_d_eb(Times(q0), slope, gas, {"upper"}).qm
         = [x \in DOMAIN wave |-> PassiveValue(q0, t, r) * wave[x]]
  BY <1>1, <1>6, <1>11
<1> QED
  BY <1>10, <1>12 DEF wave

\* PLM's right state is the passive scalar's, wave by wave.
LEMMA PlmLowerTraced ==
  ASSUME NEW gas, Flows(gas), NEW family \in FamilyNames, NEW s, NEW q0 \in Int, s[0] = q0,
         NEW t \in Int, NEW speed, speed = gas.u + Families[family] * gas.c, speed < 0
  PROVE  LET wave == UnitWave(family, gas)
             Times(k) == [x \in DOMAIN wave |-> k * wave[x]]
         IN  pc_plm_d_eb(Times(q0), Times(8 * t), gas, {"lower"}).qp
               = Times(pc_plm_d_passive(s, 8 * t, speed).qp)
<1> DEFINE wave == UnitWave(family, gas)
           Times(k) == [x \in DOMAIN wave |-> k * wave[x]]
           slope == Times(8 * t)
           a == Strengths(slope, gas)
           toLower == 4 + Lesser(gas.u - gas.c, 0)
           behind == 0 - toLower
           Behind(n, part) == IF part THEN n * gas.c ELSE 0
           lower(x) == Behind(-1, gas.u < 0) * x
           right == [alpham |-> 0, alphap |-> Behind(-2, gas.u + gas.c < 0) * a.alphap,
                     alpha0r |-> lower(a.alpha0r), alpha0e |-> lower(a.alpha0e),
                     alpha0v |-> lower(a.alpha0v)]
           m == CASE family = "alphap" -> -2 * gas.c [] family = "alpham" -> 0
                  [] OTHER -> -1 * gas.c
<1>1. DOMAIN wave = WaveVariables /\ \A x \in WaveVariables : wave[x] \in Int
  BY WaveType
<1>2. gas.u \in -2..2 /\ gas.c \in {1, 2}
  BY DEF Flows
<1>3. OneFamily(a, family, 8 * t)
  <2>1. 8 * t \in Int /\ \A x \in WaveVariables : slope[x] = (8 * t) * UnitWave(family, gas)[x]
    BY <1>1
  <2> HIDE DEF slope
  <2> QED
    BY <2>1, WaveStrengths
<1>4. m \in Int /\ m + behind = -4 - speed
  <2>1. CASE family = "alpham"
    <3>1. speed = gas.u - gas.c /\ m = 0
      BY <2>1, SpeedOf
    <3> QED
      BY <1>2, <3>1 DEF Lesser
  <2>2. CASE family = "alphap"
    <3>1. speed = gas.u + gas.c /\ m = -2 * gas.c
      BY <2>2, SpeedOf
    <3> QED
      BY <1>2, <3>1 DEF Lesser
  <2>3. CASE family \in {"alpha0r", "alpha0e", "alpha0v"}
    <3>1. speed = gas.u /\ m = -1 * gas.c
      BY <2>3, SpeedOf
    <3> QED
      BY <1>2, <3>1 DEF Lesser
  <2> QED
    BY <2>1, <2>2, <2>3 DEF FamilyNames
<1>5. OneFamily(right, family, m * (8 * t))
  <2> USE DEF OneFamily
  <2>0. /\ right.alpham = 0 /\ right.alphap = Behind(-2, gas.u + gas.c < 0) * a.alphap
        /\ right.alpha0r = lower(a.alpha0r) /\ right.alpha0e = lower(a.alpha0e)
        /\ right.alpha0v = lower(a.alpha0v)
    OBVIOUS
  <2>1. /\ a.alphap = IF family = "alphap" THEN 8 * t ELSE 0
        /\ a.alpha0r = IF family = "alpha0r" THEN 8 * t ELSE 0
        /\ a.alpha0e = IF family = "alpha0e" THEN 8 * t ELSE 0
        /\ a.alpha0v = IF family = "alpha0v" THEN 8 * t ELSE 0
    BY <1>3 DEF FamilyNames
  <2> HIDE DEF a, right
  <2>2. Behind(-2, gas.u + gas.c < 0) \in Int /\ Behind(-1, gas.u < 0) \in Int
    BY <1>2
  <2>3. CASE family = "alphap"
    <3>1. speed = gas.u + gas.c /\ m = -2 * gas.c
      BY <2>3, SpeedOf
    <3>2. Behind(-2, gas.u + gas.c < 0) = m
      BY <1>2, <3>1
    <3> HIDE DEF Behind, m
    <3>3. right.alphap = m * (8 * t)
      BY <2>0, <2>1, <2>3, <3>2
    <3>4. right.alpha0r = 0 /\ right.alpha0e = 0 /\ right.alpha0v = 0
      BY <2>0, <2>1, <2>2, <2>3
    <3> QED
      BY <2>0, <2>3, <3>3, <3>4 DEF FamilyNames
  <2>4. CASE family = "alpham"
    <3>1. m = 0
      BY <2>4
    <3> HIDE DEF Behind, m
    <3>2. right.alphap = 0 /\ right.alpha0r = 0 /\ right.alpha0e = 0 /\ right.alpha0v = 0
      BY <2>0, <2>1, <2>2, <2>4
    <3>3. m * (8 * t) = 0
      BY <3>1
    <3> QED
      BY <2>0, <2>4, <3>2, <3>3 DEF FamilyNames
  <2>5. CASE family \in {"alpha0r", "alpha0e", "alpha0v"}
    <3>1. speed = gas.u /\ m = -1 * gas.c
      BY <2>5, SpeedOf
    <3>2. Behind(-1, gas.u < 0) = m
      BY <1>2, <3>1
    <3> HIDE DEF Behind, m
    <3>3. right.alphap = 0
      BY <2>0, <2>1, <2>2, <2>5
    <3>4. /\ right.alpha0r = m * a.alpha0r /\ right.alpha0e = m * a.alpha0e /\ right.alpha0v = m * a.alpha0v
      BY <2>0, <3>2
    <3>5. m * 0 = 0
      BY <1>4
    <3> QED
      BY <2>0, <2>1, <2>5, <3>3, <3>4, <3>5 DEF FamilyNames
  <2> QED
    BY <2>3, <2>4, <2>5 DEF FamilyNames
<1>6. pc_plm_d_eb(Times(q0), slope, gas, {"lower"}).qp
        = [x \in WaveVariables |->
             q0 * wave[x] + (Superposed(right, gas)[x] - toLower * ((8 * t) * wave[x])) \div 8]
  <2>1. 2 * Quarters = 8 /\ DOMAIN Times(q0) = WaveVariables
    BY <1>1 DEF Quarters
  <2>2. pc_plm_d_eb(Times(q0), slope, gas, {"lower"}).qp = pc_plm_d(Times(q0), slope, gas).qp
    BY DEF pc_plm_d_eb
  <2>3. pc_plm_d(Times(q0), slope, gas).qp
          = [x \in WaveVariables |->
               Times(q0)[x] + (Superposed(right, gas)[x] - toLower * slope[x]) \div 8]
    BY <2>1 DEF pc_plm_d, Quarters
  <2> QED
    BY <1>1, <2>2, <2>3
<1> HIDE DEF right, a
<1>7. \A x \in WaveVariables : Superposed(right, gas)[x] = (m * (8 * t)) * wave[x]
  <2>1. m * (8 * t) \in Int
    BY <1>4
  <2> QED
    BY <1>5, <2>1, UnitWaveOf
<1> HIDE DEF m, wave
<1>8. toLower \in Int /\ behind \in Int /\ \A y \in Int : -(toLower * y) = behind * y
  <2>1. toLower \in Int
    BY <1>2 DEF Lesser
  <2> HIDE DEF toLower
  <2> QED
    BY <2>1, Z3
<1> HIDE DEF toLower, behind
<1> DEFINE r == -4 - speed
<1>9. r \in Int /\ m + behind = r
  BY <1>4, <1>8
<1>10. pc_plm_d_passive(s, 8 * t, speed).qp = PassiveValue(q0, t, r)
  <2>1. ~(speed > 0)
    <3>1. speed \in -3..3
      BY SpeedOf
    <3> QED
      BY <3>1
  <2> QED
    BY <2>1 DEF pc_plm_d_passive, Quarters, PassiveValue
<1> HIDE DEF r
<1>11. ASSUME NEW x \in WaveVariables
       PROVE  q0 * wave[x] + (Superposed(right, gas)[x] - toLower * ((8 * t) * wave[x])) \div 8
                = PassiveValue(q0, t, r) * wave[x]
  <2>1. PICK w \in Int, k \in Int, n \in Int : wave[x] = w /\ behind = k /\ m = n
    BY <1>1, <1>4, <1>8
  <2>2. TracedValue(q0, t, w, n, k) = PassiveValue(q0, t, n + k) * w
    BY TracedPart
  <2>3. n + k = r
    BY <1>9, <2>1
  <2>4. PICK y, z \in Int : y = (8 * t) * w /\ z = (n * (8 * t)) * w
    OBVIOUS
  <2>5. z - toLower * y = z + k * y
    <3>1. toLower * y \in Int /\ k * y \in Int /\ -(toLower * y) = k * y
      BY <1>8, <2>1
    <3> QED
      BY <3>1
  <2> QED
    BY <1>7, <2>1, <2>2, <2>3, <2>4, <2>5 DEF TracedValue
<1>12. pc_plm_d_eb(Times(q0), slope, gas, {"lower"}).qp
         = [x \in DOMAIN wave |-> PassiveValue(q0, t, r) * wave[x]]
  BY <1>1, <1>6, <1>11
<1> QED
  BY <1>10, <1>12 DEF wave

\* The swept averages of a parabola are fixed combinations of its edges and mean.
Swept(x, y, c, u) == ppm_int_profile_single(32 * x, 32 * y, 32 * c, u)

Weighs(u, a, b, d, f, g, h) ==
  \A x, y, c \in Int : Swept(x, y, c, u)
                         = [Ip |-> a * x + b * y + d * c, Im |-> f * x + g * y + h * c]

LEMMA SweptWeights ==
  ASSUME NEW u \in -3..3
  PROVE  \E a, b, d, f, g, h \in Int : Weighs(u, a, b, d, f, g, h)
<1>1. CASE u = -3
  <2>1. Weighs(u, 0, 32, 0, 2, -6, 36)
    BY <1>1 DEF Weighs, Swept, ppm_int_profile_single, Abs
  <2> QED
    BY <2>1
<1>2. CASE u = -2
  <2>1. Weighs(u, 0, 32, 0, 8, -8, 32)
    BY <1>2 DEF Weighs, Swept, ppm_int_profile_single, Abs
  <2> QED
    BY <2>1
<1>3. CASE u = -1
  <2>1. Weighs(u, 0, 32, 0, 18, -6, 20)
    BY <1>3 DEF Weighs, Swept, ppm_int_profile_single, Abs
  <2> QED
    BY <2>1
<1>4. CASE u = 0
  <2>1. Weighs(u, 0, 32, 0, 32, 0, 0)
    BY <1>4 DEF Weighs, Swept, ppm_int_profile_single, Abs
  <2> QED
    BY <2>1
<1>5. CASE u = 1
  <2>1. Weighs(u, -6, 18, 20, 32, 0, 0)
    BY <1>5 DEF Weighs, Swept, ppm_int_profile_single, Abs
  <2> QED
    BY <2>1
<1>6. CASE u = 2
  <2>1. Weighs(u, -8, 8, 32, 32, 0, 0)
    BY <1>6 DEF Weighs, Swept, ppm_int_profile_single, Abs
  <2> QED
    BY <2>1
<1>7. CASE u = 3
  <2>1. Weighs(u, -6, 2, 36, 32, 0, 0)
    BY <1>7 DEF Weighs, Swept, ppm_int_profile_single, Abs
  <2> QED
    BY <2>1
<1> QED
  BY <1>1, <1>2, <1>3, <1>4, <1>5, <1>6, <1>7

LEMMA SumTimes ==
  ASSUME NEW w \in Int, NEW a \in Int, NEW b \in Int, NEW d \in Int,
         NEW x \in Int, NEW y \in Int, NEW c \in Int
  PROVE  a * (w * x) + b * (w * y) + d * (w * c) = w * (a * x + b * y + d * c)
BY Z3

\* They scale with the profile.
\* I under a wave is w times J.
TimesOf(I, w, J) == J.Ip \in Int /\ J.Im \in Int /\ I.Ip = w * J.Ip /\ I.Im = w * J.Im

SlowSpeeds == -3..3

SweptWave(w, x, y, c, u) ==
  ppm_int_profile_single(w * (32 * x), w * (32 * y), w * (32 * c), u)

LEMMA SweptTimes ==
  ASSUME NEW u \in SlowSpeeds, NEW w \in Int, NEW x \in Int, NEW y \in Int, NEW c \in Int
  PROVE  TimesOf(SweptWave(w, x, y, c, u), w, Swept(x, y, c, u))
<1>1. PICK a, b, d, f, g, h \in Int : Weighs(u, a, b, d, f, g, h)
  BY SweptWeights DEF SlowSpeeds
<1>2. PICK wx, wy, wc \in Int : wx = w * x /\ wy = w * y /\ wc = w * c
  OBVIOUS
<1>3. w * (32 * x) = 32 * wx /\ w * (32 * y) = 32 * wy /\ w * (32 * c) = 32 * wc
  BY <1>2, Z3
<1> DEFINE I == Swept(x, y, c, u)
           T == Swept(wx, wy, wc, u)
<1>4. I = [Ip |-> a * x + b * y + d * c, Im |-> f * x + g * y + h * c]
  BY <1>1 DEF Weighs
<1>5. T = [Ip |-> a * wx + b * wy + d * wc, Im |-> f * wx + g * wy + h * wc]
  BY <1>1 DEF Weighs
<1> HIDE DEF I, T
<1>6. /\ I.Ip = a * x + b * y + d * c /\ I.Im = f * x + g * y + h * c
      /\ T.Ip = a * wx + b * wy + d * wc /\ T.Im = f * wx + g * wy + h * wc
  BY <1>4, <1>5
<1>7. I.Ip \in Int /\ I.Im \in Int
  BY <1>6
<1>8. T.Ip = w * I.Ip /\ T.Im = w * I.Im
  BY <1>2, <1>6, SumTimes
<1> QED
  BY <1>3, <1>7, <1>8 DEF I, T, Swept, SweptWave, TimesOf

\* A contact in the energy alone changes nothing else.
LEMMA EnergyWave ==
  ASSUME NEW gas, Flows(gas)
  PROVE  \A x \in {"rho", "u", "v", "p"} : UnitWave("alpha0e", gas)[x] = 0
<1> DEFINE one == [f \in DOMAIN Families |-> IF f = "alpha0e" THEN 1 ELSE 0]
<1>1. UnitWave("alpha0e", gas) = Superposed(one, gas)
  BY DEF UnitWave
<1>2. one.alpham = 0 /\ one.alphap = 0 /\ one.alpha0r = 0 /\ one.alpha0e = 1 /\ one.alpha0v = 0
  BY DEF Families
<1> HIDE DEF one
<1>3. gas.c = 1 \/ gas.c = 2
  BY DEF Flows
<1>4. /\ Superposed(one, gas).rho = 0 /\ Superposed(one, gas).v = 0
      /\ gas.c = 1 => Superposed(one, gas).u = 0 /\ Superposed(one, gas).p = 0
      /\ gas.c = 2 => Superposed(one, gas).u = 0 /\ Superposed(one, gas).p = 0
  <2>1. /\ one.alpham \in Int /\ one.alphap \in Int /\ one.alpha0r \in Int
        /\ one.alpha0e \in Int /\ one.alpha0v \in Int
    BY <1>2
  <2>2. /\ Superposed(one, gas).rho = one.alphap + one.alpham + one.alpha0r
        /\ Superposed(one, gas).v = one.alpha0v
        /\ gas.c = 1 => /\ Superposed(one, gas).u = one.alphap - one.alpham
                        /\ Superposed(one, gas).p = one.alphap + one.alpham
        /\ gas.c = 2 => /\ Superposed(one, gas).u = 2 * (one.alphap - one.alpham)
                        /\ Superposed(one, gas).p = 4 * (one.alphap + one.alpham)
    BY <2>1, SuperposedOf
  <2> QED
    BY <1>2, <2>2
<1> QED
  BY <1>1, <1>3, <1>4

\* PPM's reference state and jumps make the average under the wave's own speed.
LEMMA TracedGasOf ==
  ASSUME NEW gas, Flows(gas), NEW family \in FamilyNames, NEW P \in [-1..1 -> Int],
         NEW J, NEW fastest \in {-1, 1}, NEW moves, moves[Families[family]],
         \A k \in -1..1 : /\ DOMAIN J[k] = WaveVariables
                          /\ \A x \in WaveVariables : J[k][x] = UnitWave(family, gas)[x] * P[k]
  PROVE  /\ DOMAIN TracedGas(J, fastest, moves, gas) = {"rho", "u", "v", "p"}
         /\ \A x \in {"rho", "u", "v", "p"} :
              TracedGas(J, fastest, moves, gas)[x] = P[Families[family]] * UnitWave(family, gas)[x]
<1> DEFINE wave == UnitWave(family, gas)
           Jump(k) == Strengths([x \in DOMAIN J[k] |-> J[fastest][x] - J[k][x]], gas)
           a == [alpham |-> IF moves[-1] THEN -Jump(-1).alpham ELSE 0,
                 alphap |-> IF moves[1] THEN -Jump(1).alphap ELSE 0,
                 alpha0r |-> IF moves[0] THEN -Jump(0).alpha0r ELSE 0,
                 alpha0e |-> 0, alpha0v |-> -Jump(0).alpha0v]
           result == TracedGas(J, fastest, moves, gas)
<1>1. result = [x \in {"rho", "u", "v", "p"} |-> J[fastest][x] + Superposed(a, gas)[x]]
  BY DEF TracedGas
<1>2. DOMAIN wave = WaveVariables /\ \A x \in WaveVariables : wave[x] \in Int
  BY WaveType
<1>3. ASSUME NEW k \in -1..1
      PROVE  OneFamily(Jump(k), family, P[fastest] - P[k])
  <2> DEFINE jump == [x \in DOMAIN J[k] |-> J[fastest][x] - J[k][x]]
  <2>1. PICK m, n \in Int : P[fastest] = m /\ P[k] = n
    OBVIOUS
  <2>2. ASSUME NEW x \in WaveVariables
        PROVE  jump[x] = (m - n) * wave[x]
    <3>1. jump[x] = wave[x] * m - wave[x] * n
      BY <2>1
    <3>2. PICK w \in Int : w = wave[x]
      BY <1>2
    <3>3. w * m - w * n = (m - n) * w
      BY Z3
    <3> HIDE DEF jump, wave
    <3> QED
      BY <3>1, <3>2, <3>3
  <2>3. m - n \in Int
    OBVIOUS
  <2> HIDE DEF jump
  <2>4. OneFamily(Strengths(jump, gas), family, m - n)
    BY <2>2, <2>3, WaveStrengths
  <2> QED
    BY <2>1, <2>4 DEF jump
<1>4. PICK k \in -1..1 : k = Families[family]
  BY SpeedOf
<1>5. PICK Pf, Pk \in Int : P[fastest] = Pf /\ P[k] = Pk
  OBVIOUS
<1>6. PICK n \in Int : OneFamily(a, family, n) /\ (family # "alpha0e" => n = Pk - Pf)
                       /\ (family = "alpha0e" => n = 0)
  <2> USE DEF OneFamily
  <2>0. /\ a.alpham = (IF moves[-1] THEN -Jump(-1).alpham ELSE 0)
        /\ a.alphap = (IF moves[1] THEN -Jump(1).alphap ELSE 0)
        /\ a.alpha0r = (IF moves[0] THEN -Jump(0).alpha0r ELSE 0)
        /\ a.alpha0e = 0 /\ a.alpha0v = -Jump(0).alpha0v
    OBVIOUS
  <2> HIDE DEF a, Jump
  <2>1. /\ Jump(-1).alpham = IF family = "alpham" THEN P[fastest] - P[-1] ELSE 0
        /\ Jump(1).alphap = IF family = "alphap" THEN P[fastest] - P[1] ELSE 0
        /\ Jump(0).alpha0r = IF family = "alpha0r" THEN P[fastest] - P[0] ELSE 0
        /\ Jump(0).alpha0v = IF family = "alpha0v" THEN P[fastest] - P[0] ELSE 0
    BY <1>3 DEF FamilyNames
  <2>2. CASE family = "alpham"
    <3>1. k = -1
      BY <1>4, <2>2, SpeedOf
    <3>2. a.alpham = Pk - Pf /\ a.alphap = 0 /\ a.alpha0r = 0 /\ a.alpha0e = 0 /\ a.alpha0v = 0
      BY <1>4, <1>5, <2>0, <2>1, <2>2, <3>1
    <3>3. OneFamily(a, family, Pk - Pf)
      BY <2>2, <3>2 DEF FamilyNames
    <3>4. Pk - Pf \in Int /\ family # "alpha0e"
      BY <2>2
    <3> HIDE DEF OneFamily
    <3> QED
      BY <3>3, <3>4
  <2>3. CASE family = "alphap"
    <3>1. k = 1
      BY <1>4, <2>3, SpeedOf
    <3>2. a.alpham = 0 /\ a.alphap = Pk - Pf /\ a.alpha0r = 0 /\ a.alpha0e = 0 /\ a.alpha0v = 0
      BY <1>4, <1>5, <2>0, <2>1, <2>3, <3>1
    <3>3. OneFamily(a, family, Pk - Pf)
      BY <2>3, <3>2 DEF FamilyNames
    <3>4. Pk - Pf \in Int /\ family # "alpha0e"
      BY <2>3
    <3> HIDE DEF OneFamily
    <3> QED
      BY <3>3, <3>4
  <2>4. CASE family = "alpha0r"
    <3>1. k = 0
      BY <1>4, <2>4, SpeedOf
    <3>2. a.alpham = 0 /\ a.alphap = 0 /\ a.alpha0r = Pk - Pf /\ a.alpha0e = 0 /\ a.alpha0v = 0
      BY <1>4, <1>5, <2>0, <2>1, <2>4, <3>1
    <3>3. OneFamily(a, family, Pk - Pf)
      BY <2>4, <3>2 DEF FamilyNames
    <3>4. Pk - Pf \in Int /\ family # "alpha0e"
      BY <2>4
    <3> HIDE DEF OneFamily
    <3> QED
      BY <3>3, <3>4
  <2>5. CASE family = "alpha0v"
    <3>1. k = 0
      BY <1>4, <2>5, SpeedOf
    <3>2. a.alpham = 0 /\ a.alphap = 0 /\ a.alpha0r = 0 /\ a.alpha0e = 0 /\ a.alpha0v = Pk - Pf
      BY <1>4, <1>5, <2>0, <2>1, <2>5, <3>1
    <3>3. OneFamily(a, family, Pk - Pf)
      BY <2>5, <3>2 DEF FamilyNames
    <3>4. Pk - Pf \in Int /\ family # "alpha0e"
      BY <2>5
    <3> HIDE DEF OneFamily
    <3> QED
      BY <3>3, <3>4
  <2>6. CASE family = "alpha0e"
    <3>1. a.alpham = 0 /\ a.alphap = 0 /\ a.alpha0r = 0 /\ a.alpha0e = 0 /\ a.alpha0v = 0
      BY <2>0, <2>1, <2>6
    <3>2. OneFamily(a, family, 0)
      BY <3>1 DEF FamilyNames
    <3> HIDE DEF OneFamily
    <3> QED
      BY <2>6, <3>2
  <2> QED
    BY <2>2, <2>3, <2>4, <2>5, <2>6 DEF FamilyNames
<1> HIDE DEF a
<1>7. \A x \in WaveVariables : Superposed(a, gas)[x] = n * wave[x]
  BY <1>6, UnitWaveOf
<1>8. ASSUME NEW x \in {"rho", "u", "v", "p"}
      PROVE  J[fastest][x] + Superposed(a, gas)[x] = Pk * wave[x]
  <2>1. x \in WaveVariables
    BY DEF WaveVariables
  <2>2. PICK w \in Int : w = wave[x]
    BY <1>2, <2>1
  <2>3. J[fastest][x] = w * Pf /\ Superposed(a, gas)[x] = n * w
    BY <1>5, <1>7, <2>1, <2>2
  <2> HIDE DEF wave
  <2>4. CASE family = "alpha0e"
    <3>1. w = 0
      BY <2>2, <2>4, EnergyWave DEF wave
    <3>2. 0 * Pf + n * 0 = Pk * 0
      OBVIOUS
    <3> QED
      BY <2>2, <2>3, <3>1, <3>2
  <2>5. CASE family # "alpha0e"
    <3>1. n = Pk - Pf
      BY <1>6, <2>5
    <3>2. w * Pf + (Pk - Pf) * w = Pk * w
      BY Z3
    <3> QED
      BY <2>2, <2>3, <3>1, <3>2
  <2> QED
    BY <2>4, <2>5
<1> HIDE DEF result, wave
<1>9. DOMAIN result = {"rho", "u", "v", "p"}
      /\ \A x \in {"rho", "u", "v", "p"} : result[x] = Pk * wave[x]
  BY <1>1, <1>8
<1> QED
  BY <1>4, <1>5, <1>9 DEF result, wave

\* The averages of a profile in one wave, variable by variable.
ProfileWave(w, x, y, c, gas, k) ==
  ppm_int_profile(w * (32 * x), w * (32 * y), w * (32 * c), gas.u, gas.c)[k]

LEMMA WaveAverages ==
  ASSUME NEW gas, Flows(gas), NEW x \in Int, NEW y \in Int, NEW c \in Int, NEW w \in Int,
         NEW k \in -1..1
  PROVE  TimesOf(ProfileWave(w, x, y, c, gas, k), w, Swept(x, y, c, gas.u + k * gas.c))
<1>1. PICK u \in SlowSpeeds : u = gas.u + k * gas.c
  <2>1. gas.u \in -2..2 /\ gas.u - gas.c \in -3..3 /\ gas.u + gas.c \in -3..3 /\ gas.c \in {1, 2}
    BY DEF Flows
  <2>2. k = -1 \/ k = 0 \/ k = 1
    OBVIOUS
  <2> QED
    BY <2>1, <2>2 DEF SlowSpeeds
<1>2. ProfileWave(w, x, y, c, gas, k) = SweptWave(w, x, y, c, gas.u + k * gas.c)
  BY DEF ProfileWave, SweptWave, ppm_int_profile
<1> QED
  BY <1>1, <1>2, SweptTimes

\* PPM's states are the passive scalar's, wave by wave.
LEMMA PpmTraced ==
  ASSUME NEW gas, Flows(gas), NEW family \in FamilyNames, NEW x \in Int, NEW y \in Int, NEW c \in Int,
         NEW speed, speed = gas.u + Families[family] * gas.c
  PROVE  LET wave == UnitWave(family, gas)
             swept == ppm_int_profile_single(32 * x, 32 * y, 32 * c, speed)
             ppm == trace_ppm([v \in DOMAIN wave |->
                      ppm_int_profile(wave[v] * (32 * x), wave[v] * (32 * y), wave[v] * (32 * c),
                                      gas.u, gas.c)], gas)
         IN  /\ speed > 0 => \A v \in DOMAIN ppm.qm :
                               v \in DOMAIN wave /\ ppm.qm[v] = swept.Ip * wave[v]
             /\ speed <= 0 => \A v \in DOMAIN ppm.qp :
                                v \in DOMAIN wave /\ ppm.qp[v] = swept.Im * wave[v]
<1> DEFINE wave == UnitWave(family, gas)
           I == [v \in DOMAIN wave |->
                  ppm_int_profile(wave[v] * (32 * x), wave[v] * (32 * y), wave[v] * (32 * c),
                                  gas.u, gas.c)]
           Q(k) == Swept(x, y, c, gas.u + k * gas.c)
           Up == [k \in -1..1 |-> Q(k).Ip]
           Down == [k \in -1..1 |-> Q(k).Im]
           towards == [k \in -1..1 |-> gas.u + k * gas.c > 0]
           away == [k \in -1..1 |-> ~towards[k]]
           upJ == [k \in -1..1 |-> [v \in DOMAIN I |-> I[v][k].Ip]]
           downJ == [k \in -1..1 |-> [v \in DOMAIN I |-> I[v][k].Im]]
<1>1. DOMAIN wave = WaveVariables /\ \A v \in WaveVariables : wave[v] \in Int
  BY WaveType
<1>2. DOMAIN I = WaveVariables
  BY <1>1
<1>3. ASSUME NEW v \in WaveVariables, NEW k \in -1..1
      PROVE  /\ Q(k).Ip \in Int /\ Q(k).Im \in Int
             /\ I[v][k].Ip = wave[v] * Q(k).Ip /\ I[v][k].Im = wave[v] * Q(k).Im
  <2>1. PICK w \in Int : w = wave[v]
    BY <1>1
  <2>2. I[v][k] = ProfileWave(w, x, y, c, gas, k)
    BY <1>1, <2>1 DEF ProfileWave
  <2>3. TimesOf(ProfileWave(w, x, y, c, gas, k), w, Swept(x, y, c, gas.u + k * gas.c))
    BY WaveAverages
  <2> HIDE DEF wave, I
  <2> QED
    BY <2>1, <2>2, <2>3 DEF TimesOf
<1> HIDE DEF I, Q
<1>4. Up \in [-1..1 -> Int] /\ Down \in [-1..1 -> Int]
  <2>1. \A k \in -1..1 : Q(k).Ip \in Int /\ Q(k).Im \in Int
    BY <1>3 DEF WaveVariables
  <2> QED
    BY <2>1
<1>5. \A k \in -1..1 : /\ DOMAIN upJ[k] = WaveVariables
                       /\ \A v \in WaveVariables : upJ[k][v] = wave[v] * Up[k]
  BY <1>2, <1>3
<1>6. \A k \in -1..1 : /\ DOMAIN downJ[k] = WaveVariables
                       /\ \A v \in WaveVariables : downJ[k][v] = wave[v] * Down[k]
  BY <1>2, <1>3
<1>7. PICK k \in -1..1 : k = Families[family]
  BY SpeedOf
<1>8. /\ speed = gas.u + k * gas.c /\ Up[k] = Q(k).Ip /\ Down[k] = Q(k).Im
      /\ Q(k) = ppm_int_profile_single(32 * x, 32 * y, 32 * c, speed)
  BY <1>7 DEF Q, Swept
<1> DEFINE ppm == trace_ppm(I, gas)
<1>9. ppm.qm = TracedGas(upJ, 1, towards, gas) /\ ppm.qp = TracedGas(downJ, -1, away, gas)
  BY DEF trace_ppm
<1>10. gas.u \in Int /\ gas.c \in Int /\ speed \in -3..3
  BY SpeedOf DEF Flows
<1> HIDE DEF Up, Down, upJ, downJ, ppm, wave
<1>11. ASSUME speed > 0
       PROVE  \A v \in DOMAIN ppm.qm : v \in WaveVariables /\ ppm.qm[v] = Up[k] * wave[v]
  <2>1. towards[k]
    BY <1>8, <1>11
  <2> HIDE DEF towards
  <2>2. /\ DOMAIN TracedGas(upJ, 1, towards, gas) = {"rho", "u", "v", "p"}
        /\ \A v \in {"rho", "u", "v", "p"} : TracedGas(upJ, 1, towards, gas)[v] = Up[k] * wave[v]
    BY <1>4, <1>5, <1>7, <2>1, TracedGasOf DEF wave
  <2> QED
    BY <1>9, <2>2 DEF WaveVariables
<1>12. ASSUME speed <= 0
       PROVE  \A v \in DOMAIN ppm.qp : v \in WaveVariables /\ ppm.qp[v] = Down[k] * wave[v]
  <2>1. away[k]
    <3>1. towards[k] = (speed > 0)
      BY <1>8
    <3>2. ~(speed > 0)
      BY <1>10, <1>12
    <3>3. ~towards[k]
      BY <3>1, <3>2
    <3> HIDE DEF towards
    <3> QED
      BY <3>3
  <2> HIDE DEF away
  <2>2. /\ DOMAIN TracedGas(downJ, -1, away, gas) = {"rho", "u", "v", "p"}
        /\ \A v \in {"rho", "u", "v", "p"} : TracedGas(downJ, -1, away, gas)[v] = Down[k] * wave[v]
    BY <1>4, <1>6, <1>7, <2>1, TracedGasOf DEF wave
  <2> QED
    BY <1>9, <2>2 DEF WaveVariables
<1> QED
  BY <1>1, <1>8, <1>11, <1>12 DEF I, ppm, wave

\* PLM's slopes are multiples of eight, so that tracing them divides exactly.
LEMMA PlmSlopeMultiple ==
  ASSUME NEW s \in Multiples
  PROVE  \E t \in Int : plm_slope(s, 4) = 8 * t
<1>1. PICK a, b, c, d, e \in Int :
        s[-2] = 384 * a /\ s[-1] = 384 * b /\ s[0] = 384 * c /\ s[1] = 384 * d /\ s[2] = 384 * e
  BY MultipleOf
<1>2. s \in Data
  BY DEF Multiples
<1>3. PICK i, j \in Int : CentralSlope(s, -1) = 192 * i /\ CentralSlope(s, 1) = 192 * j
  <2>1. -1 \in -2..2 /\ 1 \in -2..2
    OBVIOUS
  <2>2. (\E n \in Int : CentralSlope(s, -1) = 192 * n) /\ (\E n \in Int : CentralSlope(s, 1) = 192 * n)
    BY <2>1, CentralSlopeReversed
  <2> QED
    BY <2>2
<1>4. PICK w \in Int : WantedSlope(s, 4) = 8 * w
  <2> DEFINE x == 8 * (d - b) - (i + j)
  <2>1. WantedSlope(s, 4) = (192 * x) \div 6
    <3>1. 4 * ((s[0] - s[-1]) + (s[1] - s[0])) = 1536 * (d - b)
      BY <1>1
    <3>2. CentralSlope(s, -1) + CentralSlope(s, 1) = 192 * (i + j)
      BY <1>3
    <3>3. WantedSlope(s, 4) = (1536 * (d - b) - 192 * (i + j)) \div 6
      BY <3>1, <3>2, WantedSlopeAs
    <3>4. 1536 * (d - b) - 192 * (i + j) = 192 * x
      OBVIOUS
    <3> QED
      BY <3>3, <3>4
  <2>2. x \in Int
    OBVIOUS
  <2> HIDE DEF x
  <2>3. (192 * x) \div 6 = 8 * (4 * x) /\ 4 * x \in Int
    BY <2>2
  <2> QED
    BY <2>1, <2>3
<1>5. plm_slope(s, 4) = Limited(8 * w, 384 * c - 384 * b, 384 * d - 384 * c)
  BY <1>1, <1>2, <1>4, PlmSlopeOf DEF Orders
<1> DEFINE dl == c - b
           dr == d - c
           x == Lesser(2 * Lesser(48 * Abs(dl), 48 * Abs(dr)), Abs(w))
           y == IF (dl >= 0 /\ dr >= 0) \/ (dl <= 0 /\ dr <= 0) THEN x ELSE 0
           t == CopySign(y, dl + dr)
<1>6. dl \in Int /\ dr \in Int
  OBVIOUS
<1>7. 384 * c - 384 * b = 384 * dl /\ 384 * d - 384 * c = 384 * dr
  OBVIOUS
<1> HIDE DEF dl, dr
<1>8. t \in Int
  BY <1>6 DEF CopySign, Lesser, Abs
<1>9. Limited(8 * w, 384 * dl, 384 * dr) = 8 * t
  BY <1>6 DEF Limited, SlopeLimit, CopySign, Lesser, Abs
<1> QED
  BY <1>5, <1>7, <1>8, <1>9

LEMMA CharacteristicsTracedOf == averages \in Data => CharacteristicsTraced
<1> SUFFICES ASSUME averages \in Data, NEW gas \in FlowingGases, NEW family \in DOMAIN Families
    PROVE  WaveLeavesAlone(Scaled, plm_slope(Scaled, 4), ppm_reconstruct(Scaled, 2), gas,
                           gas.u + Families[family] * gas.c, UnitWave(family, gas))
  BY DEF CharacteristicsTraced
<1> DEFINE q == Scaled
           wave == UnitWave(family, gas)
           speed == gas.u + Families[family] * gas.c
           edges == ppm_reconstruct(q, 2)
           Times(k) == [x \in DOMAIN wave |-> k * wave[x]]
<1>1. Flows(gas) /\ family \in FamilyNames
  BY FlowsOf DEF Families, FamilyNames
<1>2. q \in Multiples
  BY ScaledMultiples
<1>3. PICK t \in Int : plm_slope(q, 4) = 8 * t
  BY <1>2, PlmSlopeMultiple
<1>4. PICK x, y, c \in Int : edges.sm = 32 * x /\ edges.sp = 32 * y /\ q[0] = 32 * c
  BY <1>2, ReconstructedMultiple
<1>5. q[0] \in Int
  BY <1>4
<1>6. speed \in -3..3
  BY <1>1, SpeedOf
<1> DEFINE passive == pc_plm_d_passive(q, 8 * t, speed)
           plm(face) == pc_plm_d_eb(Times(q[0]), Times(8 * t), gas, {face})
           swept == ppm_int_profile_single(32 * x, 32 * y, 32 * c, speed)
           ppm == trace_ppm([v \in DOMAIN wave |->
                    ppm_int_profile(wave[v] * (32 * x), wave[v] * (32 * y), wave[v] * (32 * c),
                                    gas.u, gas.c)], gas)
<1>7. speed >= 0 => plm("upper").qm = Times(passive.qm)
  BY <1>1, <1>5, PlmUpperTraced
<1>8. speed < 0 => plm("lower").qp = Times(passive.qp)
  BY <1>1, <1>5, PlmLowerTraced
<1>9. /\ speed > 0 => \A v \in DOMAIN ppm.qm : v \in DOMAIN wave /\ ppm.qm[v] = swept.Ip * wave[v]
      /\ speed <= 0 => \A v \in DOMAIN ppm.qp : v \in DOMAIN wave /\ ppm.qp[v] = swept.Im * wave[v]
  BY <1>1, PpmTraced
<1>10. /\ speed > 0 => \A v \in DOMAIN ppm.qm : ppm.qm[v] = Times(swept.Ip)[v]
       /\ speed <= 0 => \A v \in DOMAIN ppm.qp : ppm.qp[v] = Times(swept.Im)[v]
  BY <1>9
<1>11. WaveLeavesAlone(q, 8 * t, edges, gas, speed, wave)
  <2>1. swept = ppm_int_profile_single(edges.sm, edges.sp, q[0], speed)
    BY <1>4
  <2>2. ppm = trace_ppm([v \in DOMAIN wave |->
                ppm_int_profile(wave[v] * edges.sm, wave[v] * edges.sp, wave[v] * q[0],
                                gas.u, gas.c)], gas)
    BY <1>4
  <2> HIDE DEF q, edges, speed, wave, swept, ppm
  <2> QED
    BY <2>1, <2>2, <1>7, <1>8, <1>10 DEF WaveLeavesAlone
<1> QED
  BY <1>3, <1>11

(***************************************************************************)
(* No reconstruction makes a new extremum: for any cell averages, what     *)
(* PLM.H, PPM.H, PPM.cpp and MOL.H rebuild stays between the cell and its  *)
(* neighbours at the faces and in what a wave sweeps out of the cell, next *)
(* to the body as well, and a profile of one wave family alone is traced   *)
(* as a passive scalar of that wave's speed.                               *)
(***************************************************************************)
THEOREM ReconstructionsBounded == StencilSpec => []ProfilesBounded
<1>1. StencilInv => ProfilesBounded
  BY EdgesBounded, SweptBounded, CharacteristicsTracedOf DEF StencilInv, ProfilesBounded
<1> QED
  BY <1>1, StencilInvariant, PTL

-----------------------------------------------------------------------------
(* The fluxes of cut faces.  An interpolation's weights are products of two *)
(* shares, so its value is the product of two sums, one along each          *)
(* direction of the face.                                                   *)

CutFaces == [area : 0..4, ct : (-1..1) \X (-1..1), connected : BOOLEAN \X BOOLEAN]

CutInv == cut.what = "faces" => cut.low \in CutFaces /\ cut.high \in CutFaces

LEMMA CutInvariant == CutSpec => []CutInv
<1>1. CutInit => CutInv
  BY DEF CutInit, CutInv, Uncut
<1>2. CutInv /\ [CutNext]_cut => CutInv'
  <2> SUFFICES ASSUME CutInv, [CutNext]_cut PROVE CutInv'
    OBVIOUS
  <2>1. CASE Wall
    BY <2>1 DEF Wall, CutInv
  <2>2. CASE Faces
    <3>1. PICK low, high \in [area : 0..4, ct : Halves \X Halves, connected : Connections] :
            cut' = [what |-> "faces", low |-> low, high |-> high]
      BY <2>2 DEF Faces
    <3> DEFINE points == (-1..1) \X (-1..1)
               both == BOOLEAN \X BOOLEAN
    <3>2. Halves \X Halves \subseteq points /\ Connections \subseteq both
      <4>1. Halves \X Halves \subseteq points
        BY CutAssumption
      <4>2. <<TRUE, TRUE>> \in both /\ <<TRUE, FALSE>> \in both /\ <<FALSE, FALSE>> \in both
        OBVIOUS
      <4> QED
        BY <4>1, <4>2 DEF Connections
    <3> HIDE DEF points, both
    <3>3. low \in [area : 0..4, ct : points, connected : both]
          /\ high \in [area : 0..4, ct : points, connected : both]
      BY <3>2
    <3> QED
      BY <3>1, <3>3 DEF CutInv, CutFaces, points, both
  <2>3. CASE Gas
    BY <2>3 DEF Gas, CutInv
  <2>4. CASE UNCHANGED cut
    BY <2>4 DEF CutInv
  <2> QED
    BY <2>1, <2>2, <2>3, <2>4 DEF CutNext
<1> QED
  BY <1>1, <1>2, PTL DEF CutSpec

Shares == [-1..1 -> Int]

Crossed(u, v) == [o \in Beside |-> u[o[1]] * v[o[2]]]

SumOf(u) == u[-1] + u[0] + u[1]

\* A flux that is one, or grows along the face's first or second direction, or
\* along both, and its factors.
Bilinear(a, b) == [o \in Beside |-> (IF a THEN o[1] ELSE 1) * (IF b THEN o[2] ELSE 1)]

Linear(a) == [i \in -1..1 |-> IF a THEN i ELSE 1]

LEMMA CrossedSum ==
  ASSUME NEW u \in Shares, NEW v \in Shares
  PROVE  sumBeside(Crossed(u, v)) = SumOf(u) * SumOf(v)
<1>1. -1 \in -1..1 /\ 0 \in -1..1 /\ 1 \in -1..1
  OBVIOUS
<1>2. ASSUME NEW i \in -1..1, NEW j \in -1..1
      PROVE  Crossed(u, v)[<<i, j>>] = u[i] * v[j]
  BY DEF Crossed, Beside
<1>3. ASSUME NEW i \in -1..1
      PROVE  /\ u[i] \in Int /\ SumOf(v) \in Int
             /\ Crossed(u, v)[<<i, -1>>] + Crossed(u, v)[<<i, 0>>] + Crossed(u, v)[<<i, 1>>]
                  = u[i] * SumOf(v)
  <2>1. u[i] \in Int /\ v[-1] \in Int /\ v[0] \in Int /\ v[1] \in Int
    BY <1>1 DEF Shares
  <2>2. \A x, p, q, r \in Int : x * p + x * q + x * r = x * (p + q + r)
    OBVIOUS
  <2> QED
    BY <1>1, <1>2, <2>1, <2>2 DEF SumOf
<1>4. \A x, p, q, r \in Int : p * x + q * x + r * x = (p + q + r) * x
  OBVIOUS
<1> QED
  BY <1>1, <1>3, <1>4 DEF sumBeside, SumOf

\* The shares of a face's centroid ct, in halves: they sum up to two, and they
\* have their centre at ct.
ShareOf(ct, connected) ==
  [i \in -1..1 |-> share(i, IF connected THEN AbsOf(ct) ELSE 0, side(ct))]

Tilted(w, a) == [i \in -1..1 |-> w[i] * Linear(a)[i]]

LEMMA ShareSums ==
  ASSUME NEW ct \in -1..1, NEW connected \in BOOLEAN
  PROVE  /\ ShareOf(ct, connected) \in Shares
         /\ SumOf(Tilted(ShareOf(ct, connected), FALSE)) = 2
         /\ connected => SumOf(Tilted(ShareOf(ct, connected), TRUE)) = ct
<1> DEFINE w == ShareOf(ct, connected)
<1>1. -1 \in -1..1 /\ 0 \in -1..1 /\ 1 \in -1..1
  OBVIOUS
<1>2. ct = -1 \/ ct = 0 \/ ct = 1
  OBVIOUS
<1>3. /\ connected /\ ct = -1 => w[-1] = 1 /\ w[0] = 1 /\ w[1] = 0
      /\ ct = 0 \/ ~connected => w[-1] = 0 /\ w[0] = 2 /\ w[1] = 0
      /\ connected /\ ct = 1 => w[-1] = 0 /\ w[0] = 1 /\ w[1] = 1
  BY <1>1, <1>2 DEF ShareOf, share, AbsOf, side
<1>4. w \in Shares
  BY <1>2 DEF ShareOf, share, AbsOf, side, Shares
<1> HIDE DEF w
<1>9. w[-1] \in Int /\ w[0] \in Int /\ w[1] \in Int
  BY <1>1, <1>4 DEF Shares
<1>5. SumOf(Tilted(w, FALSE)) = w[-1] + w[0] + w[1]
  BY <1>1, <1>4 DEF SumOf, Tilted, Linear, Shares
<1>6. SumOf(Tilted(w, TRUE)) = w[1] - w[-1]
  BY <1>1, <1>4 DEF SumOf, Tilted, Linear, Shares
<1>7. SumOf(Tilted(w, FALSE)) = 2
  <2>1. w[-1] + w[0] + w[1] = 2
    BY <1>2, <1>3
  <2> QED
    BY <1>5, <2>1
<1>8. connected => SumOf(Tilted(w, TRUE)) = ct
  <2>1. connected => w[1] - w[-1] = ct
    BY <1>2, <1>3
  <2> QED
    BY <1>6, <2>1
<1> QED
  BY <1>4, <1>7, <1>8 DEF w

LEMMA TiltedType ==
  ASSUME NEW w \in Shares, NEW a \in BOOLEAN PROVE Tilted(w, a) \in Shares
BY DEF Tilted, Linear, Shares

\* A bilinear flux by weights that are products.
Weighted(f, k, w1, w2, a, b) ==
  \A o \in Beside : f[o] = (k * w1[o[1]] * w2[o[2]]) * Bilinear(a, b)[o]

\* What is interpolated of it.
LEMMA Interpolated ==
  ASSUME NEW w1 \in Shares, NEW w2 \in Shares, NEW a \in BOOLEAN, NEW b \in BOOLEAN, NEW k \in Int,
         NEW f, Weighted(f, k, w1, w2, a, b)
  PROVE  sumBeside(f) = k * (SumOf(Tilted(w1, a)) * SumOf(Tilted(w2, b)))
<1> DEFINE u == [i \in -1..1 |-> k * Tilted(w1, a)[i]]
           v == Tilted(w2, b)
<1>1. u \in Shares /\ v \in Shares
  BY TiltedType DEF Shares
<1>2. ASSUME NEW o \in Beside
      PROVE  f[o] = u[o[1]] * v[o[2]]
  <2>1. o[1] \in -1..1 /\ o[2] \in -1..1
    BY DEF Beside
  <2> DEFINE x == Linear(a)[o[1]]
             y == Linear(b)[o[2]]
             p == w1[o[1]]
             q == w2[o[2]]
  <2>2. x \in Int /\ y \in Int /\ p \in Int /\ q \in Int
    BY <2>1 DEF Linear, Shares
  <2>3. Bilinear(a, b)[o] = x * y
    BY <2>1 DEF Bilinear, Linear
  <2>4. u[o[1]] = k * (p * x) /\ v[o[2]] = q * y
    BY <2>1 DEF Tilted
  <2>5. f[o] = (k * p * q) * Bilinear(a, b)[o]
    BY DEF Weighted
  <2> HIDE DEF x, y, p, q
  <2>6. (k * p * q) * (x * y) = (k * (p * x)) * (q * y)
    BY <2>2
  <2> QED
    BY <2>3, <2>4, <2>5, <2>6
<1>3. sumBeside(f) = sumBeside(Crossed(u, v))
  <2>1. \A o \in Beside : f[o] = Crossed(u, v)[o]
    BY <1>2 DEF Crossed
  <2>2. \A i, j \in -1..1 : <<i, j>> \in Beside
    BY DEF Beside
  <2>3. \A i, j \in -1..1 : f[<<i, j>>] = Crossed(u, v)[<<i, j>>]
    BY <2>1, <2>2
  <2>4. -1 \in -1..1 /\ 0 \in -1..1 /\ 1 \in -1..1
    OBVIOUS
  <2> HIDE DEF u, v
  <2> QED
    BY <2>3, <2>4 DEF sumBeside
<1>4. SumOf(u) = k * SumOf(Tilted(w1, a))
  <2> DEFINE t == Tilted(w1, a)
  <2>1. t[-1] \in Int /\ t[0] \in Int /\ t[1] \in Int
    BY TiltedType DEF Shares
  <2>2. u[-1] = k * t[-1] /\ u[0] = k * t[0] /\ u[1] = k * t[1]
    OBVIOUS
  <2> HIDE DEF t, u
  <2>3. k * t[-1] + k * t[0] + k * t[1] = k * (t[-1] + t[0] + t[1])
    BY <2>1
  <2> QED
    BY <2>2, <2>3 DEF SumOf, t
<1>5. /\ SumOf(Tilted(w1, a)) \in Int /\ SumOf(v) \in Int
  BY TiltedType DEF SumOf, Shares
<1>6. sumBeside(Crossed(u, v)) = SumOf(u) * SumOf(v)
  BY <1>1, CrossedSum
<1> HIDE DEF u
<1>7. \A x, y \in Int : (k * x) * y = k * (x * y)
  OBVIOUS
<1> QED
  BY <1>3, <1>4, <1>5, <1>6, <1>7

\* A bilinear flux at the centroid of a face and at its centre.
AtCentroid(face, a, b) == (IF a THEN face.ct[1] ELSE 2) * (IF b THEN face.ct[2] ELSE 2)
AtCentre(a, b) == IF a \/ b THEN 0 ELSE 1

\* The flux at a face's centroid, scaled by four, and the interpolated flux of
\* the method of lines, for a bilinear flux and for a uniform one.
LEMMA CutFluxOf ==
  ASSUME NEW face \in CutFaces, NEW a \in BOOLEAN, NEW b \in BOOLEAN
  PROVE  /\ AtCentroid(face, a, b) \in Int /\ (~a /\ ~b => AtCentroid(face, a, b) = 4)
         /\ ~a /\ ~b => centroidValue(face, Bilinear(a, b)) = 4
         /\ face.area \in 1..3 /\ face.connected = <<TRUE, TRUE>> =>
              centroidValue(face, Bilinear(a, b)) = AtCentroid(face, a, b)
         /\ face.area \in {0, 4} => centroidValue(face, Bilinear(a, b)) = 4 * AtCentre(a, b)
         /\ face.area < 4 =>
              pc_apply_face_stencil(face, Bilinear(a, b)) = face.area * AtCentroid(face, a, b)
         /\ ~(face.area < 4) =>
              pc_apply_face_stencil(face, Bilinear(a, b)) = 16 * AtCentre(a, b)
<1> DEFINE F == Bilinear(a, b)
           ct1 == face.ct[1]
           ct2 == face.ct[2]
           w1(c) == ShareOf(ct1, c)
           w2(c) == ShareOf(ct2, c)
           whole == AtCentroid(face, a, b)
<1>1. ct1 \in -1..1 /\ ct2 \in -1..1 /\ face.area \in 0..4
  BY DEF CutFaces
<1>2. face.connected[1] \in BOOLEAN /\ face.connected[2] \in BOOLEAN
  <2>1. face.connected \in BOOLEAN \X BOOLEAN
    BY DEF CutFaces
  <2> QED
    BY <2>1
<1>3. F[<<0, 0>>] = AtCentre(a, b)
  <2>1. <<0, 0>> \in Beside
    BY DEF Beside
  <2> QED
    BY <2>1 DEF Bilinear, AtCentre
<1>4. ASSUME NEW c1 \in BOOLEAN, NEW c2 \in BOOLEAN
      PROVE  /\ w1(c1) \in Shares /\ w2(c2) \in Shares
             /\ (c1 /\ c2) \/ (~a /\ ~b) =>
                  SumOf(Tilted(w1(c1), a)) * SumOf(Tilted(w2(c2), b)) = whole
  <2>1. /\ w1(c1) \in Shares /\ SumOf(Tilted(w1(c1), FALSE)) = 2
        /\ c1 => SumOf(Tilted(w1(c1), TRUE)) = ct1
    BY <1>1, ShareSums
  <2>2. /\ w2(c2) \in Shares /\ SumOf(Tilted(w2(c2), FALSE)) = 2
        /\ c2 => SumOf(Tilted(w2(c2), TRUE)) = ct2
    BY <1>1, ShareSums
  <2>3. whole = (IF a THEN ct1 ELSE 2) * (IF b THEN ct2 ELSE 2)
    BY DEF AtCentroid
  <2> HIDE DEF w1, w2, ct1, ct2, whole
  <2>4. ASSUME a \in BOOLEAN, a => c1
        PROVE  SumOf(Tilted(w1(c1), a)) = IF a THEN ct1 ELSE 2
    BY <2>1, <2>4
  <2>5. ASSUME b \in BOOLEAN, b => c2
        PROVE  SumOf(Tilted(w2(c2), b)) = IF b THEN ct2 ELSE 2
    BY <2>2, <2>5
  <2> QED
    BY <2>1, <2>2, <2>3, <2>4, <2>5
<1>5. whole \in Int /\ (~a /\ ~b => whole = 4)
  BY <1>1 DEF AtCentroid
<1>6. ASSUME face.area \in 1..3
      PROVE  /\ ~a /\ ~b => centroidValue(face, F) = 4
             /\ face.connected = <<TRUE, TRUE>> => centroidValue(face, F) = whole
  <2> DEFINE c1 == face.connected[1]
             c2 == face.connected[2]
             W == [o \in Beside |-> share(o[1], IF c1 THEN AbsOf(ct1) ELSE 0, side(ct1))
                                     * share(o[2], IF c2 THEN AbsOf(ct2) ELSE 0, side(ct2))]
             f == [o \in Beside |-> W[o] * F[o]]
  <2>1. centroidValue(face, F) = sumBeside(f)
    BY <1>6 DEF centroidValue
  <2>2. Weighted(f, 1, w1(c1), w2(c2), a, b)
    <3> SUFFICES ASSUME NEW o \in Beside
                 PROVE  f[o] = (1 * w1(c1)[o[1]] * w2(c2)[o[2]]) * F[o]
      BY DEF Weighted
    <3>1. o[1] \in -1..1 /\ o[2] \in -1..1
      BY DEF Beside
    <3>2. W[o] = w1(c1)[o[1]] * w2(c2)[o[2]]
      BY <3>1 DEF ShareOf
    <3>3. w1(c1)[o[1]] \in Int
      BY <3>1, <1>2, <1>4 DEF Shares
    <3> QED
      BY <3>2, <3>3
  <2> HIDE DEF f, w1, w2, c1, c2
  <2>3. c1 \in BOOLEAN /\ c2 \in BOOLEAN
    BY <1>2 DEF c1, c2
  <2>4. (c1 /\ c2) \/ (~a /\ ~b) => centroidValue(face, F) = whole
    <3>1. sumBeside(f) = 1 * (SumOf(Tilted(w1(c1), a)) * SumOf(Tilted(w2(c2), b)))
      BY <2>3, <1>4, <2>2, Interpolated
    <3> HIDE DEF whole
    <3> QED
      BY <2>3, <1>4, <1>5, <2>1, <3>1
  <2>5. face.connected = <<TRUE, TRUE>> => c1 /\ c2
    BY DEF c1, c2
  <2> HIDE DEF whole, F
  <2> QED
    BY <1>5, <2>4, <2>5
<1>7. ASSUME face.area \in {0, 4}
      PROVE  centroidValue(face, F) = 4 * AtCentre(a, b)
  BY <1>3, <1>7 DEF centroidValue
<1>8. ASSUME face.area < 4 PROVE pc_apply_face_stencil(face, F) = face.area * whole
  <2> DEFINE W == pc_fill_flux_interp_stencil(face)
             f == [o \in Beside |-> W[o] * F[o]]
             s1 == w1(TRUE)
             s2 == w2(TRUE)
  <2>1. pc_apply_face_stencil(face, F) = sumBeside(f)
    BY <1>8 DEF pc_apply_face_stencil
  <2>2. Weighted(f, face.area, s1, s2, a, b)
    <3> SUFFICES ASSUME NEW o \in Beside
                 PROVE  f[o] = (face.area * s1[o[1]] * s2[o[2]]) * F[o]
      BY DEF Weighted
    <3>1. o[1] \in -1..1 /\ o[2] \in -1..1
      BY DEF Beside
    <3>2. /\ w1(TRUE)[o[1]] = share(o[1], AbsOf(ct1), side(ct1))
          /\ w2(TRUE)[o[2]] = share(o[2], AbsOf(ct2), side(ct2))
      BY <3>1 DEF ShareOf
    <3> QED
      BY <3>2 DEF pc_fill_flux_interp_stencil
  <2> HIDE DEF f, w1, w2, s1, s2
  <2>4. /\ s1 \in Shares /\ s2 \in Shares /\ face.area \in Int
        /\ SumOf(Tilted(s1, a)) * SumOf(Tilted(s2, b)) = whole
    <3>1. face.area \in Int
      BY <1>1
    <3>2. TRUE \in BOOLEAN
      OBVIOUS
    <3> QED
      BY <3>1, <3>2, <1>4 DEF s1, s2
  <2>3. sumBeside(f)
          = face.area * (SumOf(Tilted(s1, a)) * SumOf(Tilted(s2, b)))
    BY <2>2, <2>4, Interpolated
  <2> HIDE DEF whole
  <2> QED
    BY <2>1, <2>3, <2>4
<1>9. ASSUME ~(face.area < 4)
      PROVE  pc_apply_face_stencil(face, F) = 16 * AtCentre(a, b)
  BY <1>3, <1>9 DEF pc_apply_face_stencil
<1>10. ~a /\ ~b => centroidValue(face, F) = 4
  <2>1. face.area \in 1..3 \/ face.area \in {0, 4}
    BY <1>1
  <2>2. ~a /\ ~b => AtCentre(a, b) = 1
    BY DEF AtCentre
  <2> HIDE DEF F
  <2>3. CASE face.area \in 1..3
    BY <1>6, <2>3
  <2>4. CASE face.area \in {0, 4}
    <3>1. centroidValue(face, F) = 4 * AtCentre(a, b)
      BY <1>7, <2>4
    <3> QED
      BY <2>2, <3>1
  <2> QED
    BY <2>1, <2>3, <2>4
<1> HIDE DEF F, whole
<1> QED
  BY <1>5, <1>6, <1>7, <1>8, <1>9, <1>10 DEF F, whole

(***************************************************************************)
(* Cut faces are treated alike by both schemes: a bilinear flux is taken   *)
(* at the face's centroid, the registers get what the divergence is taken  *)
(* of, and a gas at rest under a uniform pressure stays at rest, also      *)
(* where neighbours are not connected.                                     *)
(***************************************************************************)
THEOREM CutFacesBalance == CutSpec => []CutFluxesBalance
<1>1. CutInv => CutFluxesBalance
  <2> SUFFICES ASSUME CutInv, cut.what = "faces" PROVE CutFluxesBalance
    BY DEF CutFluxesBalance
  <2> DEFINE low == cut.low
             high == cut.high
             one == [o \in Beside |-> 1]
  <2>1. low \in CutFaces /\ high \in CutFaces
    BY DEF CutInv
  <2>2. ASSUME NEW face \in CutFaces, NEW a \in BOOLEAN, NEW b \in BOOLEAN,
               face.connected = <<TRUE, TRUE>>, face.area > 0
        PROVE  LET value == centroidValue(face, Bilinear(a, b))
               IN  /\ face.area < 4 =>
                        value = (IF a THEN face.ct[1] ELSE 2) * (IF b THEN face.ct[2] ELSE 2)
                   /\ pc_apply_face_stencil(face, Bilinear(a, b)) = face.area * value
                   /\ molRegistered(face, Bilinear(a, b)) = value
    <3> DEFINE value == centroidValue(face, Bilinear(a, b))
               mol == pc_apply_face_stencil(face, Bilinear(a, b))
               whole == AtCentroid(face, a, b)
    <3>1. face.area \in 0..4 /\ face.ct[1] \in Int /\ face.ct[2] \in Int
      BY DEF CutFaces
    <3>2. whole \in Int /\ AtCentre(a, b) \in Int
      <4>1. whole \in Int
        BY CutFluxOf
      <4>2. AtCentre(a, b) \in Int
        BY DEF AtCentre
      <4> QED
        BY <4>1, <4>2
    <3>3. face.area < 4 => value = whole /\ mol = face.area * whole
      <4>1. face.area < 4 => face.area \in 1..3
        BY <2>2, <3>1
      <4> QED
        BY <2>2, <4>1, CutFluxOf
    <3>4. face.area = 4 => value = 4 * AtCentre(a, b) /\ mol = 16 * AtCentre(a, b)
      <4>1. face.area = 4 => face.area \in {0, 4} /\ ~(face.area < 4)
        OBVIOUS
      <4> QED
        BY <4>1, CutFluxOf
    <3> HIDE DEF value, mol, whole
    <3>5. value \in Int /\ mol = face.area * value
      BY <3>1, <3>2, <3>3, <3>4
    <3>6. mol \div face.area = value
      <4>1. face.area = 1 \/ face.area = 2 \/ face.area = 3 \/ face.area = 4
        BY <2>2, <3>1
      <4>2. \A x \in Int : (1 * x) \div 1 = x /\ (2 * x) \div 2 = x
                           /\ (3 * x) \div 3 = x /\ (4 * x) \div 4 = x
        OBVIOUS
      <4> QED
        BY <3>5, <4>1, <4>2
    <3> QED
      BY <2>2, <3>1, <3>3, <3>5, <3>6 DEF value, mol, whole, molRegistered, AtCentroid
  <2>3. one = Bilinear(FALSE, FALSE)
    BY DEF Bilinear
  <2>4. ASSUME NEW face \in CutFaces
        PROVE  /\ face.area \in 0..4 /\ centroidValue(face, one) = 4
               /\ pc_apply_face_stencil(face, one) = 4 * face.area
    <3>1. face.area \in 0..4
      BY DEF CutFaces
    <3>2. centroidValue(face, Bilinear(FALSE, FALSE)) = 4
      BY CutFluxOf
    <3>3. /\ face.area < 4 => pc_apply_face_stencil(face, Bilinear(FALSE, FALSE))
                                = face.area * AtCentroid(face, FALSE, FALSE)
          /\ ~(face.area < 4) => pc_apply_face_stencil(face, Bilinear(FALSE, FALSE))
                                = 16 * AtCentre(FALSE, FALSE)
      BY CutFluxOf
    <3>4. AtCentroid(face, FALSE, FALSE) = 4 /\ AtCentre(FALSE, FALSE) = 1
      BY DEF AtCentroid, AtCentre
    <3> HIDE DEF one
    <3> QED
      <4>1. centroidValue(face, one) = 4
        BY <2>3, <3>2
      <4>2. CASE face.area < 4
        <5>1. pc_apply_face_stencil(face, one) = face.area * 4
          BY <2>3, <3>3, <3>4, <4>2
        <5> QED
          BY <3>1, <4>1, <5>1
      <4>3. CASE ~(face.area < 4)
        <5>1. pc_apply_face_stencil(face, one) = 16
          <6>1. pc_apply_face_stencil(face, Bilinear(FALSE, FALSE)) = 16 * AtCentre(FALSE, FALSE)
            BY <3>3, <4>3
          <6>2. 16 * AtCentre(FALSE, FALSE) = 16
            <7>1. \A x : x = 1 => 16 * x = 16
              OBVIOUS
            <7> QED
              BY <3>4, <7>1
          <6> QED
            BY <2>3, <6>1, <6>2
        <5> QED
          BY <3>1, <4>1, <4>3, <5>1
      <4> QED
        BY <4>2, <4>3
  <2> HIDE DEF one
  <2>5. eb_compute_div(low, high, one, one, 1) = 0
    BY <2>1, <2>4 DEF eb_compute_div, pc_compute_hyp_wallflux
  <2>6. pc_eb_div(low, high, one, one, pc_compute_hyp_mol_flux_eb(low, high, 1)) = 0
    BY <2>1, <2>4 DEF pc_eb_div, pc_compute_hyp_mol_flux_eb, pc_fill_sv_ebg
  <2>7. pc_eb_pdivu(low, high, one, one, 1) = 4 * (high.area - low.area)
    BY <2>1, <2>4 DEF pc_eb_pdivu
  <2> QED
    BY <2>1, <2>2, <2>5, <2>6, <2>7 DEF CutFluxesBalance, Bilinear, one
<1> QED
  BY <1>1, CutInvariant, PTL

-----------------------------------------------------------------------------
(* The cleaning of mass fractions.  Three partial densities of which the    *)
(* sum is positive do not lose by being clipped to it.                      *)

Densities == [Species -> Int]

GasInv ==
  cut.what = "gas" =>
    /\ cut.change \in Densities /\ cut.threshold \in 0..1
    /\ cut.state.rhoY \in Densities /\ cut.state.rho = sumOver(cut.state.rhoY)
    /\ cut.state.rhoU \in Int /\ cut.state.rhoe \in Int /\ cut.state.rhoE \in Int
    /\ cut.state.rho + sumOver(cut.change) > 0

LEMMA GasInvariant == CutSpec => []GasInv
<1>1. CutInit => GasInv
  BY DEF CutInit, GasInv, Uncut
<1>2. GasInv /\ [CutNext]_cut => GasInv'
  <2> SUFFICES ASSUME GasInv, [CutNext]_cut PROVE GasInv'
    OBVIOUS
  <2>1. CASE Wall
    BY <2>1 DEF Wall, GasInv
  <2>2. CASE Faces
    BY <2>2 DEF Faces, GasInv
  <2>3. CASE Gas
    <3>1. PICK rhoY \in [Species -> Partials], change \in [Species -> Partials], threshold \in 0..1 :
            /\ sumOver(rhoY) + sumOver(change) > 0
            /\ cut' = [what |-> "gas", change |-> change, threshold |-> threshold,
                       state |-> [rhoY |-> rhoY, rho |-> sumOver(rhoY), rhoU |-> 3, rhoe |-> 5, rhoE |-> 7]]
      BY <2>3 DEF Gas
    <3>2. rhoY \in Densities /\ change \in Densities
      BY CutAssumption DEF Densities
    <3> QED
      BY <3>1, <3>2 DEF GasInv
  <2>4. CASE UNCHANGED cut
    BY <2>4 DEF GasInv
  <2> QED
    BY <2>1, <2>2, <2>3, <2>4 DEF CutNext
<1> QED
  BY <1>1, <1>2, PTL DEF CutSpec

LEMMA SumOverType ==
  ASSUME NEW f \in Densities
  PROVE  /\ f[1] \in Int /\ f[2] \in Int /\ f[3] \in Int
         /\ sumOver(f) = f[1] + f[2] + f[3] /\ sumOver(f) \in Int
BY DEF Densities, Species, sumOver

LEMMA ClippedSum ==
  ASSUME NEW f \in Densities, sumOver(f) > 0,
         NEW g, g = [n \in Species |-> clipped(f[n], sumOver(f))]
  PROVE  /\ g \in Densities /\ sumOver(g) >= sumOver(f)
         /\ \A n \in Species : 0 <= g[n] /\ g[n] <= sumOver(g)
<1> DEFINE rho == sumOver(f)
<1>1. rho \in Int /\ rho > 0 /\ rho = f[1] + f[2] + f[3]
      /\ f[1] \in Int /\ f[2] \in Int /\ f[3] \in Int
  BY SumOverType
<1> HIDE DEF rho
<1>2. ASSUME NEW y \in Int
      PROVE  /\ clipped(y, rho) \in Int /\ 0 <= clipped(y, rho) /\ clipped(y, rho) <= rho
             /\ y <= rho => clipped(y, rho) >= y
             /\ y > rho => clipped(y, rho) = rho
  BY <1>1 DEF clipped
<1>3. g[1] = clipped(f[1], rho) /\ g[2] = clipped(f[2], rho) /\ g[3] = clipped(f[3], rho)
  BY DEF Species, rho
<1>4. /\ g[1] \in Int /\ g[2] \in Int /\ g[3] \in Int
      /\ 0 <= g[1] /\ 0 <= g[2] /\ 0 <= g[3]
      /\ f[1] <= rho => g[1] >= f[1]
      /\ f[2] <= rho => g[2] >= f[2]
      /\ f[3] <= rho => g[3] >= f[3]
      /\ f[1] > rho => g[1] = rho
      /\ f[2] > rho => g[2] = rho
      /\ f[3] > rho => g[3] = rho
  BY <1>1, <1>2, <1>3
<1>5. g \in Densities
  BY <1>4 DEF Densities, Species
<1>6. sumOver(g) = g[1] + g[2] + g[3]
  BY <1>5, SumOverType
<1>7. sumOver(g) >= rho
  BY <1>1, <1>4, <1>6
<1>8. \A n \in Species : 0 <= g[n] /\ g[n] <= sumOver(g)
  BY <1>4, <1>6 DEF Species
<1> QED
  BY <1>5, <1>7, <1>8 DEF rho

\* The common denominator cancels, and so does the kinetic energy.
LEMMA CleanedFractions ==
  ASSUME NEW rho \in Int, NEW new \in Int, NEW m \in Int, NEW e \in Int
  PROVE  /\ (2 * rho * new * m) * rho = (2 * rho * rho) * (m * new)
         /\ (new * (2 * rho * e - m * m) + new * (m * m)) * rho = (2 * rho * rho) * (e * new)
         /\ 2 * new * (2 * rho * rho)
              * ((new * (2 * rho * e - m * m) + new * (m * m)) - new * (2 * rho * e - m * m))
              = (2 * rho * new * m) * (2 * rho * new * m)
BY Z3

\* The density of the species, mass fractions within the threshold, the old
\* velocity and specific total energy, and the rest of it internal.
Sound(before, after, threshold) ==
  /\ before.rho = sumOver(before.rhoY)
  /\ after.rho = sumOver(after.rhoY) /\ after.rho >= before.rho
  /\ \A n \in Species : /\ 2 * after.rhoY[n] >= -threshold * after.rho
                        /\ 2 * after.rhoY[n] <= (2 + threshold) * after.rho
  /\ after.rhoU * before.rho = after.per * (before.rhoU * after.rho)
  /\ after.rhoE * before.rho = after.per * (before.rhoE * after.rho)
  /\ after # before =>
       2 * after.rho * after.per * (after.rhoE - after.rhoe) = after.rhoU * after.rhoU

(***************************************************************************)
(* After a redistribution the density is that of the species, no mass      *)
(* fraction is out of bounds by more than the threshold, and a cell whose  *)
(* species were clipped keeps its velocity and its specific total energy.  *)
(***************************************************************************)
THEOREM CleanedStatesSound == CutSpec => []CleanedStatesConsistent
<1>1. GasInv => CleanedStatesConsistent
  <2> SUFFICES ASSUME GasInv, cut.what = "gas" PROVE CleanedStatesConsistent
    BY DEF CleanedStatesConsistent
  <2> DEFINE U == cut.state
             div == [rhoY |-> cut.change, rhoU |-> 1, rhoe |-> 1, rhoE |-> 2]
             threshold == cut.threshold
             before == pc_post_eb_redistribution(U, div, FALSE, threshold)
             after == pc_post_eb_redistribution(U, div, TRUE, threshold)
             f == [n \in Species |-> U.rhoY[n] + cut.change[n]]
             rho == U.rho + sumOver(cut.change)
             m == U.rhoU + 1
             e == U.rhoE + 2
  <2>1. /\ cut.change \in Densities /\ threshold \in 0..1 /\ U.rhoY \in Densities
        /\ U.rho = sumOver(U.rhoY) /\ rho > 0 /\ m \in Int /\ e \in Int
    BY DEF GasInv
  <2>2. f \in Densities
    BY <2>1 DEF Densities
  <2>3. rho = sumOver(f) /\ rho \in Int
    <3>1. /\ U.rhoY[1] \in Int /\ U.rhoY[2] \in Int /\ U.rhoY[3] \in Int
          /\ sumOver(U.rhoY) = U.rhoY[1] + U.rhoY[2] + U.rhoY[3]
      BY <2>1, SumOverType
    <3>2. /\ cut.change[1] \in Int /\ cut.change[2] \in Int /\ cut.change[3] \in Int
          /\ sumOver(cut.change) = cut.change[1] + cut.change[2] + cut.change[3]
      BY <2>1, SumOverType
    <3>3. /\ f[1] = U.rhoY[1] + cut.change[1] /\ f[2] = U.rhoY[2] + cut.change[2]
          /\ f[3] = U.rhoY[3] + cut.change[3]
      BY DEF Species
    <3> QED
      BY <2>1, <3>1, <3>2, <3>3 DEF sumOver
  <2>4. before = [rhoY |-> f, rho |-> rho, per |-> 1, rhoU |-> m, rhoe |-> U.rhoe + 1, rhoE |-> e]
    BY DEF pc_post_eb_redistribution
  <2>5. after = clean_massfrac(before, threshold)
    BY <2>4 DEF pc_post_eb_redistribution
  <2> HIDE DEF U, div, threshold, before, after, f, rho, m, e
  <2> DEFINE outside(y) == 2 * y < -threshold * rho \/ (2 + threshold) * rho < 2 * y
             g == [n \in Species |-> clipped(f[n], rho)]
             new == sumOver(g)
  <2>6. ASSUME \E n \in Species : outside(f[n])
        PROVE  Sound(before, after, threshold)
    <3>1. after = [rhoY |-> g, rho |-> new, per |-> 2 * rho * rho, rhoU |-> 2 * rho * new * m,
                   rhoe |-> new * (2 * rho * e - m * m),
                   rhoE |-> new * (2 * rho * e - m * m) + new * (m * m)]
      BY <2>4, <2>5, <2>6 DEF clean_massfrac, denominator, rescaled
    <3>2. /\ g \in Densities /\ new >= rho
          /\ \A n \in Species : 0 <= g[n] /\ g[n] <= new
      BY <2>1, <2>2, <2>3, ClippedSum
    <3>3. new \in Int
      BY <3>2, SumOverType
    <3> HIDE DEF g, new
    <3>4. \A n \in Species : /\ 2 * g[n] >= -threshold * new
                             /\ 2 * g[n] <= (2 + threshold) * new
      <4> SUFFICES ASSUME NEW n \in Species
                   PROVE  2 * g[n] >= -threshold * new /\ 2 * g[n] <= (2 + threshold) * new
        OBVIOUS
      <4>1. g[n] \in Int /\ 0 <= g[n] /\ g[n] <= new
        BY <3>2 DEF Densities
      <4>2. threshold = 0 \/ threshold = 1
        BY <2>1
      <4> QED
        BY <3>3, <4>1, <4>2
    <3>5. /\ after.rhoU * rho = after.per * (m * new)
          /\ after.rhoE * rho = after.per * (e * new)
          /\ 2 * new * after.per * (after.rhoE - after.rhoe) = after.rhoU * after.rhoU
      BY <2>1, <2>3, <3>1, <3>3, CleanedFractions
    <3>6. before.rho = sumOver(before.rhoY) /\ after.rho = sumOver(after.rhoY)
      BY <2>3, <2>4, <3>1 DEF new
    <3> QED
      BY <2>4, <3>1, <3>2, <3>4, <3>5, <3>6 DEF Sound
  <2>7. ASSUME ~\E n \in Species : outside(f[n])
        PROVE  Sound(before, after, threshold)
    <3>1. after = before
      BY <2>4, <2>5, <2>7 DEF clean_massfrac
    <3>2. \A n \in Species : /\ 2 * f[n] >= -threshold * rho
                             /\ 2 * f[n] <= (2 + threshold) * rho
      <4> SUFFICES ASSUME NEW n \in Species
                   PROVE  2 * f[n] >= -threshold * rho /\ 2 * f[n] <= (2 + threshold) * rho
        OBVIOUS
      <4>1. f[n] \in Int /\ ~outside(f[n])
        BY <2>2, <2>7 DEF Densities
      <4>2. threshold = 0 \/ threshold = 1
        BY <2>1
      <4> QED
        BY <2>3, <4>1, <4>2
    <3>3. m * rho = 1 * (m * rho) /\ e * rho = 1 * (e * rho)
      BY <2>1, <2>3
    <3>4. before.rho = sumOver(before.rhoY) /\ rho >= rho
      BY <2>3, <2>4
    <3> QED
      BY <2>4, <3>1, <3>2, <3>3, <3>4 DEF Sound
  <2>8. Sound(before, after, threshold)
    BY <2>6, <2>7
  <2> QED
    BY <2>8 DEF CleanedStatesConsistent, Sound, U, div, threshold, before, after
<1> QED
  BY <1>1, GasInvariant, PTL

=============================================================================

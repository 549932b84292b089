------------------------------ MODULE Riemann ------------------------------
(* The flux between the two gases at a face: the approximate solver of         *)
(* Source/Riemann.H, used by both schemes, and the Lax-Friedrichs flux that    *)
(* the method of lines takes instead on request. A gas has partial densities,  *)
(* the velocity u across the face and v along it, a pressure, a speed of sound *)
(* and the square of the speed with which a turning frame moves there. Which   *)
(* state is at the face is decided in integers, its values are residues.       *)
EXTENDS Integers, Sequences

LOCAL INSTANCE Residues

CONSTANTS
  Gases,        \* records [Y, u, v, p, c, frame]
  StarSpeeds    \* speeds of sound of the gas between the waves

ASSUME RiemannAssumption ==
  /\ Gases \subseteq [Y : Nat \X Nat, u : Int, v : Int, p : Nat, c : Nat \ {0}, frame : Nat]
  /\ StarSpeeds \subseteq Nat \ {0}

VARIABLE faceStates   \* [l, r, cstar]: the gases at the face, and one speed

density(g) == g.Y[1] + g.Y[2]
Half == Over(1, 2)
Magnitude(x) == IF x < 0 THEN -x ELSE x

\* pele::physics::eos: the internal energy of a volume at the pressure p.
RYP2E(p) == Times(2, p)

-----------------------------------------------------------------------------
wl(f) == f.l.c * density(f.l)
wr(f) == f.r.c * density(f.r)

\* The velocity and the pressure between the waves, times wl + wr; the smallest
\* number of the machine is zero here.
ustar(f) == wl(f) * f.l.u + wr(f) * f.r.u + f.l.p - f.r.p
pstar(f) ==
    LET p == wr(f) * f.l.p + wl(f) * f.r.p + wl(f) * wr(f) * (f.l.u - f.r.u)
    IN  IF p > 0 THEN p ELSE 0

\* Both with their denominator, beside the gases.
between(f) == [l |-> f.l, r |-> f.r, cstar |-> f.cstar, w |-> wl(f) + wr(f),
               ustar |-> ustar(f), pstar |-> pstar(f)]

\* The gas the contact wave leaves at the face, twice, the average of both when
\* it rests there; its speed of sound may be that of either then.
original(b) ==
    LET twice(x, y) == CASE b.ustar > 0 -> 2 * x [] b.ustar < 0 -> 2 * y [] OTHER -> x + y
    IN  [Y |-> << twice(b.l.Y[1], b.r.Y[1]), twice(b.l.Y[2], b.r.Y[2]) >>,
         u |-> twice(b.l.u, b.r.u), v |-> twice(b.l.v, b.r.v), p |-> twice(b.l.p, b.r.p),
         c |-> IF b.ustar > 0 \/ (b.ustar = 0 /\ b.l.c > b.r.c) THEN b.l.c ELSE b.r.c,
         frame |-> IF b.ustar > 0 THEN b.l.frame ELSE b.r.frame]

\* pstar - po, times 2 (wl + wr).
jump(b, o) == 2 * b.pstar - o.p * b.w

\* The density between the waves is to the original one as expanded is to rest.
rest(b, o) == density(o) * b.w * o.c * o.c
expanded(b, o) == rest(b, o) + jump(b, o)

\* Mutant of sgnm: the wave is always taken to go to the right.
sgnmRight(b) == 1
sgnm(b) == IF b.ustar < 0 THEN -1 ELSE 1

\* The speeds of the wave's two ends, times 4 (wl + wr): of a rarefaction's head
\* and tail, or both that of the shock.
ends(b, o) ==
    LET spout == b.w * (2 * o.c - sgnm(b) * o.u)
        spin == 2 * (b.w * b.cstar - sgnm(b) * b.ustar)
    IN  IF jump(b, o) < 0 THEN [out |-> 2 * spout, in |-> 2 * spin]
        ELSE [out |-> spin + spout, in |-> spin + spout]

\* How much of the gas at the face is the one between the waves.
frac(e) ==
    CASE e.in >= 0 -> 1
      [] e.in < 0 /\ e.out < 0 -> 0
      [] OTHER -> Over(e.out, e.out - e.in)

\* That share of the gas between the waves, and the rest of the original one.
blended(b, o, share) ==
    LET blend(inside, outside) == (Times(share, inside) + Times(1 - share, outside)) % Prime
        partial(n) == Times(Times(o.Y[n], Half), blend(Over(expanded(b, o), rest(b, o)), 1))
    IN  [Y |-> << partial(1), partial(2) >>, u |-> blend(Over(b.ustar, b.w), Times(o.u, Half)),
         v |-> Times(o.v, Half), p |-> blend(Over(b.pstar, b.w), Times(o.p, Half)),
         frame |-> o.frame]

gasAtFace(b, o) == blended(b, o, frac(ends(b, o)))
solution(b) == gasAtFace(b, original(b))

\* The flux of a gas through the face with the velocity u across it.
fluxWith(g, u, rho) ==
    LET kinetic == Times(Times(rho, Times(u, u) + Times(g.v, g.v) - g.frame), Half)
    IN  [Y |-> << Times(g.Y[1], u), Times(g.Y[2], u) >>, rho |-> Times(rho, u),
         u |-> (Times(Times(rho, u), u) + g.p) % Prime, v |-> Times(Times(rho, u), g.v),
         eden |-> Times(u, RYP2E(g.p) + kinetic + g.p), eint |-> Times(u, RYP2E(g.p))]

\* All callers leave the velocity through the face as it is.
bc_test_val == 1

fluxOf(g) == fluxWith(g, Times(bc_test_val, g.u), density(g))

riemann(f) == fluxOf(solution(between(f)))

-----------------------------------------------------------------------------
\* A gas' own flux, and what a volume of it holds.
ownFlux(g) == fluxOf(g)
contents(g) ==
    [Y |-> g.Y, rho |-> density(g), u |-> density(g) * g.u, v |-> density(g) * g.v,
     eden |-> (RYP2E(g.p) + Times(density(g) * (g.u * g.u + g.v * g.v - g.frame), Half)) % Prime,
     eint |-> RYP2E(g.p)]

upwinded(fl, fr, ul, ur, speed) == Times(Half, fl + fr - Times(speed, ur - ul))

upwindedFlux(fl, fr, ul, ur, speed) ==
    LET of(k) == upwinded(fl[k], fr[k], ul[k], ur[k], speed)
        Y == [n \in 1..2 |-> upwinded(fl.Y[n], fr.Y[n], ul.Y[n], ur.Y[n], speed)]
    IN  [Y |-> << Y[1], Y[2] >>, rho |-> (Y[1] + Y[2]) % Prime, u |-> of("u"), v |-> of("v"),
         eden |-> of("eden"), eint |-> of("eint")]

\* With the largest wave speed, which is not larger than every wave's.
max_wavespd(b) == Over(Magnitude(b.ustar), b.w) + Times(b.l.c + b.r.c, Half)

laxfriedrich_flux(f) ==
    upwindedFlux(ownFlux(f.l), ownFlux(f.r), contents(f.l), contents(f.r), max_wavespd(between(f)))

-----------------------------------------------------------------------------
NoFace == [l |-> 0]

RiemannInit == faceStates = NoFace

noVacuum(b) == expanded(b, original(b)) > 0

\* Gases between which there is no vacuum.
RiemannNext ==
    /\ faceStates = NoFace
    /\ faceStates' \in {f \in [l : Gases, r : Gases, cstar : StarSpeeds] : noVacuum(between(f))}

mirrored(f) == [l |-> [f.r EXCEPT !.u = -@], r |-> [f.l EXCEPT !.u = -@], cstar |-> f.cstar]

\* The same flux seen from the other side.
reversed(x) ==
    [Y |-> << (-x.Y[1]) % Prime, (-x.Y[2]) % Prime >>, rho |-> (-x.rho) % Prime, u |-> x.u,
     v |-> (-x.v) % Prime, eden |-> (-x.eden) % Prime, eint |-> (-x.eint) % Prime]

\* The state that pc_cmpflx puts behind a wall.
behindWall(g) == [g EXCEPT !.u = -@]

TakesTheRightGas(f, x, y, origin) ==
    /\ f.l = f.r => x = ownFlux(f.l) /\ y = ownFlux(f.l)
    /\ ustar(f) # 0 /\ f.l.frame = f.r.frame => riemann(mirrored(f)) = reversed(x)
    /\ laxfriedrich_flux(mirrored(f)) = reversed(y)
    /\ Same(Times(x.Y[1], origin.Y[2]), Times(x.Y[2], origin.Y[1]))
    /\ f.l.u = f.r.u /\ f.l.p = f.r.p /\ f.l.u # 0 =>
         x = ownFlux(IF f.l.u > 0 THEN f.l ELSE f.r)
    /\ f.r = behindWall(f.l) =>
         \A flux \in {x, y} : {flux.Y[1], flux.Y[2], flux.v, flux.eden, flux.eint} = {0}

(* Both fluxes are those of the gas when both sides are the same one, and they *)
(* do not depend on which side is called the left one: that of riemann unless  *)
(* the contact rests at the face, or the two sides turn with different frames, *)
(* of which it takes one. Through a face goes gas of the side it comes from:   *)
(* what riemann takes keeps that side's composition, also in the fan of a      *)
(* rarefaction, and a contact between gases at one velocity and pressure goes  *)
(* through exactly. Nothing but a pressure goes through a wall, however fast   *)
(* the gas meets it or leaves it.                                              *)
RiemannUpwinds ==
    faceStates # NoFace =>
      TakesTheRightGas(faceStates, riemann(faceStates), laxfriedrich_flux(faceStates),
                       original(between(faceStates)))
=============================================================================

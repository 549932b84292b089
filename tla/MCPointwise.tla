---------------------------- MODULE MCPointwise ----------------------------
(* One run for the five modules about what is computed at single cells and     *)
(* faces. They share no state: either the stencil moves or the velocity        *)
(* gradient changes or the cell is updated, or a cell that a body cuts or a    *)
(* face between two gases is looked at, and the others stay as at first.       *)
EXTENDS Stencils, Stress, CellEnergy, CutCells, Riemann

SmallPolynomials == [1..7 -> {-1, 0, 1}]

SmallSlopes == {-1, 0, 1}

SmallVelocities == {<<0, 0, 0>>, <<0, 2, 0>>, <<1, 0, 1>>}
OnAndOffAxis == {<<0, 0, 0>>, <<1, 0, 1>>}
StillOrTurning == {<<0, 0, 0>>, <<0, 0, 2>>}
SmallInternals == -3..4
SmallTotals == -2..9
SmallFormations == {-2, 0}
AllLimits == [allowed : {"any", "nonnegative", "positive"}, update_E : BOOLEAN]

\* Normals with equal, different, and vanishing components of either sign.
SmallNormals == {-2, 0, 1}
AllHalves == {-1, 0, 1}
NoneOrSome == {{}, {<<0, 0, -1>>, <<1, 0, 0>>}}
SmallPartials == {-2, 0, 1, 3}

\* Two species and their mixture, subsonic and supersonic in either direction.
SomeGases ==
    LET Of(Y, v, us, cs, frame) ==
          [Y : {Y}, u : us, v : {v}, p : {1, 3}, c : cs, frame : {frame}]
    IN  Of(<<1, 0>>, 0, {-3, 0, 1}, {1, 2}, 0) \union Of(<<1, 1>>, 1, {-1, 0, 1}, {1, 2}, 0)
          \union Of(<<0, 3>>, 0, {-3, 0, 1}, {1, 2}, 0) \union Of(<<1, 0>>, 1, {-3, 3}, {1}, 2)

NoStencil == averages = NoData /\ fitted = NoPolynomial
Uniform == gradient = [c \in Axes |-> [t \in Axes |-> 0]]
Untouched == stage = "none"

AllAtRest == NoStencil /\ Uniform /\ Untouched /\ cut = Uncut /\ faceStates = NoFace

PointwiseInit == StencilInit /\ StressInit /\ EnergyInit /\ CutInit /\ RiemannInit

Reconstruct ==
    /\ Uniform /\ Untouched /\ cut = Uncut /\ faceStates = NoFace
    /\ StencilNext
    /\ UNCHANGED <<gradient, energyVars, cut, faceStates>>

Shear ==
    /\ NoStencil /\ Untouched /\ cut = Uncut /\ faceStates = NoFace
    /\ StressNext
    /\ UNCHANGED <<stencilVars, energyVars, cut, faceStates>>

Energies ==
    /\ NoStencil /\ Uniform /\ cut = Uncut /\ faceStates = NoFace
    /\ EnergyNext
    /\ UNCHANGED <<stencilVars, gradient, cut, faceStates>>

Cut == AllAtRest /\ CutNext /\ UNCHANGED <<stencilVars, gradient, energyVars, faceStates>>

Face == AllAtRest /\ RiemannNext /\ UNCHANGED <<stencilVars, gradient, energyVars, cut>>

PointwiseNext == Reconstruct \/ Shear \/ Energies \/ Cut \/ Face

PointwiseSpec ==
    PointwiseInit /\ [][PointwiseNext]_<<stencilVars, gradient, energyVars, cut, faceStates>>
=============================================================================

----------------------------- MODULE CellEnergy -----------------------------
(* The energies of one cell. The state carries the internal energy beside the  *)
(* total one, and several places of the code convert between them: the initial *)
(* data, the primitive variables, the reactions, the reset that limits what    *)
(* the updates did to them, derived fields. In a frame that turns, the total   *)
(* energy also has the potential of the centrifugal force. The density is 1,   *)
(* and energies are counted in halves.                                         *)
EXTENDS Integers

CONSTANTS
  Velocities,     \* vectors of three components
  Places,         \* of a cell, from a point on the axis of the frame
  Spins,          \* vectors along one direction; the zero vector is no rotation
  Internals,      \* what an update may leave as internal and as total energy
  Totals,
  Formations,     \* internal energy of a composition at temperature zero
  Limits          \* records [allowed, update_E]: the options of pc_rst_int_e

Three == 1..3
Vectors3 == [Three -> Int]

ASSUME EnergyAssumption ==
  /\ Velocities \subseteq Vectors3 /\ Places \subseteq Vectors3
  /\ Spins \subseteq Vectors3
  /\ \A w \in Spins : \E a \in Three : \A t \in Three \ {a} : w[t] = 0
  /\ Internals \subseteq Int /\ Totals \subseteq Int /\ Formations \subseteq Int
  /\ Limits \subseteq [allowed : {"any", "nonnegative", "positive"}, update_E : BOOLEAN]

VARIABLES
  cell,       \* [v, eint, eden, T, form], of UMX.., UEINT, UEDEN, UTEMP, UFS
  stage,      \* what was done to the cell last
  setting     \* [place, spin, limits]: where the cell is, its frame, the options

energyVars == <<cell, stage, setting>>

-----------------------------------------------------------------------------
Dot(a, b) == a[1] * b[1] + a[2] * b[2] + a[3] * b[3]
Cross(a, b) == << a[2] * b[3] - a[3] * b[2], a[3] * b[1] - a[1] * b[3], a[1] * b[2] - a[2] * b[1] >>
Add(a, b) == << a[1] + b[1], a[2] + b[2], a[3] + b[3] >>
Times(k, a) == << k * a[1], k * a[2], k * a[3] >>

\* Mutant of get_rot_energy: the distance is the one from the point on the axis.
WholeDistance == Dot(setting.spin, setting.spin) * Dot(setting.place, setting.place)

\* omega^2 rad^2, with the distance from the axis.
rotEnergyIn(frame) ==
    LET w == frame.spin
        inPlane == [t \in Three |-> IF w[t] # 0 THEN 0 ELSE frame.place[t]]
    IN  Dot(w, w) * Dot(inPlane, inPlane)

get_rot_energy == rotEnergyIn(setting)

\* What pc_ctoprim, react_state and pc_rst_int_e subtract from the total energy.
ke(c) == Dot(c.v, c.v) - get_rot_energy

\* Mutant of QREINT: the primitive variables forget the potential.
OnlyKinetic(c) == c.eden - Dot(c.v, c.v)

\* The internal energy that the hydrodynamics works with.
QREINT(c) == c.eden - ke(c)

\* The external equation of state, with a heat capacity of one half.
e_of(T, form) == T + form
T_of(e, form) == e - form

small_e(c) == e_of(0, c.form)
floored(c) == e_of(IF c.T > 0 THEN c.T ELSE 0, c.form)

-----------------------------------------------------------------------------
\* enforce_consistent_e, after initial data: the second loop sets the total
\* energy again in a frame that turns.
enforce_consistent_e(c) ==
    [c EXCEPT !.eden = IF Dot(setting.spin, setting.spin) > 0 THEN c.eint - get_rot_energy
                       ELSE c.eint + Dot(c.v, c.v)]

\* The threshold of the dual energy method: the internal share of the total
\* energy is more than a quarter (dual_energy_eta2). Machine precision is 0.
aboveEta2(c) == LET rho_eint == QREINT(c) IN c.eden > 0 /\ rho_eint > 0 /\ 4 * rho_eint > c.eden

withInternal(c, e) == [c EXCEPT !.eint = e]
withTotalFrom(c) == [c EXCEPT !.eden = c.eint + ke(c)]

\* The internal energy is raised to e, and the total one by the same if it may be.
Raised(c, e) ==
    [c EXCEPT !.eint = e,
              !.eden = IF setting.limits.update_E THEN @ + e - c.eint ELSE @]

\* With allow_small_energy off.
limitSmall(c) ==
    LET synced == IF aboveEta2(c) THEN withInternal(c, QREINT(c)) ELSE c
    IN  IF c.eden < small_e(c)
        THEN withTotalFrom(IF c.eint < small_e(c) THEN withInternal(c, floored(c)) ELSE c)
        ELSE IF synced.eint < small_e(c) THEN Raised(synced, floored(c)) ELSE synced

\* With it on and allow_negative_energy off.
limitNegative(c) ==
    IF c.eden <= 0
    THEN withTotalFrom(IF c.eint <= 0 THEN withInternal(c, small_e(c)) ELSE c)
    ELSE IF aboveEta2(c) THEN withInternal(c, QREINT(c))
    ELSE IF c.eint > 0 /\ setting.limits.update_E THEN withTotalFrom(c)
    ELSE IF c.eint <= 0 THEN Raised(c, small_e(c))
    ELSE c

\* Mutant of pc_rst_int_e: the internal energy is never taken from the total.
KeepInternal(c) ==
    CASE setting.limits.allowed = "positive" -> limitSmall(c)
      [] setting.limits.allowed = "nonnegative" -> limitNegative(c)
      [] setting.limits.allowed = "any" -> c

pc_rst_int_e(c) ==
    CASE setting.limits.allowed = "positive" -> limitSmall(c)
      [] setting.limits.allowed = "nonnegative" -> limitNegative(c)
      [] setting.limits.allowed = "any" -> withInternal(c, QREINT(c))

computeTemp(c) ==
    LET reset == pc_rst_int_e(c)
    IN  [reset EXCEPT !.T = T_of(reset.eint, reset.form)]

\* react_state after the update without reactions: the composition and the
\* temperature are the reactor's, the energies are put together again.
react_state(c, form) ==
    LET internal == QREINT(c)
    IN  [c EXCEPT !.form = form, !.T = T_of(internal, form), !.eint = internal,
                  !.eden = internal + ke(c)]

\* The sources of the frame: Coriolis' and the centrifugal force.
fill_rot_source(v) ==
    LET w == setting.spin
    IN  Times(-1, Add(Times(2, Cross(w, v)), Cross(w, Cross(w, setting.place))))

\* The velocity of a body's wall in a turning frame (initialize_eb2_structs): at
\* rest beyond the distance rf_rad from the axis, turning with the frame within.
wallVelocity(rf_rad) ==
    IF get_rot_energy > Dot(setting.spin, setting.spin) * rf_rad * rf_rad
    THEN Times(-1, Cross(setting.spin, setting.place)) ELSE <<0, 0, 0>>

\* Derived fields: the velocity seen at rest, the internal energy from the total.
vel_if(v) == Add(v, Cross(setting.spin, setting.place))
pc_dereint1(c) == c.eden - Dot(c.v, c.v) - get_rot_energy

-----------------------------------------------------------------------------
Rest == <<0, 0, 0>>

EnergyInit ==
    /\ cell = [v |-> Rest, eint |-> 0, eden |-> 0, T |-> 0, form |-> 0]
    /\ setting = [place |-> Rest, spin |-> Rest, limits |-> [allowed |-> "any", update_E |-> TRUE]]
    /\ stage = "none"

\* Initial data of a case that turns (EB-Rotor4Blade) and of one that does not.
pc_initdata ==
    /\ stage = "none"
    /\ setting' \in [place : Places, spin : Spins, limits : Limits]
    /\ \E v \in Velocities, e \in Internals, form \in Formations :
         /\ e > form
         /\ cell' = [v |-> v, eint |-> e, eden |-> e + Dot(v, v) - rotEnergyIn(setting'),
                     T |-> T_of(e, form), form |-> form]
    /\ stage' = "data"

initData ==
    /\ stage = "data"
    /\ cell' = enforce_consistent_e(cell)
    /\ stage' = "initialised"
    /\ UNCHANGED setting

\* Fluxes, sources, averages of finer cells: anything, but for the temperature.
Update ==
    /\ stage \in {"initialised", "reset"}
    /\ \E v \in Velocities, e \in Internals, total \in Totals, form \in Formations :
         cell' = [cell EXCEPT !.v = v, !.eint = e, !.eden = total, !.form = form]
    /\ stage' = "updated"
    /\ UNCHANGED setting

React ==
    /\ stage = "updated"
    /\ \E form \in Formations : cell' = react_state(cell, form)
    /\ stage' = "reacted"
    /\ UNCHANGED setting

Reset ==
    /\ stage \in {"updated", "reacted"}
    /\ cell' = computeTemp(cell)
    /\ stage' = "reset"
    /\ UNCHANGED setting

EnergyNext == pc_initdata \/ initData \/ Update \/ React \/ Reset

EnergySpec == EnergyInit /\ [][EnergyNext]_energyVars

-----------------------------------------------------------------------------
Reactable == stage \in {"reset", "reacted"}

Floor(c) ==
    /\ setting.limits.allowed = "nonnegative" => c.eint > 0 \/ c.eint = small_e(c)
    /\ setting.limits.allowed = "positive" => c.eint >= small_e(c)

(* After a reset or a reaction the two energies of a cell are the same gas: by *)
(* default, and always after a reaction, the internal energy is what the       *)
(* hydrodynamics takes from the total one, whatever the updates did to both;   *)
(* with limits on it, unless the internal share is below the threshold or the  *)
(* limit applies. It is never left below its limit, and the temperature is its *)
(* own.                                                                        *)
EnergiesAgree ==
    Reactable =>
      /\ stage = "reacted" \/ setting.limits.allowed = "any" => cell.eint = QREINT(cell)
      /\ stage = "reset" => Floor(cell)
      /\ cell.T = T_of(cell.eint, cell.form)

BelowLimit(c) ==
    \/ /\ setting.limits.allowed = "nonnegative"
       /\ c.eden <= 0 \/ c.eint <= 0 \/ ~aboveEta2(c)
    \/ /\ setting.limits.allowed = "positive"
       /\ c.eden < small_e(c) \/ c.eint < small_e(c) \/ QREINT(c) < small_e(c)

(* Reactions keep the total energy of a cell, in a turning frame too; a reset  *)
(* changes it only in a cell where a limit is crossed.                         *)
TotalEnergyKept ==
    [][/\ stage' = "reacted" => cell'.eden = cell.eden
       /\ stage' = "reset" /\ cell'.eden # cell.eden => BelowLimit(cell)]_energyVars

(* An observer at rest finds what one in the turning frame finds: fluid that   *)
(* sticks to a wall at rest has no kinetic energy left in the frame, where all *)
(* of its total energy is internal, and stays at rest, since the frame's       *)
(* sources are what turns its velocity; a wall within rf_rad turns instead.    *)
(* The sources do work only against the potential.                             *)
FrameIndependent ==
    LET w == setting.spin
        resting == wallVelocity(0)
        outward == [t \in Three |-> IF w[t] # 0 THEN 0 ELSE setting.place[t]]
    IN  stage # "none" =>
        /\ vel_if(resting) = Rest
        /\ ke([cell EXCEPT !.v = resting]) = 0
        /\ \A rf_rad \in 1..2 : Dot(outward, outward) <= rf_rad * rf_rad => wallVelocity(rf_rad) = Rest
        /\ fill_rot_source(resting) = Times(-1, Cross(w, resting))
        /\ Dot(cell.v, fill_rot_source(cell.v)) = Dot(w, w) * Dot(cell.v, outward)

(* "e_den =e_int + 0.5*(u^2+v^2+w^2)-0.5*omega^2*rad^2" (React.cpp): also of   *)
(* the initial data, whose internal energy the first update starts from.       *)
InitialEnergyKept == stage = "initialised" => QREINT(cell) = cell.eint
=============================================================================

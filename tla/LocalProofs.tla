----------------------------- MODULE LocalProofs -----------------------------
(***************************************************************************)
(* Theorems about what is computed in one cell, at one face or along one   *)
(* line: the energies of a cell, the reconciliation and the transport of a *)
(* line, the stresses at a face.                                           *)
(***************************************************************************)
EXTENDS CellEnergy, Stress, OdtLine, LineTransport, TLAPS, WellFoundedInduction, FiniteSetTheorems

-----------------------------------------------------------------------------
(* The energies of a cell.  The invariant is the one on types: every step  *)
(* that is followed by a promise builds the cell's energies anew.          *)

Cells == [v : Vectors3, eint : Int, eden : Int, T : Int, form : Int]

Settings ==
  [place : Vectors3, spin : Vectors3,
   limits : [allowed : {"any", "nonnegative", "positive"}, update_E : BOOLEAN]]

EnergyTypeInv ==
  /\ cell \in Cells
  /\ setting \in Settings
  /\ \E a \in Three : \A t \in Three \ {a} : setting.spin[t] = 0
  /\ stage \in {"none", "data", "initialised", "updated", "reacted", "reset"}

EnergyIInv == EnergyTypeInv /\ EnergiesAgree

LEMMA DotType ==
  ASSUME NEW a \in Vectors3, NEW b \in Vectors3 PROVE Dot(a, b) \in Int
BY DEF Dot, Vectors3, Three

LEMMA RotEnergyInType ==
  ASSUME NEW frame \in Settings PROVE rotEnergyIn(frame) \in Int
<1> DEFINE w == frame.spin
           inPlane == [t \in Three |-> IF w[t] # 0 THEN 0 ELSE frame.place[t]]
<1>1. w \in Vectors3 /\ inPlane \in Vectors3
  BY DEF Settings, Vectors3
<1>2. rotEnergyIn(frame) = Dot(w, w) * Dot(inPlane, inPlane)
  BY DEF rotEnergyIn
<1> HIDE DEF w, inPlane
<1> QED
  BY <1>1, <1>2, DotType

LEMMA RotEnergyType ==
  ASSUME setting \in Settings PROVE get_rot_energy \in Int
BY RotEnergyInType DEF get_rot_energy

LEMMA KeType ==
  ASSUME setting \in Settings, NEW c \in Cells
  PROVE  ke(c) \in Int /\ QREINT(c) \in Int
<1>1. c.v \in Vectors3 /\ c.eden \in Int
  BY DEF Cells
<1>2. Dot(c.v, c.v) \in Int /\ get_rot_energy \in Int
  BY <1>1, DotType, RotEnergyType
<1>3. ke(c) \in Int
  BY <1>2 DEF ke
<1> QED
  BY <1>1, <1>3 DEF QREINT

\* What a routine that changes energies makes of a cell.
LEMMA EnergiesChanged ==
  ASSUME setting \in Settings, NEW c \in Cells, NEW e \in Int
  PROVE  /\ withInternal(c, e) = [c EXCEPT !.eint = e]
         /\ withInternal(c, e) \in Cells
         /\ Raised(c, e) \in Cells
         /\ Raised(c, e).eint = e /\ Raised(c, e).form = c.form
         /\ Raised(c, e).v = c.v /\ Raised(c, e).T = c.T
<1>1. ke(c) \in Int /\ c.eint \in Int /\ c.eden \in Int
  BY KeType DEF Cells
<1>2. withInternal(c, e) = [c EXCEPT !.eint = e] /\ withInternal(c, e) \in Cells
  BY DEF withInternal, Cells
<1> DEFINE total == IF setting.limits.update_E THEN c.eden + e - c.eint ELSE c.eden
<1>4. Raised(c, e) = [c EXCEPT !.eint = e, !.eden = total] /\ total \in Int
  BY <1>1 DEF Raised, Cells
<1> HIDE DEF total
<1>5. /\ Raised(c, e) \in Cells
      /\ Raised(c, e).eint = e /\ Raised(c, e).form = c.form
      /\ Raised(c, e).v = c.v /\ Raised(c, e).T = c.T
  BY <1>4 DEF Cells
<1> QED
  BY <1>2, <1>5

LEMMA TotalTaken ==
  ASSUME setting \in Settings, NEW c \in Cells
  PROVE  /\ withTotalFrom(c) \in Cells /\ withTotalFrom(c).v = c.v
         /\ withTotalFrom(c).form = c.form /\ withTotalFrom(c).eint = c.eint
         /\ withTotalFrom(c).eden = c.eint + ke(c)
<1>1. c.eint + ke(c) \in Int
  BY KeType DEF Cells
<1> QED
  BY <1>1 DEF withTotalFrom, Cells

\* What the limits on the internal energy are made of.
LEMMA SmallEnergies ==
  ASSUME NEW c \in Cells
  PROVE  /\ small_e(c) = c.form /\ c.form \in Int
         /\ floored(c) \in Int /\ floored(c) >= c.form
BY DEF Cells, small_e, floored, e_of

\* The reset keeps the flow and the composition, leaves the internal energy at
\* its limit or above, and touches the total energy below a limit only.
ResetTo(c, r) ==
  /\ r \in Cells
  /\ r.v = c.v /\ r.form = c.form
  /\ Floor(r)
  /\ setting.limits.allowed = "any" => r.eint = QREINT(r)
  /\ r.eden # c.eden => BelowLimit(c)

LEMMA LimitSmall ==
  ASSUME setting \in Settings, setting.limits.allowed = "positive", NEW c \in Cells
  PROVE  ResetTo(c, limitSmall(c))
<1> DEFINE synced == IF aboveEta2(c) THEN withInternal(c, QREINT(c)) ELSE c
<1>1. QREINT(c) \in Int /\ c.eint \in Int /\ c.eden \in Int
  BY KeType DEF Cells
<1>2. /\ synced \in Cells /\ synced.form = c.form /\ synced.v = c.v
      /\ synced.eden = c.eden
      /\ synced.eint \in {c.eint, QREINT(c)}
  BY <1>1, EnergiesChanged DEF Cells
<1>3. CASE c.eden < small_e(c)
  <2> DEFINE b == IF c.eint < small_e(c) THEN withInternal(c, floored(c)) ELSE c
  <2>1. /\ b \in Cells /\ b.form = c.form /\ b.v = c.v /\ b.eint >= c.form
    BY <1>1, SmallEnergies, EnergiesChanged DEF Cells
  <2>2. limitSmall(c) = withTotalFrom(b)
    BY <1>3 DEF limitSmall
  <2> HIDE DEF b
  <2>3. /\ withTotalFrom(b) \in Cells /\ withTotalFrom(b).v = b.v
        /\ withTotalFrom(b).form = b.form /\ withTotalFrom(b).eint = b.eint
    BY <2>1, TotalTaken
  <2>4. Floor(withTotalFrom(b))
    BY <2>1, <2>3, SmallEnergies DEF Floor
  <2>5. BelowLimit(c)
    BY <1>3 DEF BelowLimit
  <2> QED
    BY <2>1, <2>2, <2>3, <2>4, <2>5 DEF ResetTo
<1>4. CASE c.eden >= small_e(c)
  <2>1. limitSmall(c) = IF synced.eint < small_e(c) THEN Raised(synced, floored(c))
                        ELSE synced
    BY <1>1, <1>4, SmallEnergies DEF limitSmall
  <2> HIDE DEF synced
  <2>2. CASE synced.eint < small_e(c)
    <3>1. limitSmall(c) = Raised(synced, floored(c))
      BY <2>1, <2>2
    <3>2. floored(c) \in Int /\ floored(c) >= c.form /\ small_e(c) = c.form
      BY SmallEnergies
    <3>3. /\ Raised(synced, floored(c)) \in Cells
          /\ Raised(synced, floored(c)).eint = floored(c)
          /\ Raised(synced, floored(c)).form = c.form
          /\ Raised(synced, floored(c)).v = c.v
      BY <1>2, <3>2, EnergiesChanged
    <3>4. Floor(Raised(synced, floored(c)))
      BY <3>2, <3>3, SmallEnergies DEF Floor
    <3>5. BelowLimit(c)
      BY <1>2, <2>2 DEF BelowLimit
    <3> QED
      BY <3>1, <3>3, <3>4, <3>5 DEF ResetTo
  <2>3. CASE ~(synced.eint < small_e(c))
    <3>1. limitSmall(c) = synced
      BY <2>1, <2>3
    <3>2. Floor(synced)
      BY <1>1, <1>2, <2>3, SmallEnergies DEF Floor, Cells
    <3> QED
      BY <1>2, <3>1, <3>2 DEF ResetTo
  <2> QED
    BY <2>2, <2>3
<1> QED
  BY <1>1, <1>3, <1>4, SmallEnergies

LEMMA LimitNegative ==
  ASSUME setting \in Settings, setting.limits.allowed = "nonnegative", NEW c \in Cells
  PROVE  ResetTo(c, limitNegative(c))
<1>1. QREINT(c) \in Int /\ c.eint \in Int /\ c.eden \in Int /\ small_e(c) \in Int
  BY KeType, SmallEnergies DEF Cells
<1>2. CASE c.eden <= 0
  <2> DEFINE b == IF c.eint <= 0 THEN withInternal(c, small_e(c)) ELSE c
  <2>1. /\ b \in Cells /\ b.form = c.form /\ b.v = c.v
        /\ b.eint > 0 \/ b.eint = small_e(c)
    BY <1>1, EnergiesChanged DEF Cells
  <2>2. limitNegative(c) = withTotalFrom(b)
    BY <1>2 DEF limitNegative
  <2> HIDE DEF b
  <2>3. /\ withTotalFrom(b) \in Cells /\ withTotalFrom(b).v = b.v
        /\ withTotalFrom(b).form = b.form /\ withTotalFrom(b).eint = b.eint
    BY <2>1, TotalTaken
  <2>4. Floor(withTotalFrom(b))
    BY <2>1, <2>3, SmallEnergies DEF Floor
  <2>5. BelowLimit(c)
    BY <1>2 DEF BelowLimit
  <2> QED
    BY <2>1, <2>2, <2>3, <2>4, <2>5 DEF ResetTo
<1>3. CASE c.eden > 0 /\ aboveEta2(c)
  <2>1. limitNegative(c) = withInternal(c, QREINT(c))
    BY <1>1, <1>3 DEF limitNegative
  <2>2. withInternal(c, QREINT(c)) = [c EXCEPT !.eint = QREINT(c)]
        /\ withInternal(c, QREINT(c)) \in Cells
    BY <1>1, EnergiesChanged
  <2>3. QREINT(c) > 0
    BY <1>3 DEF aboveEta2
  <2>4. Floor(withInternal(c, QREINT(c)))
    BY <2>2, <2>3 DEF Floor, Cells
  <2> QED
    BY <2>1, <2>2, <2>4 DEF ResetTo, Cells
<1>4. CASE c.eden > 0 /\ ~aboveEta2(c)
  <2>1. BelowLimit(c)
    BY <1>4 DEF BelowLimit
  <2>2. CASE c.eint > 0 /\ setting.limits.update_E
    <3>1. limitNegative(c) = withTotalFrom(c)
      BY <1>1, <1>4, <2>2 DEF limitNegative
    <3>2. /\ withTotalFrom(c) \in Cells /\ withTotalFrom(c).v = c.v
          /\ withTotalFrom(c).form = c.form /\ withTotalFrom(c).eint = c.eint
      BY TotalTaken
    <3>3. Floor(withTotalFrom(c))
      BY <2>2, <3>2 DEF Floor
    <3> QED
      BY <2>1, <3>1, <3>2, <3>3 DEF ResetTo
  <2>3. CASE c.eint <= 0
    <3>1. limitNegative(c) = Raised(c, small_e(c))
      BY <1>1, <1>4, <2>3 DEF limitNegative
    <3>2. /\ Raised(c, small_e(c)) \in Cells
          /\ Raised(c, small_e(c)).eint = small_e(c)
          /\ Raised(c, small_e(c)).form = c.form
          /\ Raised(c, small_e(c)).v = c.v
      <4> DEFINE e == small_e(c)
      <4>1. e \in Int
        BY <1>1
      <4> HIDE DEF e
      <4>2. Raised(c, e) \in Cells /\ Raised(c, e).eint = e
            /\ Raised(c, e).form = c.form /\ Raised(c, e).v = c.v
        BY <4>1, EnergiesChanged
      <4> QED
        BY <4>2 DEF e
    <3>3. Floor(Raised(c, small_e(c)))
      BY <3>2, SmallEnergies DEF Floor
    <3> QED
      BY <2>1, <3>1, <3>2, <3>3 DEF ResetTo
  <2>4. CASE c.eint > 0 /\ ~setting.limits.update_E
    <3>1. limitNegative(c) = c
      BY <1>1, <1>4, <2>4 DEF limitNegative
    <3>2. Floor(c)
      BY <2>4 DEF Floor
    <3> QED
      BY <3>1, <3>2 DEF ResetTo
  <2> QED
    BY <1>1, <2>2, <2>3, <2>4
<1> QED
  BY <1>1, <1>2, <1>3, <1>4

LEMMA ResetLimits ==
  ASSUME setting \in Settings, NEW c \in Cells
  PROVE  ResetTo(c, pc_rst_int_e(c))
<1>1. CASE setting.limits.allowed = "positive"
  <2>1. pc_rst_int_e(c) = limitSmall(c)
    BY <1>1 DEF pc_rst_int_e
  <2> QED
    BY <1>1, <2>1, LimitSmall
<1>2. CASE setting.limits.allowed = "nonnegative"
  <2>1. pc_rst_int_e(c) = limitNegative(c)
    BY <1>2 DEF pc_rst_int_e
  <2> QED
    BY <1>2, <2>1, LimitNegative
<1>3. CASE setting.limits.allowed = "any"
  <2>1. pc_rst_int_e(c) = [c EXCEPT !.eint = QREINT(c)]
    BY <1>3 DEF pc_rst_int_e, withInternal
  <2>2. QREINT(c) \in Int
    BY KeType
  <2>3. pc_rst_int_e(c) \in Cells
    BY <2>1, <2>2 DEF Cells
  <2>4. QREINT(pc_rst_int_e(c)) = QREINT(c)
    BY <2>1 DEF QREINT, ke, Cells
  <2> QED
    BY <1>3, <2>1, <2>2, <2>3, <2>4 DEF ResetTo, Floor, Cells
<1> QED
  BY <1>1, <1>2, <1>3 DEF Settings

\* After a reset the temperature is the one of the internal energy.
LEMMA TempComputed ==
  ASSUME setting \in Settings, NEW c \in Cells
  PROVE  /\ ResetTo(c, computeTemp(c))
         /\ computeTemp(c).T = T_of(computeTemp(c).eint, computeTemp(c).form)
<1> DEFINE r == pc_rst_int_e(c)
<1>1. ResetTo(c, r)
  BY ResetLimits
<1> HIDE DEF r
<1>2. r \in Cells /\ T_of(r.eint, r.form) \in Int
  BY <1>1 DEF ResetTo, Cells, T_of
<1>3. computeTemp(c) = [r EXCEPT !.T = T_of(r.eint, r.form)]
  BY DEF computeTemp, r
<1>4. /\ computeTemp(c) \in Cells
      /\ computeTemp(c).v = r.v /\ computeTemp(c).eint = r.eint
      /\ computeTemp(c).eden = r.eden /\ computeTemp(c).form = r.form
      /\ computeTemp(c).T = T_of(r.eint, r.form)
  BY <1>2, <1>3 DEF Cells
<1>5. Floor(computeTemp(c)) /\ QREINT(computeTemp(c)) = QREINT(r)
  BY <1>1, <1>4 DEF ResetTo, Floor, small_e, e_of, QREINT, ke
<1> QED
  BY <1>1, <1>4, <1>5 DEF ResetTo

\* A reaction puts the total energy together again as it was.
LEMMA Reacted ==
  ASSUME setting \in Settings, NEW c \in Cells, NEW form \in Int
  PROVE  LET r == react_state(c, form)
         IN  /\ r \in Cells
             /\ r.eden = c.eden /\ r.eint = QREINT(r)
             /\ r.T = T_of(r.eint, r.form)
<1> DEFINE internal == QREINT(c)
           r == react_state(c, form)
<1>1. internal \in Int /\ ke(c) \in Int /\ c.eden \in Int
  BY KeType DEF Cells
<1>2. internal + ke(c) = c.eden
  BY <1>1 DEF QREINT
<1>3. T_of(internal, form) \in Int
  BY <1>1 DEF T_of
<1>4. r = [c EXCEPT !.form = form, !.T = T_of(internal, form), !.eint = internal,
                    !.eden = c.eden]
  BY <1>2 DEF react_state
<1> HIDE DEF internal, r
<1>5. /\ r \in Cells /\ r.v = c.v /\ r.form = form /\ r.eden = c.eden
      /\ r.eint = internal /\ r.T = T_of(internal, form)
  BY <1>1, <1>3, <1>4 DEF Cells
<1>6. QREINT(r) = internal
  BY <1>5 DEF QREINT, ke, internal
<1> QED
  BY <1>5, <1>6 DEF r

LEMMA EnergyInitIInv == EnergyInit => EnergyIInv
<1> SUFFICES ASSUME EnergyInit PROVE EnergyIInv
  OBVIOUS
<1>1. Rest \in Vectors3
  BY DEF Rest, Vectors3, Three
<1>2. EnergyTypeInv
  BY <1>1 DEF EnergyInit, EnergyTypeInv, Cells, Settings, Rest, Three
<1> QED
  BY <1>2 DEF EnergyInit, EnergyIInv, EnergiesAgree, Reactable

EnergyAction ==
  /\ stage' = "reacted" => cell'.eden = cell.eden
  /\ stage' = "reset" /\ cell'.eden # cell.eden => BelowLimit(cell)

LEMMA EnergyStep ==
  ASSUME EnergyIInv, EnergyNext
  PROVE  EnergyIInv' /\ EnergyAction
<1>1. /\ cell \in Cells /\ setting \in Settings
      /\ \E a \in Three : \A t \in Three \ {a} : setting.spin[t] = 0
  BY DEF EnergyIInv, EnergyTypeInv
<1>2. CASE pc_initdata
  <2>1. /\ setting' \in [place : Places, spin : Spins, limits : Limits]
        /\ stage' = "data"
    BY <1>2 DEF pc_initdata
  <2>2. PICK v \in Velocities, e \in Internals, form \in Formations :
          cell' = [v |-> v, eint |-> e, eden |-> e + Dot(v, v) - rotEnergyIn(setting'),
                   T |-> T_of(e, form), form |-> form]
    BY <1>2 DEF pc_initdata
  <2>3. v \in Vectors3 /\ e \in Int /\ form \in Int /\ Dot(v, v) \in Int
        /\ T_of(e, form) \in Int
    BY EnergyAssumption, DotType DEF T_of
  <2>4. /\ setting' \in Settings
        /\ \E a \in Three : \A t \in Three \ {a} : setting'.spin[t] = 0
    BY <2>1, EnergyAssumption DEF Settings
  <2>5. rotEnergyIn(setting') \in Int
    BY <2>4, RotEnergyInType
  <2>6. cell' \in Cells
    <3> DEFINE total == e + Dot(v, v) - rotEnergyIn(setting')
    <3>1. total \in Int
      BY <2>3, <2>5
    <3> HIDE DEF total
    <3>2. cell' = [v |-> v, eint |-> e, eden |-> total, T |-> T_of(e, form), form |-> form]
      BY <2>2 DEF total
    <3> QED
      BY <2>3, <3>1, <3>2 DEF Cells
  <2> QED
    BY <2>1, <2>4, <2>6 DEF EnergyIInv, EnergyTypeInv, EnergiesAgree, Reactable,
                            EnergyAction
<1>3. CASE initData
  <2>1. /\ setting' = setting /\ stage' = "initialised"
        /\ cell' = enforce_consistent_e(cell)
    BY <1>3 DEF initData
  <2> DEFINE total == IF Dot(setting.spin, setting.spin) > 0
                      THEN cell.eint - get_rot_energy
                      ELSE cell.eint + Dot(cell.v, cell.v)
  <2>2. total \in Int
    <3>1. get_rot_energy \in Int /\ cell.eint \in Int /\ cell.v \in Vectors3
      BY <1>1, RotEnergyType DEF Cells
    <3> QED
      BY <3>1, DotType
  <2>3. cell' = [cell EXCEPT !.eden = total]
    BY <2>1 DEF enforce_consistent_e
  <2> HIDE DEF total
  <2>4. cell' \in Cells
    BY <1>1, <2>2, <2>3 DEF Cells
  <2> QED
    BY <1>1, <2>1, <2>4 DEF EnergyIInv, EnergyTypeInv, EnergiesAgree, Reactable,
                            EnergyAction
<1>4. CASE Update
  <2>1. setting' = setting /\ stage' = "updated"
    BY <1>4 DEF Update
  <2>2. PICK v \in Velocities, e \in Internals, total \in Totals, form \in Formations :
          cell' = [cell EXCEPT !.v = v, !.eint = e, !.eden = total, !.form = form]
    BY <1>4 DEF Update
  <2>3. v \in Vectors3 /\ e \in Int /\ total \in Int /\ form \in Int
    BY EnergyAssumption
  <2>4. cell' \in Cells
    BY <1>1, <2>2, <2>3 DEF Cells
  <2> QED
    BY <1>1, <2>1, <2>4 DEF EnergyIInv, EnergyTypeInv, EnergiesAgree, Reactable,
                            EnergyAction
<1>5. CASE React
  <2>1. setting' = setting /\ stage' = "reacted"
    BY <1>5 DEF React
  <2>2. PICK form \in Formations : cell' = react_state(cell, form)
    BY <1>5 DEF React
  <2>3. /\ cell' \in Cells /\ cell'.eden = cell.eden
        /\ cell'.T = T_of(cell'.eint, cell'.form)
        /\ cell'.eint = QREINT(cell')
    BY <1>1, <2>2, EnergyAssumption, Reacted
  <2>4. QREINT(cell)' = QREINT(cell')
    BY <2>1 DEF QREINT, ke, get_rot_energy, rotEnergyIn
  <2> QED
    BY <1>1, <2>1, <2>3, <2>4 DEF EnergyIInv, EnergyTypeInv, EnergiesAgree,
                                  Reactable, EnergyAction, T_of
<1>6. CASE Reset
  <2>1. setting' = setting /\ stage' = "reset" /\ cell' = computeTemp(cell)
    BY <1>6 DEF Reset
  <2>2. /\ ResetTo(cell, cell')
        /\ cell'.T = T_of(cell'.eint, cell'.form)
    BY <1>1, <2>1, TempComputed
  <2>3. QREINT(cell)' = QREINT(cell')
    BY <2>1 DEF QREINT, ke, get_rot_energy, rotEnergyIn
  <2>4. Floor(cell)' <=> Floor(cell')
    BY <2>1 DEF Floor, small_e, e_of
  <2> QED
    BY <1>1, <2>1, <2>2, <2>3, <2>4
       DEF ResetTo, EnergyIInv, EnergyTypeInv, EnergiesAgree, Reactable,
           EnergyAction, T_of
<1> QED
  BY <1>2, <1>3, <1>4, <1>5, <1>6 DEF EnergyNext

LEMMA EnergyStutter ==
  ASSUME EnergyIInv, UNCHANGED energyVars
  PROVE  EnergyIInv'
BY DEF energyVars, EnergyIInv, EnergyTypeInv, EnergiesAgree, Reactable, Floor,
       QREINT, ke, get_rot_energy, rotEnergyIn, small_e, e_of, T_of

LEMMA EnergyIInvInvariant == EnergySpec => []EnergyIInv
<1>1. EnergyIInv /\ [EnergyNext]_energyVars => EnergyIInv'
  BY EnergyStep, EnergyStutter
<1> QED
  BY EnergyInitIInv, <1>1, PTL DEF EnergySpec

\* After a reset or a reaction the two energies of a cell are the same gas,
\* within the limits the options set, and the temperature is its own.
THEOREM CellEnergiesAgree == EnergySpec => []EnergiesAgree
<1>1. EnergyIInv => EnergiesAgree
  BY DEF EnergyIInv
<1> QED
  BY <1>1, EnergyIInvInvariant, PTL

\* Reactions keep the total energy of a cell; a reset changes it only where a
\* limit is crossed.
THEOREM CellTotalEnergyKept == EnergySpec => TotalEnergyKept
<1>1. EnergyIInv /\ [EnergyNext]_energyVars => [EnergyAction]_energyVars
  BY EnergyStep
<1> QED
  BY <1>1, EnergyIInvInvariant, PTL DEF EnergySpec, TotalEnergyKept, EnergyAction

-----------------------------------------------------------------------------
\* The distance of the cell from the axis, as a vector.
outward == [t \in Three |-> IF setting.spin[t] # 0 THEN 0 ELSE setting.place[t]]

wind == Cross(setting.spin, setting.place)

LEMMA SumOfSquares ==
  ASSUME NEW a \in Int, NEW b \in Int, NEW c \in Int
  PROVE  /\ a * a + b * b + c * c >= 0
         /\ a * a + b * b + c * c = 0 => a = 0 /\ b = 0 /\ c = 0
<1>1. a * a >= 0 /\ b * b >= 0 /\ c * c >= 0
  OBVIOUS
<1>2. \A x \in Int : x * x = 0 => x = 0
  OBVIOUS
<1>3. a * a \in Int /\ b * b \in Int /\ c * c \in Int
  OBVIOUS
<1> QED
  BY <1>1, <1>2, <1>3

\* A vector of length k across a plane turns the vectors in the plane.
LEMMA Turning ==
  ASSUME NEW k \in Int, NEW x \in Int, NEW y \in Int, NEW z \in Int, k * x = 0
  PROVE  /\ (k * k) * (x * x + y * y + z * z) = (k * y) * (k * y) + (k * z) * (k * z)
         /\ \A t \in {y, z} : (-(k * t)) * (-(k * t)) = (k * t) * (k * t)
         /\ (-(k * k)) * x = 0
         /\ \A t \in {y, z} : /\ -(k * (k * t)) = (-(k * k)) * t
                              /\ k * (-(k * t)) = (-(k * k)) * t
<1>1. k = 0 \/ x = 0
  OBVIOUS
<1>2. (k * k) * (y * y + z * z) = (k * y) * (k * y) + (k * z) * (k * z)
  OBVIOUS
<1>3. (k * k) * (x * x + y * y + z * z) = (k * k) * (y * y + z * z)
  <2>1. CASE k = 0
    BY <2>1
  <2>2. CASE x = 0
    BY <2>2
  <2> QED
    BY <1>1, <2>1, <2>2
<1>4. (-(k * k)) * x = 0
  BY <1>1
<1>5. \A t \in Int : (-(k * t)) * (-(k * t)) = (k * t) * (k * t)
  OBVIOUS
<1>6. \A t \in Int : /\ -(k * (k * t)) = (-(k * k)) * t
                     /\ k * (-(k * t)) = (-(k * k)) * t
  OBVIOUS
<1> QED
  BY <1>2, <1>3, <1>4, <1>5, <1>6

\* What turns with the frame has the potential of the centrifugal force as its
\* kinetic energy, and that force is the frame's turning of it.
LEMMA FrameGeometry ==
  ASSUME EnergyTypeInv
  PROVE  /\ outward \in Vectors3 /\ wind \in Vectors3
         /\ get_rot_energy = Dot(setting.spin, setting.spin) * Dot(outward, outward)
         /\ Dot(wind, wind) = get_rot_energy
         /\ Cross(setting.spin, wind) = Times(-Dot(setting.spin, setting.spin), outward)
<1> DEFINE w == setting.spin
           r == setting.place
<1>1. /\ w \in Vectors3 /\ r \in Vectors3
      /\ \E a \in Three : \A t \in Three \ {a} : w[t] = 0
  BY DEF EnergyTypeInv, Settings
<1>2. /\ w[1] \in Int /\ w[2] \in Int /\ w[3] \in Int
      /\ r[1] \in Int /\ r[2] \in Int /\ r[3] \in Int
  BY <1>1 DEF Vectors3, Three
<1>3. \/ w[2] = 0 /\ w[3] = 0
      \/ w[1] = 0 /\ w[3] = 0
      \/ w[1] = 0 /\ w[2] = 0
  BY <1>1 DEF Three
<1>4. /\ outward \in Vectors3
      /\ outward[1] = IF w[1] # 0 THEN 0 ELSE r[1]
      /\ outward[2] = IF w[2] # 0 THEN 0 ELSE r[2]
      /\ outward[3] = IF w[3] # 0 THEN 0 ELSE r[3]
  BY <1>1 DEF outward, Vectors3, Three
<1>5. get_rot_energy = Dot(w, w) * Dot(outward, outward)
  BY DEF get_rot_energy, rotEnergyIn, outward
<1>6. wind = << w[2] * r[3] - w[3] * r[2], w[3] * r[1] - w[1] * r[3],
               w[1] * r[2] - w[2] * r[1] >>
  BY DEF wind, Cross
<1>7. /\ wind \in Vectors3
      /\ wind[1] = w[2] * r[3] - w[3] * r[2]
      /\ wind[2] = w[3] * r[1] - w[1] * r[3]
      /\ wind[3] = w[1] * r[2] - w[2] * r[1]
  BY <1>2, <1>6 DEF Vectors3, Three
<1> HIDE DEF w, r
<1>8. outward[1] \in Int /\ outward[2] \in Int /\ outward[3] \in Int
  BY <1>2, <1>4
<1>9. /\ Dot(wind, wind) = Dot(w, w) * Dot(outward, outward)
      /\ Cross(w, wind) = Times(-Dot(w, w), outward)
  <2>1. CASE w[2] = 0 /\ w[3] = 0
    <3>1. w[1] * outward[1] = 0
      BY <1>2, <1>4
    <3>2. outward[2] = r[2] /\ outward[3] = r[3]
      BY <1>4, <2>1
    <3>3. /\ wind[1] = 0 /\ wind[2] = -(w[1] * outward[3])
          /\ wind[3] = w[1] * outward[2]
      BY <1>2, <1>7, <2>1, <3>2
    <3>4. Dot(w, w) = w[1] * w[1]
      BY <1>2, <2>1 DEF Dot
    <3>5. Dot(outward, outward) = outward[1] * outward[1]
            + outward[2] * outward[2] + outward[3] * outward[3]
      BY <1>8 DEF Dot
    <3>6. Dot(wind, wind) = (w[1] * outward[2]) * (w[1] * outward[2])
                            + (w[1] * outward[3]) * (w[1] * outward[3])
      BY <1>2, <1>8, <3>1, <3>3, Turning DEF Dot
    <3> DEFINE k == w[1]
               x == outward[1]
               y == outward[2]
               z == outward[3]
    <3>7. k \in Int /\ x \in Int /\ y \in Int /\ z \in Int /\ k * x = 0
      BY <1>2, <1>8, <3>1
    <3> HIDE DEF k, x, y, z
    <3>8. /\ (k * k) * (x * x + y * y + z * z) = (k * y) * (k * y) + (k * z) * (k * z)
           /\ (-(k * k)) * x = 0
           /\ -(k * (k * y)) = (-(k * k)) * y
           /\ k * (-(k * z)) = (-(k * k)) * z
      BY <3>7, Turning
    <3>9. Dot(wind, wind) = Dot(w, w) * Dot(outward, outward)
      BY <3>4, <3>5, <3>6, <3>8 DEF k, x, y, z
    <3>10. /\ w[2] * wind[3] - w[3] * wind[2] = 0
           /\ w[3] * wind[1] - w[1] * wind[3] = -(k * (k * y))
           /\ w[1] * wind[2] - w[2] * wind[1] = k * (-(k * z))
      BY <2>1, <3>3, <3>7 DEF k, y, z
    <3>11. /\ w[2] * wind[3] - w[3] * wind[2] = (-Dot(w, w)) * outward[1]
          /\ w[3] * wind[1] - w[1] * wind[3] = (-Dot(w, w)) * outward[2]
          /\ w[1] * wind[2] - w[2] * wind[1] = (-Dot(w, w)) * outward[3]
      BY <3>4, <3>8, <3>10 DEF k, x, y, z
    <3>12. Cross(w, wind) = Times(-Dot(w, w), outward)
      BY <3>11 DEF Cross, Times
    <3> QED
      BY <3>9, <3>12
  <2>2. CASE w[3] = 0 /\ w[1] = 0
    <3>1. w[2] * outward[2] = 0
      BY <1>2, <1>4
    <3>2. outward[3] = r[3] /\ outward[1] = r[1]
      BY <1>4, <2>2
    <3>3. /\ wind[2] = 0 /\ wind[3] = -(w[2] * outward[1])
          /\ wind[1] = w[2] * outward[3]
      BY <1>2, <1>7, <2>2, <3>2
    <3>4. Dot(w, w) = w[2] * w[2]
      BY <1>2, <2>2 DEF Dot
    <3>5. Dot(outward, outward) = outward[2] * outward[2]
            + outward[3] * outward[3] + outward[1] * outward[1]
      BY <1>8 DEF Dot
    <3>6. Dot(wind, wind) = (w[2] * outward[3]) * (w[2] * outward[3])
                            + (w[2] * outward[1]) * (w[2] * outward[1])
      BY <1>2, <1>8, <3>1, <3>3, Turning DEF Dot
    <3> DEFINE k == w[2]
               x == outward[2]
               y == outward[3]
               z == outward[1]
    <3>7. k \in Int /\ x \in Int /\ y \in Int /\ z \in Int /\ k * x = 0
      BY <1>2, <1>8, <3>1
    <3> HIDE DEF k, x, y, z
    <3>8. /\ (k * k) * (x * x + y * y + z * z) = (k * y) * (k * y) + (k * z) * (k * z)
           /\ (-(k * k)) * x = 0
           /\ -(k * (k * y)) = (-(k * k)) * y
           /\ k * (-(k * z)) = (-(k * k)) * z
      BY <3>7, Turning
    <3>9. Dot(wind, wind) = Dot(w, w) * Dot(outward, outward)
      BY <3>4, <3>5, <3>6, <3>8 DEF k, x, y, z
    <3>10. /\ w[3] * wind[1] - w[1] * wind[3] = 0
           /\ w[1] * wind[2] - w[2] * wind[1] = -(k * (k * y))
           /\ w[2] * wind[3] - w[3] * wind[2] = k * (-(k * z))
      BY <2>2, <3>3, <3>7 DEF k, y, z
    <3>11. /\ w[3] * wind[1] - w[1] * wind[3] = (-Dot(w, w)) * outward[2]
          /\ w[1] * wind[2] - w[2] * wind[1] = (-Dot(w, w)) * outward[3]
          /\ w[2] * wind[3] - w[3] * wind[2] = (-Dot(w, w)) * outward[1]
      BY <3>4, <3>8, <3>10 DEF k, x, y, z
    <3>12. Cross(w, wind) = Times(-Dot(w, w), outward)
      BY <3>11 DEF Cross, Times
    <3> QED
      BY <3>9, <3>12
  <2>3. CASE w[1] = 0 /\ w[2] = 0
    <3>1. w[3] * outward[3] = 0
      BY <1>2, <1>4
    <3>2. outward[1] = r[1] /\ outward[2] = r[2]
      BY <1>4, <2>3
    <3>3. /\ wind[3] = 0 /\ wind[1] = -(w[3] * outward[2])
          /\ wind[2] = w[3] * outward[1]
      BY <1>2, <1>7, <2>3, <3>2
    <3>4. Dot(w, w) = w[3] * w[3]
      BY <1>2, <2>3 DEF Dot
    <3>5. Dot(outward, outward) = outward[3] * outward[3]
            + outward[1] * outward[1] + outward[2] * outward[2]
      BY <1>8 DEF Dot
    <3>6. Dot(wind, wind) = (w[3] * outward[1]) * (w[3] * outward[1])
                            + (w[3] * outward[2]) * (w[3] * outward[2])
      BY <1>2, <1>8, <3>1, <3>3, Turning DEF Dot
    <3> DEFINE k == w[3]
               x == outward[3]
               y == outward[1]
               z == outward[2]
    <3>7. k \in Int /\ x \in Int /\ y \in Int /\ z \in Int /\ k * x = 0
      BY <1>2, <1>8, <3>1
    <3> HIDE DEF k, x, y, z
    <3>8. /\ (k * k) * (x * x + y * y + z * z) = (k * y) * (k * y) + (k * z) * (k * z)
           /\ (-(k * k)) * x = 0
           /\ -(k * (k * y)) = (-(k * k)) * y
           /\ k * (-(k * z)) = (-(k * k)) * z
      BY <3>7, Turning
    <3>9. Dot(wind, wind) = Dot(w, w) * Dot(outward, outward)
      BY <3>4, <3>5, <3>6, <3>8 DEF k, x, y, z
    <3>10. /\ w[1] * wind[2] - w[2] * wind[1] = 0
           /\ w[2] * wind[3] - w[3] * wind[2] = -(k * (k * y))
           /\ w[3] * wind[1] - w[1] * wind[3] = k * (-(k * z))
      BY <2>3, <3>3, <3>7 DEF k, y, z
    <3>11. /\ w[1] * wind[2] - w[2] * wind[1] = (-Dot(w, w)) * outward[3]
          /\ w[2] * wind[3] - w[3] * wind[2] = (-Dot(w, w)) * outward[1]
          /\ w[3] * wind[1] - w[1] * wind[3] = (-Dot(w, w)) * outward[2]
      BY <3>4, <3>8, <3>10 DEF k, x, y, z
    <3>12. Cross(w, wind) = Times(-Dot(w, w), outward)
      BY <3>11 DEF Cross, Times
    <3> QED
      BY <3>9, <3>12
  <2> QED
    BY <1>3, <2>1, <2>2, <2>3
<1> QED
  BY <1>4, <1>5, <1>7, <1>9 DEF w

LEMMA FrameIndependence ==
  ASSUME EnergyTypeInv
  PROVE  FrameIndependent
<1> DEFINE w == setting.spin
           r == setting.place
           rot == get_rot_energy
           resting == wallVelocity(0)
<1>1. w \in Vectors3 /\ r \in Vectors3 /\ cell \in Cells /\ cell.v \in Vectors3
  BY DEF EnergyTypeInv, Settings, Cells
<1>2. /\ outward \in Vectors3 /\ wind \in Vectors3
      /\ rot = Dot(w, w) * Dot(outward, outward)
      /\ Dot(wind, wind) = rot
      /\ Cross(w, wind) = Times(-Dot(w, w), outward)
  BY FrameGeometry
<1>3. /\ Dot(w, w) \in Int /\ Dot(outward, outward) \in Int /\ rot \in Int
      /\ Dot(w, w) >= 0 /\ Dot(outward, outward) >= 0 /\ rot >= 0
  <2>1. \A a \in Vectors3 : Dot(a, a) \in Int /\ Dot(a, a) >= 0
    BY DotType, SumOfSquares DEF Dot, Vectors3, Three
  <2> QED
    BY <1>1, <1>2, <2>1
<1>4. resting = IF rot > 0 THEN Times(-1, wind) ELSE Rest
  BY <1>3 DEF wallVelocity, wind, Rest
<1>5. /\ w[1] \in Int /\ w[2] \in Int /\ w[3] \in Int
      /\ wind[1] \in Int /\ wind[2] \in Int /\ wind[3] \in Int
      /\ outward[1] \in Int /\ outward[2] \in Int /\ outward[3] \in Int
      /\ cell.v[1] \in Int /\ cell.v[2] \in Int /\ cell.v[3] \in Int
  BY <1>1, <1>2 DEF Vectors3, Three
<1>6. resting = << -wind[1], -wind[2], -wind[3] >>
  <2>1. CASE rot > 0
    BY <1>4, <1>5, <2>1 DEF Times
  <2>2. CASE rot = 0
    <3>1. wind[1] = 0 /\ wind[2] = 0 /\ wind[3] = 0
      <4> DEFINE a == wind[1]
                 b == wind[2]
                 c == wind[3]
      <4>1. a * a + b * b + c * c = 0
        BY <1>2, <2>2 DEF Dot
      <4>2. a \in Int /\ b \in Int /\ c \in Int
        BY <1>5
      <4> HIDE DEF a, b, c
      <4>3. a = 0 /\ b = 0 /\ c = 0
        BY <4>1, <4>2, SumOfSquares
      <4> QED
        BY <4>3 DEF a, b, c
    <3> QED
      BY <1>4, <2>2, <3>1 DEF Rest
  <2> QED
    BY <1>3, <2>1, <2>2
<1>7. vel_if(resting) = Rest
  <2>1. vel_if(resting) = Add(resting, wind)
    BY DEF vel_if, wind
  <2> QED
    BY <1>5, <1>6, <2>1 DEF Add, Rest
<1>8. ke([cell EXCEPT !.v = resting]) = 0
  <2>1. [cell EXCEPT !.v = resting].v = resting
    BY <1>1 DEF Cells
  <2>2. Dot(resting, resting) = Dot(wind, wind)
    BY <1>5, <1>6 DEF Dot
  <2> QED
    BY <1>2, <1>3, <2>1, <2>2 DEF ke
<1>9. ASSUME NEW rf_rad \in 1 .. 2, Dot(outward, outward) <= rf_rad * rf_rad
      PROVE  wallVelocity(rf_rad) = Rest
  <2>1. Dot(w, w) * Dot(outward, outward) <= Dot(w, w) * (rf_rad * rf_rad)
    BY <1>3, <1>9
  <2>2. Dot(w, w) * (rf_rad * rf_rad) = Dot(w, w) * rf_rad * rf_rad
    BY <1>3
  <2> QED
    BY <1>2, <1>3, <2>1, <2>2 DEF wallVelocity, Rest
<1>10. fill_rot_source(resting) = Times(-1, Cross(w, resting))
  <2> DEFINE turn == Cross(w, wind)
             cross == Cross(w, resting)
  <2>1. /\ cross[1] = -turn[1] /\ cross[2] = -turn[2] /\ cross[3] = -turn[3]
        /\ turn[1] \in Int /\ turn[2] \in Int /\ turn[3] \in Int
    <3>1. \A a, b, c, d \in Int : a * (-b) - c * (-d) = -(a * b - c * d)
      OBVIOUS
    <3>2. \A a, b, c, d \in Int : a * b - c * d \in Int
      OBVIOUS
    <3>3. /\ cross[1] = w[2] * (-wind[3]) - w[3] * (-wind[2])
          /\ cross[2] = w[3] * (-wind[1]) - w[1] * (-wind[3])
          /\ cross[3] = w[1] * (-wind[2]) - w[2] * (-wind[1])
      BY <1>6 DEF Cross
    <3>4. /\ turn[1] = w[2] * wind[3] - w[3] * wind[2]
          /\ turn[2] = w[3] * wind[1] - w[1] * wind[3]
          /\ turn[3] = w[1] * wind[2] - w[2] * wind[1]
      BY DEF Cross
    <3> HIDE DEF w, turn, cross
    <3> QED
      BY <1>5, <3>1, <3>2, <3>3, <3>4
  <2>2. fill_rot_source(resting) = Times(-1, Add(Times(2, cross), turn))
    BY DEF fill_rot_source, wind
  <2> HIDE DEF turn, cross
  <2>3. fill_rot_source(resting) = Times(-1, cross)
    BY <2>1, <2>2 DEF Times, Add
  <2> QED
    BY <2>3 DEF cross
<1>11. Dot(cell.v, fill_rot_source(cell.v)) = Dot(w, w) * Dot(cell.v, outward)
  <2> DEFINE v == cell.v
             cross == Cross(w, v)
  <2>1. /\ cross[1] = w[2] * v[3] - w[3] * v[2]
        /\ cross[2] = w[3] * v[1] - w[1] * v[3]
        /\ cross[3] = w[1] * v[2] - w[2] * v[1]
    BY DEF Cross
  <2>2. /\ cross[1] \in Int /\ cross[2] \in Int /\ cross[3] \in Int
    BY <1>5, <2>1
  <2>3. v[1] * cross[1] + v[2] * cross[2] + v[3] * cross[3] = 0
    BY <1>5, <2>1
  <2>4. fill_rot_source(v) = Times(-1, Add(Times(2, cross), Times(-Dot(w, w), outward)))
    BY <1>2 DEF fill_rot_source, wind
  <2> DEFINE q == Dot(w, w)
             f == fill_rot_source(v)
  <2> HIDE DEF cross, v, q
  <2>5. /\ f[1] = q * outward[1] - 2 * cross[1]
        /\ f[2] = q * outward[2] - 2 * cross[2]
        /\ f[3] = q * outward[3] - 2 * cross[3]
    <3>1. /\ f[1] = (-1) * (2 * cross[1] + (-q) * outward[1])
          /\ f[2] = (-1) * (2 * cross[2] + (-q) * outward[2])
          /\ f[3] = (-1) * (2 * cross[3] + (-q) * outward[3])
      BY <2>4 DEF Times, Add, q
    <3> QED
      BY <1>3, <1>5, <2>2, <3>1 DEF q
  <2> HIDE DEF f
  <2>6. /\ q \in Int /\ v[1] \in Int /\ v[2] \in Int /\ v[3] \in Int
    BY <1>3, <1>5 DEF q, v
  <2>7. \A a, o, x \in Int : a * (q * o - 2 * x) = q * (a * o) - 2 * (a * x)
    BY <2>6
  <2>8. /\ v[1] * f[1] = q * (v[1] * outward[1]) - 2 * (v[1] * cross[1])
        /\ v[2] * f[2] = q * (v[2] * outward[2]) - 2 * (v[2] * cross[2])
        /\ v[3] * f[3] = q * (v[3] * outward[3]) - 2 * (v[3] * cross[3])
    BY <1>5, <2>2, <2>5, <2>6, <2>7
  <2>9. v[1] * f[1] + v[2] * f[2] + v[3] * f[3] =
          q * (v[1] * outward[1]) + q * (v[2] * outward[2]) + q * (v[3] * outward[3])
    <3>1. \A a1, a2, a3, b1, b2, b3 \in Int :
            b1 + b2 + b3 = 0 =>
              (a1 - 2 * b1) + (a2 - 2 * b2) + (a3 - 2 * b3) = a1 + a2 + a3
      OBVIOUS
    <3>2. /\ q * (v[1] * outward[1]) \in Int /\ v[1] * cross[1] \in Int
          /\ q * (v[2] * outward[2]) \in Int /\ v[2] * cross[2] \in Int
          /\ q * (v[3] * outward[3]) \in Int /\ v[3] * cross[3] \in Int
      BY <1>5, <2>2, <2>6
    <3> QED
      BY <2>3, <2>8, <3>1, <3>2
  <2>10. q * (v[1] * outward[1]) + q * (v[2] * outward[2]) + q * (v[3] * outward[3])
           = q * (v[1] * outward[1] + v[2] * outward[2] + v[3] * outward[3])
    BY <1>5, <2>6
  <2>11. Dot(v, f) = q * Dot(v, outward)
    BY <2>9, <2>10 DEF Dot
  <2> QED
    BY <2>11 DEF v, f, q
<1> QED
  BY <1>7, <1>8, <1>9, <1>10, <1>11 DEF FrameIndependent, outward

\* An observer at rest and one in the turning frame agree: walls at rest have
\* no energy in the frame, stay at rest, and the frame's sources do no work but
\* against the potential.
THEOREM CellFrameIndependent == EnergySpec => []FrameIndependent
<1>1. EnergyIInv => FrameIndependent
  BY FrameIndependence DEF EnergyIInv
<1> QED
  BY <1>1, EnergyIInvInvariant, PTL

-----------------------------------------------------------------------------
(* The averages of a line. *)

(***************************************************************************)
(* Induction over an interval, stated with the set S of the numbers that   *)
(* have the property: the least number outside S would be a contradiction. *)
(***************************************************************************)
LEMMA IntervalInduction ==
  ASSUME NEW S, NEW n \in Nat, 0 \in S,
         \A k \in 0 .. n - 1 : k \in S => k + 1 \in S
  PROVE  \A k \in 0 .. n : k \in S
<1> DEFINE T == {k \in 0 .. n : k \notin S}
           R == {ss \in Nat \X Nat : ss[1] < ss[2]}
<1> SUFFICES ASSUME T # {} PROVE FALSE
  OBVIOUS
<1>1. IsWellFoundedOn(R, Nat)
  <2>1. OpToRel(<, Nat) = R
    BY Zenon DEF OpToRel
  <2> QED
    BY <2>1, NatLessThanWellFounded, Zenon
<1>2. PICK x \in T : \A y \in T : <<y, x>> \notin R
  <2>1. T \subseteq Nat
    OBVIOUS
  <2> HIDE DEF T, R
  <2> QED
    BY <1>1, <2>1, WFMin, Zenon
<1>3. ASSUME NEW y \in T, y < x PROVE FALSE
  <2>1. <<y, x>> \in R
    BY <1>3
  <2> HIDE DEF R, T
  <2> QED
    BY <1>2, <2>1
<1>4. x # 0 /\ x - 1 \notin T /\ x - 1 \in 0 .. n - 1
  BY <1>3
<1> QED
  BY <1>4

-----------------------------------------------------------------------------
(* The layout of a line.                                                   *)

LEMMA NsubType == Nsub \in Nat /\ Nsub >= 3
BY NsubAssumption

\* A line has three cells of Nsub segments, and one of the cells is the owner.
LEMMA LineLayout ==
  ASSUME offsets \in Supports
  PROVE  /\ Len(offsets) = 3
         /\ Segments = 0 .. 3 * Nsub - 1
         /\ ToSet(offsets) = {offsets[1], offsets[2], offsets[3]}
         /\ offsets[1] \in -2 .. 2 /\ offsets[2] \in -2 .. 2 /\ offsets[3] \in -2 .. 2
         /\ \E c \in {0, Nsub, 2 * Nsub} : \A i \in Segments :
              relative_offset(i) = 0 <=> c <= i /\ i < c + Nsub
<1>1. offsets \in {<<-1, 0, 1>>, <<0, 1, 2>>, <<-2, -1, 0>>}
  BY SupportsAssumption
<1>2. /\ Len(offsets) = 3
      /\ offsets[1] \in -2 .. 2 /\ offsets[2] \in -2 .. 2 /\ offsets[3] \in -2 .. 2
      /\ DOMAIN offsets = 1 .. 3
  BY <1>1
<1>3. Segments = 0 .. 3 * Nsub - 1
  BY <1>2, NsubType DEF Segments
<1>4. ToSet(offsets) = {offsets[1], offsets[2], offsets[3]}
  BY <1>2 DEF ToSet
<1>5. ASSUME NEW i \in Segments
      PROVE  relative_offset(i) = IF i < Nsub THEN offsets[1]
                                  ELSE IF i < 2 * Nsub THEN offsets[2] ELSE offsets[3]
  <2>1. i \div Nsub = IF i < Nsub THEN 0 ELSE IF i < 2 * Nsub THEN 1 ELSE 2
    BY <1>3, <1>5, NsubType
  <2> QED
    BY <2>1, <1>3, NsubType DEF relative_offset
<1>6. CASE offsets = <<-1, 0, 1>>
  <2>1. \A i \in Segments : relative_offset(i) = 0 <=> Nsub <= i /\ i < Nsub + Nsub
    BY <1>3, <1>5, <1>6, NsubType
  <2> QED
    BY <1>2, <1>3, <1>4, <2>1
<1>7. CASE offsets = <<0, 1, 2>>
  <2>1. \A i \in Segments : relative_offset(i) = 0 <=> 0 <= i /\ i < 0 + Nsub
    BY <1>3, <1>5, <1>7, NsubType
  <2> QED
    BY <1>2, <1>3, <1>4, <2>1
<1>8. CASE offsets = <<-2, -1, 0>>
  <2>1. \A i \in Segments : relative_offset(i) = 0 <=> 2 * Nsub <= i /\ i < 2 * Nsub + Nsub
    BY <1>3, <1>5, <1>8, NsubType
  <2> QED
    BY <1>2, <1>3, <1>4, <2>1
<1> QED
  BY <1>1, <1>6, <1>7, <1>8

\* Where the segments are: none outside the owner is at its centre.
LEMMA Centres ==
  ASSUME offsets \in Supports, NEW i \in Segments
  PROVE  /\ relative_offset(i) \in ToSet(offsets)
         /\ relative_offset(i) \in -2 .. 2
         /\ s_center(i) \in Int
         /\ relative_offset(i) # 0 => s_center(i) # 0
<1>1. i \div Nsub \in 0 .. 2 /\ i \in 0 .. 3 * Nsub - 1
  BY LineLayout, NsubType
<1>2. relative_offset(i) \in ToSet(offsets) /\ relative_offset(i) \in -2 .. 2
  BY <1>1, LineLayout DEF relative_offset
<1>3. i % Nsub \in 0 .. Nsub - 1 /\ (Nsub - 1) \div 2 \in 0 .. Nsub - 1
  BY <1>1, NsubType
<1> DEFINE o == relative_offset(i)
           m == (i % Nsub) - ((Nsub - 1) \div 2)
<1>4. m \in Int /\ -Nsub < m /\ m < Nsub
  BY <1>3, NsubType
<1>5. s_center(i) = Nsub * o + m
  BY <1>1, <1>2, <1>3, NsubType DEF s_center
<1>6. o # 0 => Nsub * o >= Nsub \/ Nsub * o <= -Nsub
  BY <1>2, NsubType
<1>7. Nsub * o \in Int
  BY <1>2, NsubType
<1> HIDE DEF o, m
<1>8. s_center(i) \in Int /\ (o # 0 => s_center(i) # 0)
  BY <1>4, <1>5, <1>6, <1>7, NsubType
<1> QED
  BY <1>2, <1>8 DEF o

-----------------------------------------------------------------------------
(* Sums over the segments.                                                 *)

\* The loop over the segments has a result: partial sums exist.
LEMMA PartialSums ==
  ASSUME offsets \in Supports, NEW f
  PROVE  \E s : /\ s = [i \in 0 .. 3 * Nsub |-> IF i = 0 THEN 0 ELSE s[i - 1] + f[i - 1]]
                /\ sumSegments(f) = s[3 * Nsub]
<1> DEFINE Sums(k, s) == s = [i \in 0 .. k |-> IF i = 0 THEN 0 ELSE s[i - 1] + f[i - 1]]
           S == {k \in 0 .. 3 * Nsub : \E s : Sums(k, s)}
<1>1. 0 \in S
  <2> DEFINE s0 == [i \in 0 .. 0 |-> 0]
  <2>1. Sums(0, s0)
    OBVIOUS
  <2>2. \E s : Sums(0, s)
    <3> HIDE DEF Sums, s0
    <3> QED
      BY <2>1
  <2> QED
    BY <2>2, NsubType
<1>2. ASSUME NEW k \in 0 .. 3 * Nsub - 1, k \in S PROVE k + 1 \in S
  <2>1. PICK s : Sums(k, s)
    BY <1>2
  <2> DEFINE s1 == [i \in 0 .. (k + 1) |-> IF i = k + 1 THEN s[k] + f[k] ELSE s[i]]
  <2>2. \A i \in 0 .. k : s1[i] = s[i]
    BY NsubType
  <2>3. ASSUME NEW i \in 0 .. (k + 1)
        PROVE  s1[i] = IF i = 0 THEN 0 ELSE s1[i - 1] + f[i - 1]
    <3>1. CASE i = k + 1
      BY <3>1, <2>2, NsubType
    <3>2. CASE i # k + 1
      <4>1. i \in 0 .. k /\ (i # 0 => i - 1 \in 0 .. k)
        BY <3>2, NsubType
      <4>2. s[i] = IF i = 0 THEN 0 ELSE s[i - 1] + f[i - 1]
        BY <4>1, <2>1
      <4> QED
        BY <4>1, <4>2, <2>2
    <3> QED
      BY <3>1, <3>2
  <2>4. Sums(k + 1, s1)
    BY <2>3
  <2>5. \E s2 : Sums(k + 1, s2)
    <3> HIDE DEF Sums, s1
    <3> QED
      BY <2>4
  <2>6. k + 1 \in 0 .. 3 * Nsub
    BY NsubType
  <2> QED
    BY <2>5, <2>6
<1>3. \E s : Sums(3 * Nsub, s)
  <2>1. 3 * Nsub \in Nat /\ 3 * Nsub \in 0 .. 3 * Nsub
    BY NsubType
  <2> HIDE DEF S, Sums
  <2>2. \A k \in 0 .. 3 * Nsub : k \in S
    BY <1>1, <1>2, <2>1, IntervalInduction
  <2>3. 3 * Nsub \in S
    BY <2>1, <2>2
  <2> QED
    BY <2>3 DEF S
<1> DEFINE IsSum(s) == s = [i \in 0 .. (Len(offsets) * Nsub) |->
                            IF i = 0 THEN 0 ELSE s[i - 1] + f[i - 1]]
<1>4. Len(offsets) * Nsub = 3 * Nsub
  BY LineLayout
<1>5. \E s : IsSum(s)
  BY <1>3, <1>4
<1>6. sumSegments(f) = (CHOOSE s : IsSum(s))[Len(offsets) * Nsub]
  BY Zenon DEF sumSegments
<1>7. IsSum(CHOOSE s : IsSum(s))
  BY <1>5, Zenon
<1> QED
  BY <1>4, <1>6, <1>7

\* The partial sums of integers.
LEMMA PartialSumsUnfolded ==
  ASSUME offsets \in Supports, NEW f \in [Segments -> Int]
  PROVE  \E s \in [0 .. 3 * Nsub -> Int] :
           /\ s[0] = 0
           /\ \A i \in 0 .. 3 * Nsub - 1 : s[i + 1] = s[i] + f[i]
           /\ sumSegments(f) = s[3 * Nsub]
<1>1. PICK s : /\ s = [i \in 0 .. 3 * Nsub |-> IF i = 0 THEN 0 ELSE s[i - 1] + f[i - 1]]
               /\ sumSegments(f) = s[3 * Nsub]
  BY PartialSums
<1> DEFINE S == {k \in 0 .. 3 * Nsub : s[k] \in Int}
<1>2. 0 \in S /\ s[0] = 0
  BY <1>1, NsubType
<1>3. ASSUME NEW i \in 0 .. 3 * Nsub - 1 PROVE s[i + 1] = s[i] + f[i]
  <2>1. i + 1 \in 0 .. 3 * Nsub /\ i + 1 # 0 /\ (i + 1) - 1 = i
    BY NsubType
  <2> QED
    BY <1>1, <2>1
<1>4. ASSUME NEW k \in 0 .. 3 * Nsub - 1, k \in S PROVE k + 1 \in S
  <2>1. k + 1 \in 0 .. 3 * Nsub /\ f[k] \in Int
    BY LineLayout, NsubType
  <2> QED
    BY <1>3, <1>4, <2>1
<1>5. 3 * Nsub \in Nat
  BY NsubType
<1> HIDE DEF S
<1>6. \A k \in 0 .. 3 * Nsub : k \in S
  BY <1>2, <1>4, <1>5, IntervalInduction
<1>7. \A k \in 0 .. 3 * Nsub : s[k] \in Int
  BY <1>6 DEF S
<1>8. s \in [0 .. 3 * Nsub -> Int]
  BY <1>1, <1>7
<1> QED
  BY <1>1, <1>2, <1>3, <1>8

LEMMA SumType ==
  ASSUME offsets \in Supports, NEW f \in [Segments -> Int]
  PROVE  sumSegments(f) \in Int
BY PartialSumsUnfolded, NsubType

\* Sums are linear.
Combined(f, a, g, b, h) == \A i \in Segments : f[i] = a * g[i] + b * h[i]

LEMMA SumLinear ==
  ASSUME offsets \in Supports, NEW f \in [Segments -> Int],
         NEW g \in [Segments -> Int], NEW h \in [Segments -> Int],
         NEW a \in Int, NEW b \in Int, Combined(f, a, g, b, h)
  PROVE  sumSegments(f) = a * sumSegments(g) + b * sumSegments(h)
<1>1. PICK sf \in [0 .. 3 * Nsub -> Int] :
           /\ sf[0] = 0
           /\ \A i \in 0 .. 3 * Nsub - 1 : sf[i + 1] = sf[i] + f[i]
           /\ sumSegments(f) = sf[3 * Nsub]
  BY PartialSumsUnfolded
<1>2. PICK sg \in [0 .. 3 * Nsub -> Int] :
           /\ sg[0] = 0
           /\ \A i \in 0 .. 3 * Nsub - 1 : sg[i + 1] = sg[i] + g[i]
           /\ sumSegments(g) = sg[3 * Nsub]
  BY PartialSumsUnfolded
<1>3. PICK sh \in [0 .. 3 * Nsub -> Int] :
           /\ sh[0] = 0
           /\ \A i \in 0 .. 3 * Nsub - 1 : sh[i + 1] = sh[i] + h[i]
           /\ sumSegments(h) = sh[3 * Nsub]
  BY PartialSumsUnfolded
<1> DEFINE S == {k \in 0 .. 3 * Nsub : sf[k] = a * sg[k] + b * sh[k]}
<1>4. 3 * Nsub \in Nat
  BY NsubType
<1>5. 0 \in S
  BY <1>1, <1>2, <1>3, <1>4
<1>6. ASSUME NEW k \in 0 .. 3 * Nsub - 1, k \in S PROVE k + 1 \in S
  <2>1. k \in Segments /\ k \in 0 .. 3 * Nsub /\ k + 1 \in 0 .. 3 * Nsub
    BY LineLayout, NsubType
  <2>2. /\ sf[k] \in Int /\ sg[k] \in Int /\ sh[k] \in Int
        /\ g[k] \in Int /\ h[k] \in Int
    BY <2>1
  <2>3. sf[k + 1] = (a * sg[k] + b * sh[k]) + (a * g[k] + b * h[k])
    BY <1>1, <1>6, <2>1 DEF Combined
  <2> DEFINE x == sg[k]
             y == sh[k]
             u == g[k]
             v == h[k]
  <2>4. x \in Int /\ y \in Int /\ u \in Int /\ v \in Int
    BY <2>2
  <2> HIDE DEF x, y, u, v
  <2>5. (a * x + b * y) + (a * u + b * v) = a * (x + u) + b * (y + v)
    BY <2>4
  <2>6. sf[k + 1] = a * (sg[k] + g[k]) + b * (sh[k] + h[k])
    BY <2>3, <2>5 DEF x, y, u, v
  <2>7. sg[k + 1] = sg[k] + g[k] /\ sh[k + 1] = sh[k] + h[k]
    BY <1>2, <1>3
  <2>8. sf[k + 1] = a * sg[k + 1] + b * sh[k + 1]
    BY <2>6, <2>7
  <2> QED
    BY <2>1, <2>8
<1> HIDE DEF S
<1>7. \A k \in 0 .. 3 * Nsub : k \in S
  BY <1>4, <1>5, <1>6, IntervalInduction
<1>8. 3 * Nsub \in S
  BY <1>4, <1>7
<1> QED
  BY <1>1, <1>2, <1>3, <1>8 DEF S

\* The sum of numbers none of which is negative, and one of which is positive.
LEMMA SumPositive ==
  ASSUME offsets \in Supports, NEW f \in [Segments -> Int],
         \A i \in Segments : f[i] >= 0, NEW p \in Segments, f[p] > 0
  PROVE  sumSegments(f) > 0
<1>1. PICK s \in [0 .. 3 * Nsub -> Int] :
           /\ s[0] = 0
           /\ \A i \in 0 .. 3 * Nsub - 1 : s[i + 1] = s[i] + f[i]
           /\ sumSegments(f) = s[3 * Nsub]
  BY PartialSumsUnfolded
<1> DEFINE S == {k \in 0 .. 3 * Nsub : s[k] >= 0 /\ (p < k => s[k] > 0)}
<1>2. 3 * Nsub \in Nat /\ p \in 0 .. 3 * Nsub - 1
  BY LineLayout, NsubType
<1>3. 0 \in S
  BY <1>1, <1>2
<1>4. ASSUME NEW k \in 0 .. 3 * Nsub - 1, k \in S PROVE k + 1 \in S
  <2>1. k \in Segments /\ k \in 0 .. 3 * Nsub /\ k + 1 \in 0 .. 3 * Nsub
    BY LineLayout, NsubType
  <2>2. f[k] \in Int /\ f[k] >= 0 /\ s[k] \in Int /\ s[k + 1] = s[k] + f[k]
    BY <1>1, <2>1
  <2>3. s[k] >= 0 /\ (p < k => s[k] > 0)
    BY <1>4
  <2>4. p < k + 1 => p < k \/ p = k
    BY <1>2
  <2> QED
    BY <2>1, <2>2, <2>3, <2>4
<1> HIDE DEF S
<1>5. \A k \in 0 .. 3 * Nsub : k \in S
  BY <1>2, <1>3, <1>4, IntervalInduction
<1>6. 3 * Nsub \in S
  BY <1>2, <1>5
<1> QED
  BY <1>1, <1>2, <1>6 DEF S

\* The owner has Nsub segments.
LEMMA SumOfOwner ==
  ASSUME offsets \in Supports
  PROVE  sumSegments([i \in Segments |-> IF relative_offset(i) = 0 THEN 1 ELSE 0]) = Nsub
<1> DEFINE f == [i \in Segments |-> IF relative_offset(i) = 0 THEN 1 ELSE 0]
<1>1. f \in [Segments -> Int]
  OBVIOUS
<1>2. PICK c \in {0, Nsub, 2 * Nsub} : \A i \in Segments :
              relative_offset(i) = 0 <=> c <= i /\ i < c + Nsub
  BY LineLayout
<1>3. \A i \in Segments : f[i] = IF c <= i /\ i < c + Nsub THEN 1 ELSE 0
  BY <1>2
<1> HIDE DEF f
<1>4. PICK s \in [0 .. 3 * Nsub -> Int] :
           /\ s[0] = 0
           /\ \A i \in 0 .. 3 * Nsub - 1 : s[i + 1] = s[i] + f[i]
           /\ sumSegments(f) = s[3 * Nsub]
  BY <1>1, PartialSumsUnfolded
<1> DEFINE S == {k \in 0 .. 3 * Nsub : s[k] = IF k <= c THEN 0
                                              ELSE IF k <= c + Nsub THEN k - c ELSE Nsub}
<1>5. 3 * Nsub \in Nat /\ c \in Nat
  BY NsubType
<1>6. 0 \in S
  BY <1>4, <1>5
<1>7. ASSUME NEW k \in 0 .. 3 * Nsub - 1, k \in S PROVE k + 1 \in S
  <2>1. k \in Segments /\ k \in 0 .. 3 * Nsub /\ k + 1 \in 0 .. 3 * Nsub
    BY LineLayout, NsubType
  <2>2. s[k + 1] = s[k] + f[k]
    BY <1>4
  <2>3. f[k] = IF c <= k /\ k < c + Nsub THEN 1 ELSE 0
    BY <1>3, <2>1
  <2> QED
    BY <1>5, <1>7, <2>1, <2>2, <2>3, NsubType
<1> HIDE DEF S
<1>8. \A k \in 0 .. 3 * Nsub : k \in S
  BY <1>5, <1>6, <1>7, IntervalInduction
<1>9. 3 * Nsub \in S
  BY <1>5, <1>8
<1>10. s[3 * Nsub] = Nsub
  BY <1>2, <1>9, NsubType DEF S
<1> QED
  BY <1>4, <1>10 DEF f

-----------------------------------------------------------------------------
(* A line at its beginning.                                                *)

LEMMA OwnerSegmentsOf ==
  ASSUME offsets \in Supports
  PROVE  /\ \E p \in Segments : relative_offset(p) = 0
         /\ \E p \in Segments : relative_offset(p) # 0
         /\ OwnerSegments = {i \in Segments : relative_offset(i) = 0}
         /\ 0 \in ToSet(offsets)
<1>1. PICK c \in {0, Nsub, 2 * Nsub} : \A i \in Segments :
              relative_offset(i) = 0 <=> c <= i /\ i < c + Nsub
  BY LineLayout
<1>2. c \in Segments /\ relative_offset(c) = 0
  BY <1>1, LineLayout, NsubType
<1>3. \E p \in Segments : ~(c <= p /\ p < c + Nsub)
  <2>1. 0 \in Segments /\ Nsub \in Segments
    BY LineLayout, NsubType
  <2> QED
    BY <2>1, <1>1, NsubType
<1>4. 0 \in ToSet(offsets)
  BY <1>2, Centres
<1> QED
  BY <1>1, <1>2, <1>3, <1>4 DEF OwnerSegments

\* Sums over the owner and over the rest are sums of integers.
LEMMA SideSums ==
  ASSUME offsets \in Supports, NEW f,
         \A i \in Segments : relative_offset(i) # 0 => f[i] \in Int
  PROVE  /\ sumSide(f) \in Int
         /\ (\A i \in Segments : relative_offset(i) # 0 => f[i] > 0) => sumSide(f) > 0
<1> DEFINE g == [i \in Segments |-> IF relative_offset(i) = 0 THEN 0 ELSE f[i]]
<1>1. g \in [Segments -> Int]
  OBVIOUS
<1>2. sumSide(f) = sumSegments(g)
  BY DEF sumSide
<1>3. ASSUME \A i \in Segments : relative_offset(i) # 0 => f[i] > 0
      PROVE  sumSegments(g) > 0
  <2>1. PICK p \in Segments : relative_offset(p) # 0
    BY OwnerSegmentsOf
  <2>2. g[p] > 0 /\ \A i \in Segments : g[i] >= 0
    BY <1>3, <2>1
  <2> HIDE DEF g
  <2> QED
    BY <1>1, <2>1, <2>2, SumPositive
<1> QED
  BY <1>1, <1>2, <1>3, SumType

LEMMA AbsProduct ==
  /\ \A x \in Int : abs(x) \in Nat /\ (x # 0 => abs(x) > 0)
  /\ \A x, y \in Int : abs(x * y) = abs(x) * abs(y)
<1>1. \A x \in Int : abs(x) \in Nat /\ (x # 0 => abs(x) > 0)
  BY DEF abs
<1>2. ASSUME NEW x \in Int, NEW y \in Int PROVE abs(x * y) = abs(x) * abs(y)
  <2>1. CASE x >= 0 /\ y >= 0
    BY <2>1 DEF abs
  <2>2. CASE x >= 0 /\ y < 0
    <3>1. x * y <= 0 /\ x * (-y) = -(x * y)
      BY <2>2
    <3> QED
      BY <2>2, <3>1 DEF abs
  <2>3. CASE x < 0 /\ y >= 0
    <3>1. x * y <= 0 /\ (-x) * y = -(x * y)
      BY <2>3
    <3> QED
      BY <2>3, <3>1 DEF abs
  <2>4. CASE x < 0 /\ y < 0
    <3>1. x * y > 0 /\ (-x) * (-y) = x * y
      BY <2>4
    <3> QED
      BY <2>4, <3>1 DEF abs
  <2> QED
    BY <2>1, <2>2, <2>3, <2>4
<1> QED
  BY <1>1, <1>2

\* Quotients are ordered: comparing them crosswise is transitive.
LEMMA CrosswiseTransitive ==
  ASSUME NEW a \in Nat, NEW b \in Nat, NEW c \in Nat,
         NEW p \in Nat, NEW q \in Nat, NEW r \in Nat, q > 0,
         a * q >= b * p, b * r >= c * q
  PROVE  a * r >= c * p
<1>1. (a * q) * r >= (b * p) * r
  OBVIOUS
<1>2. (b * r) * p >= (c * q) * p
  OBVIOUS
<1>3. (b * p) * r = (b * r) * p /\ (a * q) * r = (a * r) * q /\ (c * q) * p = (c * p) * q
  OBVIOUS
<1>4. (a * r) * q >= (c * p) * q
  BY <1>1, <1>2, <1>3
<1>5. a * r \in Int /\ c * p \in Int
  OBVIOUS
<1>6. \A x, y \in Int : x * q >= y * q => x >= y
  OBVIOUS
<1> QED
  BY <1>4, <1>5, <1>6

\* Beside the owner there is a segment at which a line through the owner's
\* centre is steepest.
LEMMA SteepestExists ==
  ASSUME offsets \in Supports, NEW side \in [Segments \ OwnerSegments -> Int]
  PROVE  \E i \in DOMAIN side : \A j \in DOMAIN side :
            abs(side[i] * s_center(j)) >= abs(side[j] * s_center(i))
<1> DEFINE D == Segments \ OwnerSegments
           A == [i \in D |-> abs(side[i])]
           B == [i \in D |-> abs(s_center(i))]
           Best(i, k) == \A j \in D : j < k => A[i] * B[j] >= A[j] * B[i]
           S == {k \in 0 .. 3 * Nsub : (\E j \in D : j < k) => \E i \in D : i < k /\ Best(i, k)}
<1>1. A \in [D -> Nat] /\ B \in [D -> Nat] /\ \A i \in D : B[i] > 0
  <2>1. \A i \in D : s_center(i) \in Int /\ s_center(i) # 0 /\ side[i] \in Int
    BY Centres, OwnerSegmentsOf
  <2> QED
    BY <2>1, AbsProduct
<1>2. ASSUME NEW i \in D, NEW j \in D
      PROVE  abs(side[i] * s_center(j)) = A[i] * B[j]
  <2>1. s_center(j) \in Int /\ side[i] \in Int
    BY Centres
  <2> QED
    BY <2>1, AbsProduct
<1>3. 3 * Nsub \in Nat /\ D \subseteq 0 .. 3 * Nsub - 1
  BY LineLayout, NsubType
<1> HIDE DEF D, A, B
<1>4. 0 \in S
  BY <1>3
<1>5. ASSUME NEW k \in 0 .. 3 * Nsub - 1, k \in S PROVE k + 1 \in S
  <2>1. k + 1 \in 0 .. 3 * Nsub /\ \A j \in D : j < k + 1 <=> j < k \/ j = k
    BY <1>3
  <2>2. CASE k \notin D
    <3>1. \A j \in D : j < k + 1 <=> j < k
      BY <2>1, <2>2
    <3> QED
      BY <1>5, <2>1, <3>1
  <2>3. CASE k \in D /\ ~\E j \in D : j < k
    <3>1. \A j \in D : j < k + 1 => j = k
      BY <2>1, <2>3
    <3>2. A[k] * B[k] >= A[k] * B[k]
      BY <1>1, <2>3
    <3>3. Best(k, k + 1) /\ k < k + 1
      BY <1>3, <2>3, <3>1, <3>2
    <3> QED
      BY <2>1, <2>3, <3>3
  <2>4. CASE k \in D /\ \E j \in D : j < k
    <3>1. PICK i \in D : i < k /\ Best(i, k)
      BY <1>5, <2>4
    <3>2. /\ A[i] \in Nat /\ B[i] \in Nat /\ B[i] > 0
          /\ A[k] \in Nat /\ B[k] \in Nat /\ B[k] > 0
      BY <1>1, <2>4
    <3>3. CASE A[i] * B[k] >= A[k] * B[i]
      <4>1. Best(i, k + 1) /\ i < k + 1
        BY <1>3, <2>1, <3>1, <3>3
      <4> QED
        BY <2>1, <4>1
    <3>4. CASE A[k] * B[i] >= A[i] * B[k]
      <4>1. ASSUME NEW j \in D, j < k + 1 PROVE A[k] * B[j] >= A[j] * B[k]
        <5>1. CASE j = k
          BY <3>2, <5>1
        <5>2. CASE j < k
          <6>1. A[i] * B[j] >= A[j] * B[i] /\ A[j] \in Nat /\ B[j] \in Nat
            BY <1>1, <3>1, <5>2
          <6> QED
            BY <3>2, <3>4, <6>1, CrosswiseTransitive
        <5> QED
          BY <2>1, <4>1, <5>1, <5>2
      <4>2. Best(k, k + 1) /\ k < k + 1
        BY <1>3, <2>4, <4>1
      <4> QED
        BY <2>1, <2>4, <4>2
    <3>5. A[i] * B[k] \in Int /\ A[k] * B[i] \in Int
      BY <3>2
    <3> QED
      BY <3>3, <3>4, <3>5
  <2> QED
    BY <2>2, <2>3, <2>4
<1>6. \A k \in 0 .. 3 * Nsub : k \in S
  <2> HIDE DEF S
  <2> QED
    BY <1>3, <1>4, <1>5, IntervalInduction
<1>7. 3 * Nsub \in S /\ \A j \in D : j < 3 * Nsub
  BY <1>3, <1>6
<1>8. \E j \in D : TRUE
  BY OwnerSegmentsOf DEF D
<1>9. PICK i \in D : Best(i, 3 * Nsub)
  BY <1>7, <1>8
<1>10. \A j \in D : A[i] * B[j] >= A[j] * B[i]
  BY <1>7, <1>9
<1> QED
  BY <1>2, <1>10 DEF D

LEMMA OneSidedSlopeType ==
  ASSUME offsets \in Supports, NEW side \in [Segments \ OwnerSegments -> Int]
  PROVE  /\ OneSidedSlope(side)[1] \in Int
         /\ OneSidedSlope(side)[2] \in Int /\ OneSidedSlope(side)[2] > 0
<1> DEFINE f == [i \in DOMAIN side |-> s_center(i) * side[i]]
           g == [i \in DOMAIN side |-> s_center(i) * s_center(i)]
           steepest == CHOOSE i \in DOMAIN side : \A j \in DOMAIN side :
                        abs(side[i] * s_center(j)) >= abs(side[j] * s_center(i))
<1>1. \A x \in Int : x # 0 => x * x \in Int /\ x * x > 0
  OBVIOUS
<1>2. ASSUME NEW i \in DOMAIN side
      PROVE  s_center(i) \in Int /\ s_center(i) # 0 /\ side[i] \in Int
  BY Centres, OwnerSegmentsOf
<1>3. \A i \in DOMAIN side : f[i] \in Int /\ g[i] \in Int /\ g[i] > 0
  <2>1. \A x, y \in Int : x * y \in Int
    OBVIOUS
  <2> QED
    BY <1>1, <1>2, <2>1
<1>4. \A i \in Segments : relative_offset(i) # 0 => i \in DOMAIN side
  BY OwnerSegmentsOf
<1>5. steepest \in DOMAIN side
  BY SteepestExists, Zenon
<1>6. OneSidedSlope(side) =
        IF sumSide(f) # 0 THEN <<sumSide(f), sumSide(g)>>
        ELSE <<side[steepest] * s_center(steepest), s_center(steepest) * s_center(steepest)>>
  BY Zenon DEF OneSidedSlope
<1>7. /\ side[steepest] * s_center(steepest) \in Int
      /\ s_center(steepest) * s_center(steepest) \in Int
      /\ s_center(steepest) * s_center(steepest) > 0
  <2> HIDE DEF steepest
  <2>1. s_center(steepest) \in Int /\ s_center(steepest) # 0 /\ side[steepest] \in Int
    BY <1>2, <1>5
  <2> QED
    BY <1>1, <2>1
<1> HIDE DEF f, g, steepest
<1>8. sumSide(f) \in Int /\ sumSide(g) \in Int /\ sumSide(g) > 0
  BY <1>3, <1>4, SideSums
<1> QED
  BY <1>6, <1>7, <1>8

-----------------------------------------------------------------------------
\* The extrema of the averages of the support are numbers.
LEMMA ExtremaType ==
  ASSUME offsets \in Supports, NEW at \in [ToSet(offsets) -> Int]
  PROVE  Min(Range(at)) \in Int /\ Max(Range(at)) \in Int
<1>1. PICK x \in Int, y \in Int, z \in Int : Range(at) = {x, y, z}
  <2>1. ToSet(offsets) = {offsets[1], offsets[2], offsets[3]}
    BY LineLayout
  <2> HIDE DEF Range
  <2>2. /\ at[offsets[1]] \in Int /\ at[offsets[2]] \in Int /\ at[offsets[3]] \in Int
    BY <2>1
  <2>3. Range(at) = {at[offsets[1]], at[offsets[2]], at[offsets[3]]}
    BY <2>1 DEF Range
  <2> QED
    BY <2>2, <2>3
<1>2. \E m \in {x, y, z} : \A v \in {x, y, z} : m =< v
  BY <1>1
<1>3. \E m \in {x, y, z} : \A v \in {x, y, z} : m >= v
  BY <1>1
<1>4. (CHOOSE m \in {x, y, z} : \A v \in {x, y, z} : m =< v) \in {x, y, z}
  BY <1>2, Zenon
<1>5. (CHOOSE m \in {x, y, z} : \A v \in {x, y, z} : m >= v) \in {x, y, z}
  BY <1>3, Zenon
<1>6. Min({x, y, z}) \in {x, y, z} /\ Max({x, y, z}) \in {x, y, z}
  BY <1>4, <1>5, Zenon DEF Min, Max
<1> QED
  BY <1>1, <1>6

LEMMA SlopesType ==
  ASSUME offsets \in Supports, NEW at \in [ToSet(offsets) -> Int]
  PROVE  /\ slopes(at)[1] \in Int
         /\ slopes(at)[2] \in Int /\ slopes(at)[2] > 0
<1>1. 0 \in ToSet(offsets) /\ at[0] \in Int
  BY OwnerSegmentsOf
<1>2. CASE {-1, 1} \subseteq DOMAIN at
  <2>1. at[-1] \in Int /\ at[1] \in Int
    BY <1>2
  <2>2. computeLimitedSlope(at[-1], at[0], at[1]) \in Int
    BY <1>1, <2>1 DEF computeLimitedSlope
  <2>3. slopes(at) = <<computeLimitedSlope(at[-1], at[0], at[1]), 2 * Nsub>>
    BY <1>2 DEF slopes
  <2>4. slopes(at)[1] = computeLimitedSlope(at[-1], at[0], at[1]) /\ slopes(at)[2] = 2 * Nsub
    BY <2>3
  <2> QED
    BY <2>2, <2>4, NsubType
<1>3. CASE ~({-1, 1} \subseteq DOMAIN at)
  <2> DEFINE side == [i \in Segments \ OwnerSegments |-> at[relative_offset(i)] - at[0]]
  <2>1. ASSUME NEW i \in Segments \ OwnerSegments
        PROVE  at[relative_offset(i)] - at[0] \in Int
    <3>1. relative_offset(i) \in ToSet(offsets)
      BY Centres
    <3> QED
      BY <1>1, <3>1
  <2>2. side \in [Segments \ OwnerSegments -> Int]
    BY <2>1
  <2>3. slopes(at) = OneSidedSlope(side)
    BY <1>3 DEF slopes
  <2> HIDE DEF side
  <2> QED
    BY <2>2, <2>3, OneSidedSlopeType
<1> QED
  BY <1>2, <1>3

LEMMA InitialUnitType ==
  ASSUME offsets \in Supports
  PROVE  InitialUnit \in Int /\ InitialUnit > 0
<1>1. CASE {-1, 1} \subseteq ToSet(offsets)
  BY <1>1, NsubType DEF InitialUnit
<1>2. CASE ~({-1, 1} \subseteq ToSet(offsets))
  <2> DEFINE g == [i \in Segments |-> s_center(i) * s_center(i)]
  <2>1. InitialUnit = sumSide(g)
    BY <1>2 DEF InitialUnit
  <2>2. \A x \in Int : x * x \in Int /\ (x # 0 => x * x > 0)
    OBVIOUS
  <2>3. \A i \in Segments : relative_offset(i) # 0 => g[i] \in Int /\ g[i] > 0
    BY <2>2, Centres
  <2> HIDE DEF g
  <2> QED
    BY <2>1, <2>3, SideSums
<1> QED
  BY <1>1, <1>2

\* The owner's segments begin with the owner's average.
LEMMA ReconstructedType ==
  ASSUME offsets \in Supports, NEW at \in [ToSet(offsets) -> Int]
  PROVE  /\ Reconstructed(at) \in [Segments -> Int]
         /\ \A i \in Segments : relative_offset(i) = 0 => Reconstructed(at)[i] = at[0] * InitialUnit
<1> DEFINE slope == slopes(at)
           qmin == Min(Range(at)) * InitialUnit
           qmax == Max(Range(at)) * InitialUnit
           q0 == at[0] * InitialUnit
           v(i) == clamp(q0 + ((InitialUnit * slope[1] * s_center(i)) \div slope[2]), qmin, qmax)
<1>1. at[0] \in Int
  BY OwnerSegmentsOf
<1>2. \A x, y \in Int : x * y \in Int
  OBVIOUS
<1>3. qmin \in Int /\ qmax \in Int /\ q0 \in Int
  BY <1>1, <1>2, ExtremaType, InitialUnitType
<1>4. slope[1] \in Int /\ slope[2] \in Int /\ slope[2] > 0
  BY SlopesType
<1>5. Reconstructed(at) = [i \in Segments |-> IF i \in OwnerSegments THEN q0 ELSE v(i)]
  BY Zenon DEF Reconstructed
<1> HIDE DEF slope, qmin, qmax, q0
<1>6. ASSUME NEW i \in Segments PROVE v(i) \in Int
  <2> DEFINE p == InitialUnit * slope[1] * s_center(i)
  <2>1. p \in Int
    BY <1>2, <1>4, InitialUnitType, Centres
  <2> HIDE DEF p
  <2>2. q0 + (p \div slope[2]) \in Int
    BY <1>3, <1>4, <2>1
  <2>3. clamp(q0 + (p \div slope[2]), qmin, qmax) \in Int
    BY <1>3, <2>2 DEF clamp
  <2> QED
    BY <2>3 DEF p
<1> HIDE DEF v
<1>7. OwnerSegments = {i \in Segments : relative_offset(i) = 0}
  BY OwnerSegmentsOf
<1> QED
  BY <1>3, <1>5, <1>6, <1>7 DEF q0

-----------------------------------------------------------------------------
(* The invariant of a line.  The owner's mean is spelled with operators of  *)
(* the offsets and the line, for these can be taken from a state and its    *)
(* successor alike.                                                         *)

Owned(o, i) == o[(i \div Nsub) + 1] = 0

\* One component of the states in the owner, zero elsewhere.
OwnerPart(o, f, n) == [i \in 0 .. 3 * Nsub - 1 |-> IF Owned(o, i) THEN f[i][n] ELSE 0]

PartialSum(f, m) ==
    LET sum[i \in 0..m] == IF i = 0 THEN 0 ELSE sum[i - 1] + f[i - 1]
    IN  sum[m]

MeanOf(o, f, n) == PartialSum(OwnerPart(o, f, n), 3 * Nsub)

States == [0 .. 3 * Nsub - 1 -> [Components -> Int]]

LineTypeInv ==
  /\ offsets \in Supports
  /\ target \in HostCells
  /\ unit \in Int /\ unit > 0
  /\ line # <<>> => line \in States
  /\ calls \in Nat

MeanInv ==
  line # <<>> /\ since = {} =>
    \A n \in Components : MeanOf(offsets, line, n) = target[n] * unit * Nsub

AdmissibleInv ==
  calls > 0 => line # <<>> /\ ("diffusion" \notin since => AllAdmissible(line))

ReserveInv == \A s \in reserve : s \in Speeds /\ CanAfford(line, s)

FailInv == failed => line # <<>> /\ RecoveryFailsLate

LineIInv == LineTypeInv /\ MeanInv /\ AdmissibleInv /\ ReserveInv /\ FailInv

LEMMA MeanUnfolded ==
  ASSUME offsets \in Supports, NEW f \in States, NEW n \in Components
  PROVE  /\ OwnerPart(offsets, f, n) \in [Segments -> Int]
         /\ OwnerPart(offsets, f, n) =
              [i \in Segments |-> IF relative_offset(i) = 0 THEN f[i][n] ELSE 0]
         /\ MeanOf(offsets, f, n) = sumSegments(OwnerPart(offsets, f, n))
         /\ MeanOf(offsets, f, n) \in Int
         /\ ownerMean(f)[n] = MeanOf(offsets, f, n)
<1>1. Segments = 0 .. 3 * Nsub - 1 /\ Len(offsets) * Nsub = 3 * Nsub
  BY LineLayout
<1>2. OwnerPart(offsets, f, n) =
              [i \in Segments |-> IF relative_offset(i) = 0 THEN f[i][n] ELSE 0]
  BY <1>1 DEF OwnerPart, Owned, relative_offset
<1>3. OwnerPart(offsets, f, n) \in [Segments -> Int]
  BY <1>1, <1>2 DEF States
<1>4. \A g : sumSegments(g) = PartialSum(g, Len(offsets) * Nsub)
  BY Zenon DEF sumSegments, PartialSum
<1>5. MeanOf(offsets, f, n) = sumSegments(OwnerPart(offsets, f, n))
  BY <1>1, <1>4 DEF MeanOf
<1> DEFINE h == [i \in Segments |-> f[i][n]]
<1>6. ownerMean(f)[n] = sumOwner(h)
  BY DEF ownerMean
<1>7. sumOwner(h) = sumSegments(OwnerPart(offsets, f, n))
  <2>1. sumOwner(h) = sumSegments([i \in Segments |-> IF relative_offset(i) = 0 THEN h[i] ELSE 0])
    BY DEF sumOwner
  <2>2. [i \in Segments |-> IF relative_offset(i) = 0 THEN h[i] ELSE 0] = OwnerPart(offsets, f, n)
    BY <1>2
  <2> QED
    BY <2>1, <2>2
<1> QED
  BY <1>2, <1>3, <1>5, <1>6, <1>7, SumType

\* What is affine in every segment of the owner is affine in the mean.
AffineInOwner(g, n, a, b, f) ==
    \A i \in Segments : relative_offset(i) = 0 => g[i][n] = a + b * f[i][n]

LEMMA AffineMean ==
  ASSUME offsets \in Supports, NEW f \in States, NEW g \in States, NEW n \in Components,
         NEW a \in Int, NEW b \in Int, AffineInOwner(g, n, a, b, f)
  PROVE  MeanOf(offsets, g, n) = a * Nsub + b * MeanOf(offsets, f, n)
<1> DEFINE chi == [i \in Segments |-> IF relative_offset(i) = 0 THEN 1 ELSE 0]
           F == OwnerPart(offsets, f, n)
           G == OwnerPart(offsets, g, n)
<1>1. /\ F \in [Segments -> Int] /\ G \in [Segments -> Int] /\ chi \in [Segments -> Int]
      /\ F = [i \in Segments |-> IF relative_offset(i) = 0 THEN f[i][n] ELSE 0]
      /\ G = [i \in Segments |-> IF relative_offset(i) = 0 THEN g[i][n] ELSE 0]
      /\ MeanOf(offsets, f, n) = sumSegments(F)
      /\ MeanOf(offsets, g, n) = sumSegments(G)
  BY MeanUnfolded
<1>2. sumSegments(chi) = Nsub
  BY SumOfOwner
<1>3. chi = [i \in Segments |-> IF relative_offset(i) = 0 THEN 1 ELSE 0]
  OBVIOUS
<1> HIDE DEF chi, F, G
<1>4. ASSUME NEW i \in Segments PROVE G[i] = a * chi[i] + b * F[i]
  <2>1. CASE relative_offset(i) = 0
    BY <1>1, <1>3, <2>1 DEF AffineInOwner
  <2>2. CASE relative_offset(i) # 0
    <3>1. G[i] = 0 /\ chi[i] = 0 /\ F[i] = 0
      BY <1>1, <1>3, <2>2
    <3> QED
      BY <3>1
  <2> QED
    BY <2>1, <2>2
<1>5. sumSegments(G) = a * sumSegments(chi) + b * sumSegments(F)
  <2>1. Combined(G, a, chi, b, F)
    BY <1>4 DEF Combined
  <2> QED
    BY <1>1, <2>1, SumLinear
<1> QED
  BY <1>1, <1>2, <1>5

-----------------------------------------------------------------------------
(* The search for alpha.                                                   *)

LEMMA LeastOf ==
  ASSUME NEW A \in SUBSET Nat, A # {}
  PROVE  \E k \in A : \A j \in A : k =< j
<1> DEFINE R == {ss \in Nat \X Nat : ss[1] < ss[2]}
<1>1. IsWellFoundedOn(R, Nat)
  <2>1. OpToRel(<, Nat) = R
    BY Zenon DEF OpToRel
  <2> QED
    BY <2>1, NatLessThanWellFounded, Zenon
<1>2. PICK k \in A : \A j \in A : <<j, k>> \notin R
  <2> HIDE DEF R
  <2> QED
    BY <1>1, WFMin, Zenon
<1>3. ASSUME NEW j \in A PROVE k =< j
  <2>1. j \in Nat /\ k \in Nat /\ <<j, k>> \notin R
    BY <1>2
  <2> QED
    BY <2>1
<1> QED
  BY <1>3

LEMMA AcceptedHasMin ==
  ASSUME NEW average
  PROVE  /\ accepted(average) \subseteq Nat
         /\ accepted(average) # {} => Min(accepted(average)) \in accepted(average)
<1> DEFINE A == accepted(average)
<1>1. A \in SUBSET Nat
  BY BoundsAssumption DEF accepted
<1> HIDE DEF A
<1>2. A # {} => Min(A) \in A
  BY <1>1, LeastOf, Zenon DEF Min
<1> QED
  BY <1>1, <1>2 DEF A

LEMMA PowerType ==
  ASSUME NEW k \in Nat PROVE 2^k \in Int
OBVIOUS

\* An admissible trial: its owner has the new average over the new unit, which
\* is positive because the densities are.
LEMMA TrialMean ==
  ASSUME LineTypeInv, line # <<>>, NEW average \in HostCells, NEW k \in Nat
  PROVE  /\ make_trial(average, k) \in States
         /\ unit * Nsub * 2^k \in Int
         /\ \A n \in Components : MeanOf(offsets, make_trial(average, k), n) =
                                    average[n] * (unit * Nsub * 2^k) * Nsub
<1> DEFINE u == unit * Nsub * 2^k
           new == make_trial(average, k)
           mean == ownerMean(line)
           e(i, n) == average[n] * unit * Nsub * 2^k + Nsub * line[i][n] - mean[n]
<1>1. line \in States /\ offsets \in Supports /\ unit \in Int
  BY DEF LineTypeInv
<1>2. Segments = 0 .. 3 * Nsub - 1
  BY <1>1, LineLayout
<1>3. \A x, y \in Int : x * y \in Int
  OBVIOUS
<1>4. u \in Int
  <2>1. unit * Nsub \in Int
    BY <1>1, <1>3, NsubType
  <2> QED
    BY <1>3, <2>1, PowerType
<1>5. \A n \in Components : average[n] \in Int /\ mean[n] \in Int /\ mean[n] = MeanOf(offsets, line, n)
  BY <1>1, MeanUnfolded, HostCellsAssumption
<1>6. new = [i \in Segments |-> [n \in Components |-> e(i, n)]]
  BY Zenon DEF make_trial
<1>7. ASSUME NEW n \in Components
      PROVE  average[n] * unit * Nsub * 2^k = average[n] * u
  <2> DEFINE p == 2^k
             x == average[n]
  <2>1. p \in Int /\ x \in Int
    BY <1>5, PowerType
  <2> HIDE DEF p, x
  <2>2. x * unit * Nsub * p = x * (unit * Nsub * p)
    BY <1>1, <2>1, NsubType
  <2> QED
    BY <2>2 DEF p, x
<1> HIDE DEF u
<1>8. ASSUME NEW i \in Segments, NEW n \in Components
      PROVE  /\ new[i][n] = average[n] * u + Nsub * line[i][n] - mean[n]
             /\ new[i][n] \in Int
  <2>1. line[i][n] \in Int
    BY <1>1, <1>2 DEF States
  <2>2. new[i][n] = average[n] * unit * Nsub * 2^k + Nsub * line[i][n] - mean[n]
    <3>1. e(i, n) = average[n] * unit * Nsub * 2^k + Nsub * line[i][n] - mean[n]
      OBVIOUS
    <3> HIDE DEF e, new, mean
    <3>2. new[i][n] = e(i, n)
      BY <1>6
    <3> QED
      BY <3>1, <3>2
  <2> HIDE DEF mean, new, e
  <2>3. new[i][n] = average[n] * u + Nsub * line[i][n] - mean[n]
    BY <1>7, <2>2
  <2>4. average[n] * u \in Int /\ Nsub * line[i][n] \in Int
    BY <1>3, <1>4, <1>5, <2>1, NsubType
  <2> QED
    BY <1>5, <2>3, <2>4
<1> HIDE DEF new, mean, e
<1>9. new \in States
  <2>1. ASSUME NEW i \in Segments, NEW n \in Components PROVE e(i, n) \in Int
    <3>1. new[i][n] = e(i, n)
      BY <1>6
    <3> QED
      BY <1>8, <3>1
  <2> QED
    BY <1>2, <1>6, <2>1 DEF States
<1>10. ASSUME NEW n \in Components
       PROVE  MeanOf(offsets, new, n) = average[n] * u * Nsub
  <2> DEFINE a == average[n] * u - mean[n]
  <2>1. a \in Int /\ average[n] * u \in Int
    BY <1>3, <1>4, <1>5
  <2>2. \A i \in Segments : new[i][n] = a + Nsub * line[i][n]
    <3> TAKE i \in Segments
    <3>1. line[i][n] \in Int
      BY <1>1, <1>2 DEF States
    <3>2. Nsub * line[i][n] \in Int
      BY <1>3, <3>1, NsubType
    <3> QED
      BY <1>5, <1>8, <2>1, <3>2
  <2> HIDE DEF a
  <2>3. MeanOf(offsets, new, n) = a * Nsub + Nsub * MeanOf(offsets, line, n)
    <3>1. AffineInOwner(new, n, a, Nsub, line)
      BY <2>2 DEF AffineInOwner
    <3> QED
      BY <1>1, <1>9, <2>1, <3>1, NsubType, AffineMean
  <2> DEFINE x == average[n] * u
             m == mean[n]
  <2>4. x \in Int /\ m \in Int /\ a = x - m /\ m = MeanOf(offsets, line, n)
    BY <1>5, <2>1 DEF a
  <2> HIDE DEF x, m
  <2>5. MeanOf(offsets, new, n) = x * Nsub
    BY <2>3, <2>4, NsubType
  <2> QED
    BY <2>5 DEF x
<1> QED
  BY <1>4, <1>9, <1>10 DEF u, new

\* A line that is admissible everywhere has a positive density in its owner.
LEMMA MeanPositive ==
  ASSUME offsets \in Supports, NEW f \in States, AllAdmissible(f)
  PROVE  MeanOf(offsets, f, 1) > 0
<1> DEFINE F == OwnerPart(offsets, f, 1)
<1>1. 1 \in Components
  BY DEF Components
<1>2. /\ F \in [Segments -> Int]
      /\ F = [i \in Segments |-> IF relative_offset(i) = 0 THEN f[i][1] ELSE 0]
      /\ MeanOf(offsets, f, 1) = sumSegments(F)
  BY <1>1, MeanUnfolded
<1>3. \A i \in Segments : f[i][1] > 0 /\ f[i][1] \in Int
  BY <1>1, LineLayout DEF AllAdmissible, isAdmissible, recoverable, States
<1>4. PICK p \in Segments : relative_offset(p) = 0
  BY OwnerSegmentsOf
<1> HIDE DEF F
<1>5. F[p] > 0 /\ \A i \in Segments : F[i] >= 0
  BY <1>2, <1>3, <1>4
<1> QED
  BY <1>2, <1>5, SumPositive

\* An admissible state stays admissible when its values are scaled.
LEMMA AdmissibleScaled ==
  ASSUME NEW q \in [Components -> Int], isAdmissible(q), NEW c \in Int, c > 0
  PROVE  isAdmissible([n \in Components |-> q[n] * c])
<1> DEFINE r == q[1]
           m == q[2]
           e == q[3]
           y == q[4]
<1>1. r \in Int /\ m \in Int /\ e \in Int /\ y \in Int
  BY DEF Components
<1>2. r > 0 /\ y >= 0 /\ 2 * r * e > m * m
  BY DEF isAdmissible, recoverable
<1> DEFINE s == [n \in Components |-> q[n] * c]
<1>3. s[1] = r * c /\ s[2] = m * c /\ s[3] = e * c /\ s[4] = y * c
  BY DEF Components
<1> HIDE DEF r, m, e, y, s
<1>4. r * c > 0 /\ y * c >= 0
  BY <1>1, <1>2
<1>5. 2 * (r * c) * (e * c) > (m * c) * (m * c)
  <2> DEFINE A == 2 * r * e
             B == m * m
             C == c * c
  <2>1. A \in Int /\ B \in Int /\ C \in Int /\ C > 0
    BY <1>1
  <2>2. 2 * (r * c) * (e * c) = A * C /\ (m * c) * (m * c) = B * C
    BY <1>1
  <2>3. A > B
    BY <1>2
  <2> HIDE DEF A, B, C
  <2>4. A * C > B * C
    BY <2>1, <2>3
  <2> QED
    BY <2>2, <2>4
<1>6. isAdmissible(s)
  BY <1>3, <1>4, <1>5 DEF isAdmissible, recoverable
<1> QED
  BY <1>6 DEF s

-----------------------------------------------------------------------------
(* The actions.                                                            *)

\* The map sends an interval into itself.
LEMMA MapInside ==
  ASSUME NEW cells \in Nat, NEW iv \in Proposals(cells, 3), NEW i \in iv.lo .. iv.hi
  PROVE  /\ iv.lo \in Int /\ iv.hi \in Int
         /\ iv.lo + MappedSource(i - iv.lo, IntervalSize(iv)) \in 0 .. cells - 1
<1>1. /\ iv.lo \in 0 .. cells - 1 /\ iv.hi \in 0 .. cells - 1
      /\ IntervalSize(iv) % 3 = 0 /\ IntervalSize(iv) = iv.hi - iv.lo + 1
      /\ iv.lo =< iv.hi
  BY DEF Proposals, ValidInterval, IntervalSize
<1> DEFINE size == IntervalSize(iv)
           j == i - iv.lo
<1>2. size \in Nat /\ size % 3 = 0 /\ j \in 0 .. size - 1
  BY <1>1
<1> HIDE DEF size, j
<1>3. MappedSource(j, size) \in 0 .. size - 1
  <2> DEFINE m == size \div 3
  <2>1. m \in Nat /\ size = 3 * m
    BY <1>2
  <2>2. MappedSource(j, size) =
          IF j < m THEN 3 * j
          ELSE IF j =< 2 * m - 1 THEN 3 * (m - 1 - (j - m)) + 1
          ELSE 3 * (j - 2 * m) + 2
    BY <1>2, <2>1 DEF MappedSource
  <2> HIDE DEF m
  <2> QED
    BY <1>2, <2>1, <2>2
<1> QED
  BY <1>1, <1>3 DEF size, j

LEMMA SegmentsCounted ==
  ASSUME offsets \in Supports PROVE Cardinality(Segments) = 3 * Nsub
<1>1. Segments = 0 .. 3 * Nsub - 1 /\ 3 * Nsub - 1 \in Int /\ 3 * Nsub \in Int
  BY LineLayout, NsubType
<1>2. Cardinality(0 .. 3 * Nsub - 1) = 3 * Nsub
  BY <1>1, FS_Interval, NsubType
<1> QED
  BY <1>1, <1>2

\* An eddy puts states of the line in other places.
LEMMA EddyMoves ==
  ASSUME offsets \in Supports, line \in States,
         NEW iv \in Proposals(Cardinality(Segments), 3)
  PROVE  /\ ApplyPermutation(line, iv) \in States
         /\ AllAdmissible(line) => AllAdmissible(ApplyPermutation(line, iv))
         /\ \A s : CanAfford(line, s) => CanAfford(ApplyPermutation(line, iv), s)
<1> DEFINE S == 0 .. 3 * Nsub - 1
           new == ApplyPermutation(line, iv)
           src(i) == IF i \in iv.lo .. iv.hi
                     THEN iv.lo + MappedSource(i - iv.lo, IntervalSize(iv)) ELSE i
<1>1. 3 * Nsub \in Nat /\ iv \in Proposals(3 * Nsub, 3)
  BY SegmentsCounted, NsubType
<1>2. DOMAIN line = S
  BY DEF States
<1>3. ASSUME NEW i \in S PROVE src(i) \in S
  BY <1>1, MapInside
<1>4. new = [i \in S |-> line[src(i)]]
  <2>1. \A i \in S : line[src(i)] =
          IF i \in iv.lo .. iv.hi
          THEN line[iv.lo + MappedSource(i - iv.lo, IntervalSize(iv))] ELSE line[i]
    OBVIOUS
  <2>2. new = [i \in S |-> IF i \in iv.lo .. iv.hi
          THEN line[iv.lo + MappedSource(i - iv.lo, IntervalSize(iv))] ELSE line[i]]
    BY <1>2 DEF ApplyPermutation
  <2> HIDE DEF src
  <2> QED
    BY <2>1, <2>2
<1> HIDE DEF src, new, S
<1>5. \A i \in S : new[i] = line[src(i)] /\ src(i) \in S
  BY <1>3, <1>4
<1>6. new \in States
  <2>1. States = [S -> [Components -> Int]]
    BY DEF States, S
  <2> QED
    BY <1>4, <1>5, <2>1
<1>7. AllAdmissible(line) => AllAdmissible(new)
  BY <1>2, <1>4, <1>5 DEF AllAdmissible
<1>8. ASSUME NEW s, CanAfford(line, s) PROVE CanAfford(new, s)
  BY <1>2, <1>4, <1>5, <1>8 DEF CanAfford
<1> QED
  BY <1>6, <1>7, <1>8 DEF new

LEMMA NotEmpty ==
  ASSUME NEW f \in States PROVE f # <<>>
<1>1. 0 \in DOMAIN f
  BY NsubType DEF States
<1> QED
  BY <1>1

LEMMA LineInit == Init => LineIInv
BY DEF Init, LineIInv, LineTypeInv, MeanInv, AdmissibleInv, ReserveInv, FailInv

LEMMA LineStart == LineIInv /\ initializeLineState => LineIInv'
<1> SUFFICES ASSUME LineIInv, initializeLineState PROVE LineIInv'
  OBVIOUS
<1>1. /\ offsets \in Supports /\ target \in HostCells /\ calls \in Nat
      /\ calls > 0 => line # <<>>
      /\ failed => line # <<>>
  BY DEF LineIInv, LineTypeInv, AdmissibleInv, FailInv
<1>2. PICK host \in [ToSet(offsets) -> HostCells] :
         /\ host[0] = target
         /\ line' = [i \in Segments |-> [n \in Components |->
                       Reconstructed([o \in DOMAIN host |-> host[o][n]])[i]]]
  BY Zenon DEF initializeLineState
<1>3. /\ line = <<>> /\ unit' = InitialUnit
      /\ offsets' = offsets /\ target' = target /\ calls' = calls
      /\ failed' = failed /\ reserve' = affordable(line')
  BY DEF initializeLineState
<1> DEFINE at(n) == [o \in DOMAIN host |-> host[o][n]]
           w(i, n) == Reconstructed(at(n))[i]
<1>4. ASSUME NEW n \in Components
      PROVE  at(n) \in [ToSet(offsets) -> Int] /\ at(n)[0] = target[n]
  BY <1>1, <1>2, OwnerSegmentsOf, HostCellsAssumption
<1>5. line' = [i \in Segments |-> [n \in Components |-> w(i, n)]]
  BY <1>2
<1> HIDE DEF at
<1>6. \A n \in Components : \A i \in Segments : w(i, n) \in Int
  <2> TAKE n \in Components
  <2>1. Reconstructed(at(n)) \in [Segments -> Int]
    BY <1>1, <1>4, ReconstructedType
  <2> QED
    BY <2>1
<1>7. ASSUME NEW n \in Components, NEW i \in Segments, relative_offset(i) = 0
      PROVE  w(i, n) = target[n] * InitialUnit
  BY <1>1, <1>4, <1>7, ReconstructedType
<1> HIDE DEF w
<1>8. line' \in States
  <2>1. Segments = 0 .. 3 * Nsub - 1
    BY <1>1, LineLayout
  <2> QED
    BY <1>5, <1>6, <2>1 DEF States
<1>9. InitialUnit \in Int /\ InitialUnit > 0
  BY <1>1, InitialUnitType
<1>10. LineTypeInv'
  BY <1>1, <1>3, <1>8, <1>9 DEF LineTypeInv
<1>11. ASSUME NEW n \in Components
       PROVE  MeanOf(offsets, line', n) = target[n] * InitialUnit * Nsub
  <2> DEFINE a == target[n] * InitialUnit
  <2>1. target[n] \in Int
    BY <1>1, HostCellsAssumption
  <2>2. a \in Int
    BY <1>9, <2>1
  <2>3. \A i \in Segments : relative_offset(i) = 0 => line'[i][n] = a + 0 * line'[i][n]
    <3> TAKE i \in Segments
    <3>1. line'[i][n] = w(i, n) /\ w(i, n) \in Int
      BY <1>5, <1>6
    <3>2. relative_offset(i) = 0 => w(i, n) = a
      BY <1>7
    <3> HIDE DEF a
    <3> QED
      BY <2>2, <3>1, <3>2
  <2> HIDE DEF a
  <2>4. AffineInOwner(line', n, a, 0, line')
    BY <2>3 DEF AffineInOwner
  <2>5. MeanOf(offsets, line', n) = a * Nsub + 0 * MeanOf(offsets, line', n)
    BY <1>1, <1>8, <2>2, <2>4, AffineMean
  <2>6. MeanOf(offsets, line', n) \in Int
    BY <1>1, <1>8, MeanUnfolded
  <2>7. MeanOf(offsets, line', n) = a * Nsub
    BY <2>2, <2>5, <2>6, NsubType
  <2> QED
    BY <2>7 DEF a
<1>12. MeanInv'
  BY <1>3, <1>11 DEF MeanInv
<1>13. AdmissibleInv'
  BY <1>1, <1>3 DEF AdmissibleInv
<1>14. ReserveInv' /\ FailInv'
  BY <1>1, <1>3 DEF ReserveInv, FailInv, affordable
<1> QED
  BY <1>10, <1>12, <1>13, <1>14 DEF LineIInv

LEMMA LineEddy == LineIInv /\ applyPermutation => LineIInv'
<1> SUFFICES ASSUME LineIInv, applyPermutation PROVE LineIInv'
  OBVIOUS
<1>1. /\ offsets \in Supports /\ line \in States
      /\ calls > 0 /\ "diffusion" \notin since => AllAdmissible(line)
      /\ \A s \in reserve : s \in Speeds /\ CanAfford(line, s)
  BY DEF LineIInv, LineTypeInv, AdmissibleInv, ReserveInv, applyPermutation, running
<1>2. PICK iv \in Proposals(Cardinality(Segments), 3) : line' = ApplyPermutation(line, iv)
  BY DEF applyPermutation
<1>3. /\ offsets' = offsets /\ target' = target /\ unit' = unit /\ calls' = calls
      /\ since' = since \cup {"eddy"} /\ reserve' = reserve
      /\ failed' = failed /\ ~ failed
  BY DEF applyPermutation, running
<1>4. /\ line' \in States
      /\ AllAdmissible(line) => AllAdmissible(line')
      /\ \A s : CanAfford(line, s) => CanAfford(line', s)
  BY <1>1, <1>2, EddyMoves
<1>5. line' # <<>>
  BY <1>4, NotEmpty
<1>6. LineTypeInv'
  BY <1>1, <1>3, <1>4 DEF LineIInv, LineTypeInv
<1>7. MeanInv'
  BY <1>3 DEF MeanInv
<1>8. AdmissibleInv'
  BY <1>1, <1>3, <1>4, <1>5 DEF AdmissibleInv, AllAdmissible
<1>9. ReserveInv' /\ FailInv'
  BY <1>1, <1>3, <1>4 DEF ReserveInv, FailInv, CanAfford
<1> QED
  BY <1>6, <1>7, <1>8, <1>9 DEF LineIInv

\* Compared with s, a segment faster than one that is faster than s is, too.
LEMMA FasterStill ==
  ASSUME NEW x \in Int, NEW y \in Int, NEW u \in Int, NEW v \in Int, NEW s \in Int,
         u > 0, v > 0, y * u > x * v, x > s * u
  PROVE  y > s * v
<1>1. SUFFICES ASSUME y =< s * v PROVE FALSE
  <2>1. s * v \in Int
    OBVIOUS
  <2> QED
    BY <2>1
<1> DEFINE a == s * u
           b == s * v
<1>2. a \in Int /\ b \in Int /\ a * v = b * u /\ x > a /\ y =< b
  BY <1>1
<1> HIDE DEF a, b
<1>3. x * v > a * v
  BY <1>2
<1>4. y * u =< b * u
  BY <1>2
<1> DEFINE xv == x * v
           yu == y * u
           bu == b * u
<1>5. xv \in Int /\ yu \in Int /\ bu \in Int /\ yu > xv /\ xv > bu /\ yu =< bu
  BY <1>2, <1>3, <1>4
<1> HIDE DEF xv, yu, bu
<1> QED
  BY <1>5

Fast(w, r, s, i) == w[i] > s * r[i]

\* C[i] crosses from place i to place i + 1, and turns m into w.
Exchange(N, m, w, C) ==
  /\ C[-1] = 0 /\ C[N] = 0
  /\ \A i \in 0 .. N : w[i] = m[i] + C[i - 1] - C[i]

SlowPlaces(N, r, m, s) == \A i \in 0 .. N : r[i] > 0 /\ m[i] =< s * r[i]

Steeper(w, r, i, j) == w[i] * r[j] > w[j] * r[i]

Downhill(N, r, w, C) ==
  \A i, j \in 0 .. N :
    j = i + 1 => (C[i] > 0 => Steeper(w, r, i, j)) /\ (C[i] < 0 => Steeper(w, r, j, i))

\* What crosses a face makes no segment faster than the fastest one was: a
\* segment that gains speed gains it across a face from a faster one, and the
\* ends of the line let nothing pass.
LEMMA NoneFaster ==
  ASSUME NEW N \in Nat, NEW s \in Int,
         NEW r \in [0 .. N -> Int], NEW m \in [0 .. N -> Int],
         NEW w \in [0 .. N -> Int], NEW C \in [Int -> Int],
         Exchange(N, m, w, C), SlowPlaces(N, r, m, s), Downhill(N, r, w, C)
  PROVE  \A i \in 0 .. N : w[i] =< s * r[i]
<1>1. ASSUME NEW i \in 0 .. N
      PROVE  /\ r[i] \in Int /\ m[i] \in Int /\ w[i] \in Int /\ s * r[i] \in Int
             /\ i \in Int /\ i - 1 \in Int /\ C[i] \in Int /\ C[i - 1] \in Int
             /\ r[i] > 0
  <2>1. r[i] \in Int /\ m[i] \in Int /\ w[i] \in Int
    OBVIOUS
  <2>2. i \in Int /\ i - 1 \in Int
    OBVIOUS
  <2>3. C[i] \in Int /\ C[i - 1] \in Int
    BY <2>2
  <2>4. s * r[i] \in Int
    BY <2>1
  <2>5. r[i] > 0
    BY DEF SlowPlaces
  <2> QED
    BY <2>1, <2>2, <2>3, <2>4, <2>5
<1>2. ASSUME NEW i \in 0 .. N, Fast(w, r, s, i) PROVE C[i - 1] > C[i]
  <2> DEFINE x == s * r[i]
             mi == m[i]
             wi == w[i]
             ci == C[i]
             cl == C[i - 1]
  <2>1. x \in Int /\ mi \in Int /\ wi \in Int /\ ci \in Int /\ cl \in Int
    BY <1>1
  <2>2. mi =< x
    BY DEF SlowPlaces
  <2>3. wi = mi + cl - ci
    BY DEF Exchange
  <2>4. wi > x
    BY <1>2 DEF Fast
  <2> HIDE DEF x, mi, wi, ci, cl
  <2>5. cl > ci
    BY <2>1, <2>2, <2>3, <2>4
  <2> QED
    BY <2>5 DEF ci, cl
<1>3. ASSUME NEW i \in 0 .. N, Fast(w, r, s, i), C[i] < 0
      PROVE  i + 1 \in 0 .. N /\ Fast(w, r, s, i + 1) /\ C[i + 1] < 0
  <2>1. i # N
    BY <1>3 DEF Exchange
  <2>2. i \in 0 .. N - 1 /\ i + 1 \in 0 .. N /\ (i + 1) - 1 = i
    BY <2>1
  <2>3. w[i + 1] * r[i] > w[i] * r[i + 1]
    <3>1. Steeper(w, r, i + 1, i)
      BY <1>3, <2>2 DEF Downhill
    <3> QED
      BY <3>1 DEF Steeper
  <2>4. Fast(w, r, s, i + 1)
    <3>1. /\ w[i] \in Int /\ r[i] \in Int /\ r[i] > 0
          /\ w[i + 1] \in Int /\ r[i + 1] \in Int /\ r[i + 1] > 0
      BY <1>1, <2>2
    <3>2. w[i] > s * r[i]
      BY <1>3 DEF Fast
    <3>3. w[i + 1] > s * r[i + 1]
      BY <2>3, <3>1, <3>2, FasterStill
    <3> QED
      BY <3>3 DEF Fast
  <2>5. C[(i + 1) - 1] > C[i + 1]
    BY <1>2, <2>2, <2>4
  <2>6. C[i] > C[i + 1]
    BY <2>2, <2>5
  <2>7. C[i] \in Int /\ C[i + 1] \in Int
    BY <1>1, <2>2
  <2>8. C[i + 1] < 0
    BY <1>3, <2>6, <2>7
  <2> QED
    BY <2>2, <2>4, <2>8
<1>4. ASSUME NEW i \in 0 .. N, Fast(w, r, s, i), C[i - 1] > 0
      PROVE  i - 1 \in 0 .. N /\ Fast(w, r, s, i - 1)
  <2>1. i # 0
    BY <1>4 DEF Exchange
  <2> DEFINE j == i - 1
  <2>2. j \in 0 .. N - 1 /\ j \in 0 .. N /\ j + 1 = i /\ C[j] > 0
    BY <1>4, <2>1
  <2> HIDE DEF j
  <2>3. w[j] * r[i] > w[i] * r[j]
    <3>1. Steeper(w, r, j, i)
      BY <2>2 DEF Downhill
    <3> QED
      BY <3>1 DEF Steeper
  <2>4. /\ w[i] \in Int /\ r[i] \in Int /\ r[i] > 0
        /\ w[j] \in Int /\ r[j] \in Int /\ r[j] > 0
    BY <1>1, <2>2
  <2>5. w[i] > s * r[i]
    BY <1>4 DEF Fast
  <2>6. w[j] > s * r[j]
    BY <2>3, <2>4, <2>5, FasterStill
  <2>7. j \in 0 .. N /\ Fast(w, r, s, j)
    BY <2>2, <2>6 DEF Fast
  <2> QED
    BY <2>7 DEF j
<1>5. SUFFICES ASSUME NEW f \in 0 .. N, Fast(w, r, s, f) PROVE FALSE
  <2>1. ASSUME NEW i \in 0 .. N PROVE w[i] =< s * r[i]
    <3>1. ~ (w[i] > s * r[i])
      BY <1>5 DEF Fast
    <3>2. w[i] \in Int /\ s * r[i] \in Int
      BY <1>1
    <3> QED
      BY <3>1, <3>2
  <2> QED
    BY <2>1
<1>6. PICK i \in 0 .. N : Fast(w, r, s, i) /\ \A j \in 0 .. N : Fast(w, r, s, j) => i =< j
  <2> DEFINE A == {j \in 0 .. N : Fast(w, r, s, j)}
  <2>1. A \in SUBSET Nat
    OBVIOUS
  <2>2. f \in A
    BY <1>5
  <2>3. PICK k \in A : \A j \in A : k =< j
    <3> HIDE DEF A
    <3> QED
      BY <2>1, <2>2, LeastOf, Zenon
  <2> QED
    BY <2>3, Zenon
<1>7. C[i] < 0
  <2>1. ~ (C[i - 1] > 0)
    <3>1. SUFFICES ASSUME C[i - 1] > 0 PROVE FALSE
      OBVIOUS
    <3>2. i - 1 \in 0 .. N /\ Fast(w, r, s, i - 1)
      BY <1>4, <1>6, <3>1
    <3>3. i =< i - 1
      BY <1>6, <3>2
    <3> QED
      BY <3>3
  <2>2. C[i - 1] > C[i]
    BY <1>2, <1>6
  <2>3. C[i - 1] \in Int /\ C[i] \in Int
    BY <1>1
  <2> QED
    BY <2>1, <2>2, <2>3
<1> DEFINE B == {d \in 0 .. N : Fast(w, r, s, N - d) /\ C[N - d] < 0}
<1>8. B \in SUBSET Nat
  OBVIOUS
<1>9. N - i \in B
  <2>1. N - i \in 0 .. N /\ N - (N - i) = i
    OBVIOUS
  <2> QED
    BY <1>6, <1>7, <2>1
<1>10. PICK d \in B : \A e \in B : d =< e
  <2> HIDE DEF B
  <2> QED
    BY <1>8, <1>9, LeastOf, Zenon
<1> DEFINE k == N - d
<1>11. d \in 0 .. N /\ k \in 0 .. N /\ Fast(w, r, s, k) /\ C[k] < 0
  <2>1. d \in 0 .. N /\ Fast(w, r, s, N - d) /\ C[N - d] < 0
    BY <1>10
  <2>2. N - d \in 0 .. N
    BY <2>1
  <2> QED
    BY <2>1, <2>2
<1>12. k + 1 \in 0 .. N /\ Fast(w, r, s, k + 1) /\ C[k + 1] < 0
  <2> HIDE DEF k
  <2> QED
    BY <1>3, <1>11
<1>13. d - 1 \in B
  <2>1. d - 1 \in 0 .. N /\ N - (d - 1) = k + 1
    BY <1>11, <1>12
  <2> QED
    BY <1>12, <2>1
<1>14. d =< d - 1
  <2> HIDE DEF B
  <2> QED
    BY <1>10, <1>13
<1> QED
  BY <1>11, <1>14

\* A line that can afford a speed can afford it after a diffusion.
LEMMA DiffusionAffords ==
  ASSUME offsets \in Supports, line \in States, NEW F \in Crossings,
         followsVelocity(F, exchanged(F))
  PROVE  /\ exchanged(F) \in States
         /\ \A s \in Speeds : CanAfford(line, s) => CanAfford(exchanged(F), s)
<1> DEFINE N == 3 * Nsub - 1
           new == exchanged(F)
           C == [f \in Int |-> crossing(F, f)]
           r == [i \in 0 .. N |-> line[i][1]]
           m == [i \in 0 .. N |-> line[i][2]]
           w == [i \in 0 .. N |-> new[i][2]]
<1>1. /\ N \in Nat /\ Segments = 0 .. N /\ Faces = 0 .. N - 1
      /\ N - 1 = 3 * Nsub - 2
  <2>1. N \in Nat /\ N - 1 = 3 * Nsub - 2
    BY NsubType
  <2>2. Segments = 0 .. N /\ Len(offsets) * Nsub = 3 * Nsub
    BY LineLayout
  <2>3. Faces = 0 .. 3 * Nsub - 2
    BY <2>2 DEF Faces
  <2> HIDE DEF N
  <2> QED
    BY <2>1, <2>2, <2>3
<1>2. F \in [0 .. N - 1 -> Int]
  BY <1>1, CrossingsAssumption
<1>3. C \in [Int -> Int] /\ C[-1] = 0 /\ C[N] = 0 /\ \A f \in 0 .. N - 1 : C[f] = F[f]
  <2>1. \A f \in Int : crossing(F, f) = IF f \in 0 .. N - 1 THEN F[f] ELSE 0
    BY <1>1 DEF crossing
  <2>2. \A f \in Int : crossing(F, f) \in Int
    BY <1>2, <2>1
  <2>3. N \in Int /\ -1 \notin 0 .. N - 1 /\ N \notin 0 .. N - 1
    BY <1>1
  <2> HIDE DEF N
  <2> QED
    BY <2>1, <2>2, <2>3
<1>4. line \in [0 .. N -> [Components -> Int]]
  BY DEF States
<1>5. ASSUME NEW i \in 0 .. N
      PROVE  /\ new[i] \in [Components -> Int]
             /\ new[i][2] = line[i][2] + C[i - 1] - C[i]
             /\ new[i][1] = line[i][1] /\ new[i][3] = line[i][3]
  <2>1. new[i] = [line[i] EXCEPT ![2] = line[i][2] + crossing(F, i - 1) - crossing(F, i)]
    BY <1>1 DEF exchanged
  <2>2. i \in Int /\ i - 1 \in Int /\ crossing(F, i - 1) = C[i - 1] /\ crossing(F, i) = C[i]
    BY <1>1
  <2>3. C[i - 1] \in Int /\ C[i] \in Int /\ line[i] \in [Components -> Int]
    BY <1>3, <1>4, <2>2
  <2> HIDE DEF new, C
  <2>4. new[i] = [line[i] EXCEPT ![2] = line[i][2] + C[i - 1] - C[i]]
    BY <2>1, <2>2
  <2> QED
    BY <2>3, <2>4 DEF Components
<1>6. new \in States
  <2>1. new = [i \in 0 .. N |-> new[i]]
    BY <1>1 DEF exchanged
  <2> HIDE DEF new
  <2> QED
    BY <1>5, <2>1 DEF States
<1>7. /\ r \in [0 .. N -> Int] /\ m \in [0 .. N -> Int] /\ w \in [0 .. N -> Int]
      /\ \A i \in 0 .. N : r[i] = line[i][1] /\ m[i] = line[i][2] /\ w[i] = new[i][2]
      /\ \A i \in 0 .. N : new[i][1] = r[i] /\ w[i] = m[i] + C[i - 1] - C[i]
  <2> HIDE DEF new, C, N
  <2>1. \A i \in 0 .. N : line[i] \in [Components -> Int] /\ new[i] \in [Components -> Int]
    BY <1>4, <1>5
  <2> QED
    BY <1>5, <2>1 DEF Components
<1>8. Downhill(N, r, w, C)
  <2> SUFFICES ASSUME NEW i \in 0 .. N - 1
               PROVE  /\ C[i] > 0 => w[i] * r[i + 1] > w[i + 1] * r[i]
                      /\ C[i] < 0 => w[i + 1] * r[i] > w[i] * r[i + 1]
    <3> HIDE DEF new, C, r, m, w
    <3>1. \A i, j \in 0 .. N : j = i + 1 => i \in 0 .. N - 1
      BY <1>1
    <3> QED
      BY <3>1 DEF Downhill, Steeper
  <2>1. /\ F[i] > 0 => new[i][2] * new[i + 1][1] > new[i + 1][2] * new[i][1]
        /\ F[i] < 0 => new[i + 1][2] * new[i][1] > new[i][2] * new[i + 1][1]
    BY <1>1 DEF followsVelocity, faster
  <2> HIDE DEF new, C, r, m, w
  <2>2. i \in 0 .. N /\ i + 1 \in 0 .. N
    BY <1>1
  <2>3. C[i] = F[i]
    BY <1>3
  <2>4. /\ w[i] = new[i][2] /\ w[i + 1] = new[i + 1][2]
        /\ r[i] = new[i][1] /\ r[i + 1] = new[i + 1][1]
    BY <1>7, <2>2
  <2> HIDE DEF N
  <2> QED
    BY <2>1, <2>3, <2>4
<1>9. Exchange(N, m, w, C)
  BY <1>3, <1>7 DEF Exchange
<1> HIDE DEF new, C, r, m, w
<1>10. ASSUME NEW s \in Speeds, CanAfford(line, s) PROVE CanAfford(new, s)
  <2>1. s \in Int
    BY SpeedsAssumption
  <2>2. DOMAIN line = 0 .. N /\ DOMAIN new = 0 .. N
    BY <1>4, <1>6 DEF States
  <2>3. \A i \in 0 .. N : /\ r[i] > 0 /\ m[i] =< s * r[i] /\ - m[i] =< s * r[i]
                          /\ 2 * line[i][3] > s * s * r[i]
    BY <1>7, <1>10, <2>2 DEF CanAfford
  <2> HIDE DEF N
  <2>4. \A i \in 0 .. N : w[i] =< s * r[i]
    <3>1. SlowPlaces(N, r, m, s)
      BY <2>3 DEF SlowPlaces
    <3> QED
      BY <1>1, <1>3, <1>7, <1>8, <1>9, <2>1, <3>1, NoneFaster
  <2>5. \A i \in 0 .. N : - w[i] =< s * r[i]
    <3> DEFINE Cn == [f \in Int |-> 0 - C[f]]
               mn == [i \in 0 .. N |-> - m[i]]
               wn == [i \in 0 .. N |-> - w[i]]
    <3>1. /\ Cn \in [Int -> Int]
          /\ \A f \in Int : Cn[f] = 0 - C[f] /\ C[f] \in Int
      BY <1>3
    <3>2. /\ mn \in [0 .. N -> Int] /\ wn \in [0 .. N -> Int]
          /\ \A i \in 0 .. N : /\ mn[i] = - m[i] /\ wn[i] = - w[i]
                              /\ m[i] \in Int /\ w[i] \in Int /\ r[i] \in Int
      BY <1>7
    <3> HIDE DEF Cn, mn, wn
    <3>3. SlowPlaces(N, r, mn, s)
      BY <2>3, <3>2 DEF SlowPlaces
    <3>4. Exchange(N, mn, wn, Cn)
      <4>1. N \in Int /\ -1 \in Int
        BY <1>1
      <4>2. Cn[-1] = 0 /\ Cn[N] = 0
        <5>1. Cn[-1] = 0 - C[-1] /\ Cn[N] = 0 - C[N]
          BY <3>1, <4>1
        <5>2. 0 - 0 = 0
          OBVIOUS
        <5> QED
          BY <1>3, <5>1, <5>2, Zenon
      <4>3. ASSUME NEW i \in 0 .. N PROVE wn[i] = mn[i] + Cn[i - 1] - Cn[i]
        <5>1. i \in Int /\ i - 1 \in Int
          BY <1>1
        <5> DEFINE c == C[i]
                   cl == C[i - 1]
                   mi == m[i]
        <5>2. c \in Int /\ cl \in Int /\ mi \in Int /\ w[i] = mi + cl - c
          BY <1>7, <3>1, <3>2, <5>1
        <5>3. /\ wn[i] = - w[i] /\ mn[i] = - mi
              /\ Cn[i - 1] = 0 - cl /\ Cn[i] = 0 - c
          BY <3>1, <3>2, <5>1
        <5> HIDE DEF c, cl, mi
        <5> QED
          BY <5>2, <5>3
      <4> QED
        BY <4>2, <4>3 DEF Exchange
    <3>5. Downhill(N, r, wn, Cn)
      <4> SUFFICES ASSUME NEW i \in 0 .. N - 1
                   PROVE  /\ Cn[i] > 0 => wn[i] * r[i + 1] > wn[i + 1] * r[i]
                          /\ Cn[i] < 0 => wn[i + 1] * r[i] > wn[i] * r[i + 1]
        <5>1. \A i, j \in 0 .. N : j = i + 1 => i \in 0 .. N - 1
          BY <1>1
        <5> QED
          BY <5>1 DEF Downhill, Steeper
      <4>1. i \in Int /\ i \in 0 .. N /\ i + 1 \in 0 .. N
        BY <1>1
      <4>2. /\ w[i] \in Int /\ w[i + 1] \in Int /\ r[i] \in Int /\ r[i + 1] \in Int
            /\ wn[i] = - w[i] /\ wn[i + 1] = - w[i + 1] /\ Cn[i] = 0 - C[i] /\ C[i] \in Int
        BY <3>1, <3>2, <4>1
      <4>3. \A x, y \in Int : (- x) * y = - (x * y) /\ x * y \in Int
        OBVIOUS
      <4> DEFINE a == w[i] * r[i + 1]
                 b == w[i + 1] * r[i]
      <4>4. /\ wn[i] * r[i + 1] = - a /\ a \in Int
            /\ wn[i + 1] * r[i] = - b /\ b \in Int
        BY <4>2, <4>3
      <4>5. (C[i] > 0 => a > b) /\ (C[i] < 0 => b > a)
        <5>1. /\ C[i] > 0 => Steeper(w, r, i, i + 1)
              /\ C[i] < 0 => Steeper(w, r, i + 1, i)
          BY <1>8, <4>1 DEF Downhill
        <5> QED
          BY <5>1 DEF Steeper
      <4> HIDE DEF a, b
      <4>6. /\ Cn[i] > 0 => - a > - b
            /\ Cn[i] < 0 => - b > - a
        BY <4>2, <4>4, <4>5
      <4> QED
        BY <4>4, <4>6
    <3>6. \A i \in 0 .. N : wn[i] =< s * r[i]
      BY <1>1, <1>7, <2>1, <3>1, <3>2, <3>3, <3>4, <3>5, NoneFaster
    <3> QED
      BY <3>2, <3>6
  <2>6. ASSUME NEW i \in 0 .. N
        PROVE  /\ new[i][1] > 0
               /\ new[i][2] =< s * new[i][1] /\ - new[i][2] =< s * new[i][1]
               /\ 2 * new[i][3] > s * s * new[i][1]
    <3>1. new[i][1] = r[i] /\ new[i][2] = w[i] /\ new[i][3] = line[i][3]
      BY <1>5, <1>7
    <3> QED
      BY <2>3, <2>4, <2>5, <3>1
  <2> QED
    BY <2>2, <2>6 DEF CanAfford
<1> QED
  BY <1>6, <1>10 DEF new

\* What can afford a speed has a temperature.
LEMMA AffordableRecoverable ==
  ASSUME NEW f \in States, NEW s \in Speeds, CanAfford(f, s), NEW i \in DOMAIN f
  PROVE  recoverable(f[i])
<1> DEFINE r == f[i][1]
           m == f[i][2]
           e == f[i][3]
<1>1. r \in Int /\ m \in Int /\ e \in Int /\ s \in Int /\ s >= 0
  BY SpeedsAssumption DEF States, Components
<1>2. r > 0 /\ m =< s * r /\ - m =< s * r /\ 2 * e > s * s * r
  BY DEF CanAfford
<1> HIDE DEF r, m, e
<1> DEFINE v == s * r
<1>3. v \in Int /\ v >= 0 /\ m =< v /\ - m =< v /\ s * s * r = s * v
  BY <1>1, <1>2
<1>4. s * v \in Int /\ v * v = (s * v) * r
  BY <1>1
<1> HIDE DEF v
<1>5. m * m =< v * v
  <2>1. \A x, y \in Int : 0 =< x /\ x =< y => x * x =< y * y
    <3> TAKE x, y \in Int
    <3> HAVE 0 =< x /\ x =< y
    <3>1. x * x =< x * y /\ x * y =< y * y
      OBVIOUS
    <3>2. x * x \in Int /\ x * y \in Int /\ y * y \in Int
      OBVIOUS
    <3> QED
      BY <3>1, <3>2
  <2>2. CASE m >= 0
    BY <1>1, <1>3, <2>1, <2>2
  <2>3. CASE m < 0
    <3>1. (- m) * (- m) =< v * v
      BY <1>1, <1>3, <2>1, <2>3
    <3>2. (- m) * (- m) = m * m
      BY <1>1
    <3> QED
      BY <3>1, <3>2
  <2> QED
    BY <1>1, <2>2, <2>3
<1>6. (2 * e) * r > (s * v) * r
  <2> DEFINE a == 2 * e
             b == s * v
  <2>1. a \in Int /\ b \in Int /\ a > b
    BY <1>1, <1>2, <1>3, <1>4
  <2> HIDE DEF a, b
  <2>2. a * r > b * r
    BY <1>1, <1>2, <2>1
  <2> QED
    BY <2>2 DEF a, b
<1>7. 2 * r * e > m * m
  <2>1. 2 * r * e = (2 * e) * r /\ (2 * e) * r \in Int
    BY <1>1
  <2>2. m * m \in Int /\ v * v \in Int
    BY <1>1, <1>3
  <2> QED
    BY <1>4, <1>5, <1>6, <2>1, <2>2
<1> QED
  BY <1>2, <1>7 DEF recoverable, r, m, e

LEMMA LineDiffused == LineIInv /\ diffuse => LineIInv'
<1> SUFFICES ASSUME LineIInv, diffuse PROVE LineIInv'
  OBVIOUS
<1>1. /\ offsets \in Supports /\ line \in States
      /\ calls > 0 /\ "diffusion" \notin since => AllAdmissible(line)
      /\ \A s \in reserve : s \in Speeds /\ CanAfford(line, s)
  BY DEF LineIInv, LineTypeInv, AdmissibleInv, ReserveInv, diffuse, running
<1>2. /\ offsets' = offsets /\ target' = target /\ unit' = unit /\ calls' = calls
      /\ reserve' = reserve /\ line # <<>> /\ ~ failed
  BY DEF diffuse, running
<1>3. CASE \A i \in Segments : recoverable(line[i])
  <2>1. PICK F \in Crossings : followsVelocity(F, exchanged(F)) /\ line' = exchanged(F)
    BY <1>3, Zenon DEF diffuse
  <2>2. since' = since \cup {"diffusion"} /\ failed' = failed
    BY <1>3 DEF diffuse
  <2>3. /\ line' \in States
        /\ \A s \in Speeds : CanAfford(line, s) => CanAfford(line', s)
    BY <1>1, <2>1, DiffusionAffords
  <2>4. line' # <<>>
    BY <2>3, NotEmpty
  <2>5. LineTypeInv'
    BY <1>2, <2>3 DEF LineIInv, LineTypeInv
  <2>6. MeanInv' /\ AdmissibleInv'
    BY <2>2, <2>4 DEF MeanInv, AdmissibleInv
  <2>7. ReserveInv' /\ FailInv'
    BY <1>1, <1>2, <2>2, <2>3 DEF ReserveInv, FailInv, CanAfford
  <2> QED
    BY <2>5, <2>6, <2>7 DEF LineIInv
<1>4. CASE ~ (\A i \in Segments : recoverable(line[i]))
  <2>1. failed' = TRUE /\ line' = line /\ since' = since
    BY <1>4 DEF diffuse
  <2>2. DOMAIN line = Segments
    BY <1>1, LineLayout DEF States
  <2>3. reserve = {}
    BY <1>1, <1>4, <2>2, AffordableRecoverable
  <2>4. calls > 0 => "diffusion" \in since
    BY <1>1, <1>4, <2>2 DEF AllAdmissible, isAdmissible
  <2>5. FailInv'
    BY <1>2, <2>1, <2>3, <2>4 DEF FailInv, RecoveryFailsLate
  <2>6. LineTypeInv' /\ MeanInv' /\ AdmissibleInv' /\ ReserveInv'
    BY <1>2, <2>1 DEF LineIInv, LineTypeInv, MeanInv, AdmissibleInv, ReserveInv,
                      AllAdmissible, CanAfford
  <2> QED
    BY <2>5, <2>6 DEF LineIInv
<1> QED
  BY <1>3, <1>4

LEMMA LineReconciled == LineIInv /\ reconcile => LineIInv'
<1> SUFFICES ASSUME LineIInv, reconcile PROVE LineIInv'
  OBVIOUS
<1>1. /\ LineTypeInv /\ line # <<>> /\ line \in States
      /\ offsets \in Supports /\ unit \in Int /\ unit > 0 /\ calls \in Nat
      /\ Segments = 0 .. 3 * Nsub - 1
  BY LineLayout DEF LineIInv, LineTypeInv, reconcile, running
<1>2. /\ target' \in HostCells /\ calls' = calls + 1 /\ offsets' = offsets
      /\ since' = {} /\ failed' = failed /\ ~ failed /\ reserve' = affordable(line')
  BY DEF reconcile, running
<1>3. SUFFICES
        /\ unit' \in Int /\ unit' > 0
        /\ line' \in States /\ AllAdmissible(line')
        /\ \A n \in Components : MeanOf(offsets, line', n) = target'[n] * unit' * Nsub
  <2>1. line' # <<>>
    BY NotEmpty
  <2>2. LineTypeInv'
    BY <1>1, <1>2 DEF LineTypeInv
  <2>3. MeanInv'
    BY <1>2 DEF MeanInv
  <2>4. AdmissibleInv'
    BY <2>1 DEF AdmissibleInv, AllAdmissible
  <2>5. ReserveInv' /\ FailInv'
    BY <1>2 DEF ReserveInv, FailInv, affordable, CanAfford
  <2> QED
    BY <2>2, <2>3, <2>4, <2>5 DEF LineIInv
<1>4. \A n \in Components : target'[n] \in Int
  BY <1>2, HostCellsAssumption
<1>5. CASE accepted(target') # {}
  <2> DEFINE k == Min(accepted(target'))
             u == unit * Nsub * 2^k
  <2>1. line' = make_trial(target', k) /\ unit' = u
    BY <1>5, Zenon DEF reconcile
  <2>2. k \in Nat /\ k \in accepted(target')
    BY <1>5, AcceptedHasMin
  <2>3. AllAdmissible(make_trial(target', k))
    <3> HIDE DEF k
    <3> QED
      BY <2>2 DEF accepted
  <2>4. /\ make_trial(target', k) \in States /\ u \in Int
        /\ \A n \in Components : MeanOf(offsets, make_trial(target', k), n) =
                                   target'[n] * u * Nsub
    <3> HIDE DEF k
    <3> QED
      BY <1>1, <1>2, <2>2, TrialMean
  <2> HIDE DEF k, u
  <2>5. u > 0
    <3>1. MeanOf(offsets, make_trial(target', k), 1) > 0
      BY <1>1, <2>3, <2>4, MeanPositive
    <3>2. target'[1] * u * Nsub > 0 /\ target'[1] > 0 /\ target'[1] \in Int
      BY <1>2, <1>4, <2>4, <3>1, HostCellsAssumption DEF Components, isAdmissible, recoverable
    <3> DEFINE t == target'[1]
    <3>3. t \in Int /\ t > 0 /\ t * u * Nsub > 0
      BY <3>2
    <3> HIDE DEF t
    <3>4. ASSUME u =< 0 PROVE FALSE
      <4>1. t * u =< 0 /\ t * u \in Int
        BY <2>4, <3>3, <3>4
      <4>2. t * u * Nsub =< 0
        BY <4>1, NsubType
      <4> QED
        BY <3>3, <4>1, <4>2, NsubType
    <3> QED
      BY <2>4, <3>4
  <2> QED
    BY <2>1, <2>3, <2>4, <2>5
<1>6. CASE accepted(target') = {}
  <2> DEFINE new == flattened(target')
             q == [n \in Components |-> target'[n] * unit]
  <2>1. line' = new /\ unit' = unit
    BY <1>6 DEF reconcile
  <2>2. \A n \in Components : target'[n] * unit \in Int
    BY <1>1, <1>4
  <2>3. q \in [Components -> Int] /\ new = [i \in Segments |-> q]
    BY <2>2 DEF flattened
  <2>4. isAdmissible(q)
    BY <1>1, <1>2, HostCellsAssumption, AdmissibleScaled
  <2> HIDE DEF new, q
  <2>5. new \in States /\ AllAdmissible(new)
    BY <1>1, <2>3, <2>4 DEF States, AllAdmissible
  <2>6. ASSUME NEW n \in Components
        PROVE  MeanOf(offsets, new, n) = target'[n] * unit * Nsub
    <3> DEFINE a == target'[n] * unit
    <3>1. a \in Int
      BY <2>2
    <3>2. \A i \in Segments : new[i][n] = a
      BY <2>3 DEF q
    <3> HIDE DEF a
    <3>3. AffineInOwner(new, n, a, 0, new)
      BY <3>1, <3>2 DEF AffineInOwner
    <3>4. MeanOf(offsets, new, n) = a * Nsub + 0 * MeanOf(offsets, new, n)
      BY <1>1, <2>5, <3>1, <3>3, AffineMean
    <3>5. MeanOf(offsets, new, n) \in Int
      BY <1>1, <2>5, MeanUnfolded
    <3>6. MeanOf(offsets, new, n) = a * Nsub
      BY <3>1, <3>4, <3>5, NsubType
    <3> QED
      BY <3>6 DEF a
  <2> QED
    BY <1>1, <2>1, <2>5, <2>6
<1> QED
  BY <1>5, <1>6

LEMMA LineNext == LineIInv /\ [Next]_vars => LineIInv'
<1>1. LineIInv /\ UNCHANGED vars => LineIInv'
  BY DEF LineIInv, LineTypeInv, MeanInv, AdmissibleInv, ReserveInv, FailInv,
         RecoveryFailsLate, AllAdmissible, CanAfford, vars
<1> QED
  BY <1>1, LineStart, LineDiffused, LineEddy, LineReconciled DEF Next

LEMMA LineInvariant == Spec => []LineIInv
BY LineInit, LineNext, PTL DEF Spec

(***************************************************************************)
(* Whatever was carried across the ends of the owner's cell, the line      *)
(* has exactly the average of the LES cell when it is used next: for every *)
(* alpha the search of reconcileExistingLineStateToOwnerAverage may end    *)
(* with, for one-sided supports and for any number of segments.            *)
(***************************************************************************)
THEOREM OdtOwnerMeanIsLes == Spec => []OwnerMeanIsLes
<1>1. LineIInv => OwnerMeanIsLes
  <2> SUFFICES ASSUME LineIInv, line # <<>>, since = {}, NEW n \in Components
               PROVE  ownerMean(line)[n] = target[n] * unit * Nsub
    BY DEF OwnerMeanIsLes
  <2>1. offsets \in Supports /\ line \in States
    BY DEF LineIInv, LineTypeInv
  <2>2. MeanOf(offsets, line, n) = target[n] * unit * Nsub
    BY DEF LineIInv, MeanInv
  <2> QED
    BY <2>1, <2>2, MeanUnfolded
<1> QED
  BY <1>1, LineInvariant, PTL

(***************************************************************************)
(* A diffusion aborts the program at a segment without a temperature only  *)
(* after an earlier diffusion since the last reconciliation, or on a line  *)
(* never reconciled: what reconcileExistingLineStateToOwnerAverage leaves  *)
(* has a temperature in every segment, and eddies only move states.  And   *)
(* it aborts only if some segment could not afford the greatest speed the  *)
(* line had when it was prepared: by the maximum principle no sequence of  *)
(* diffusions and eddies makes a segment faster than that, and none takes  *)
(* total energy away.  This holds for every number of segments.            *)
(***************************************************************************)
THEOREM OdtRecoveryFailsLate == Spec => []RecoveryFailsLate
<1>1. LineIInv => RecoveryFailsLate
  BY DEF LineIInv, FailInv, RecoveryFailsLate
<1> QED
  BY <1>1, LineInvariant, PTL

-----------------------------------------------------------------------------
(* Three segments of a line, with densities, momenta and viscosities of     *)
(* any size.                                                                *)

ColumnInv ==
  /\ rho \in [1..3 -> Nat \ {0}]
  /\ rhou \in [1..3 -> Int]
  /\ mu \in [1..3 -> Nat]

LEMMA ColumnInvariant == ColumnSpec => []ColumnInv
<1>1. ColumnInit => ColumnInv
  BY TransportAssumption DEF ColumnInit, ColumnInv
<1>2. ColumnInv /\ [ColumnNext]_column => ColumnInv'
  BY TransportAssumption DEF ColumnInv, ColumnNext, DrawMomentum, DrawViscosity, column
<1> QED
  BY <1>1, <1>2, PTL DEF ColumnSpec

LEMMA ProductDivided ==
  \A a, b, c \in Nat \ {0} :
    /\ a * b * c \in Nat
    /\ (a * b * c) \div a = b * c
    /\ (a * b * c) \div b = a * c
    /\ (a * b * c) \div c = a * b
<1>1. \A x \in Nat \ {0}, y \in Nat : (x * y) \div x = y
  OBVIOUS
<1> SUFFICES ASSUME NEW a \in Nat \ {0}, NEW b \in Nat \ {0}, NEW c \in Nat \ {0}
             PROVE  /\ a * b * c \in Nat
                    /\ (a * b * c) \div a = b * c
                    /\ (a * b * c) \div b = a * c
                    /\ (a * b * c) \div c = a * b
  OBVIOUS
<1>2. a * b * c = a * (b * c) /\ a * b * c = b * (a * c) /\ a * b * c = c * (a * b)
  OBVIOUS
<1>3. b * c \in Nat /\ a * c \in Nat /\ a * b \in Nat
  OBVIOUS
<1>4. a * (b * c) \in Nat
  BY <1>3
<1> QED
  BY <1>1, <1>2, <1>3, <1>4

LEMMA PDivided ==
  ASSUME ColumnInv
  PROVE  /\ P \in Int
         /\ P \div rho[1] = rho[2] * rho[3]
         /\ P \div rho[2] = rho[1] * rho[3]
         /\ P \div rho[3] = rho[1] * rho[2]
<1> DEFINE a == rho[1]
           b == rho[2]
           c == rho[3]
<1>1. a \in Nat \ {0} /\ b \in Nat \ {0} /\ c \in Nat \ {0}
  BY DEF ColumnInv
<1>2. P = a * b * c
  BY DEF P
<1> HIDE DEF a, b, c
<1>3. P \in Int /\ P \div a = b * c /\ P \div b = a * c /\ P \div c = a * b
  BY <1>1, <1>2, ProductDivided
<1> QED
  BY <1>3 DEF a, b, c

-----------------------------------------------------------------------------
(* The normal stress: a sum of squares (Lagrange's identity).               *)

LEMMA Lagrange ==
  \A r, s, t, m, n, o \in Int :
    (m * m * (s * t) + n * n * (r * t) + o * o * (r * s)) * (r + s + t)
        - r * s * t * (m + n + o) * (m + n + o)
      = t * ((m * s - n * r) * (m * s - n * r))
        + s * ((m * t - o * r) * (m * t - o * r))
        + r * ((n * t - o * s) * (n * t - o * s))
OBVIOUS

LEMMA SquareType ==
  \A x \in Int : x * x \in Nat /\ (x * x = 0 <=> x = 0)
OBVIOUS

(***************************************************************************)
(* The stress the owner returns along the line, tau_dd of the moment       *)
(* extractor, is never negative, and zero only where the owner's segments  *)
(* move as one: for three segments of any densities and momenta.           *)
(***************************************************************************)
THEOREM LineMomentRealizable == ColumnSpec => []MomentRealizable
<1>1. ColumnInv => MomentRealizable
  <2> SUFFICES ASSUME ColumnInv PROVE MomentRealizable
    OBVIOUS
  <2> DEFINE r == rho[1]
             s == rho[2]
             t == rho[3]
             m == rhou[1]
             n == rhou[2]
             o == rhou[3]
             x == m * s - n * r
             y == m * t - o * r
             z == n * t - o * s
  <2>1. /\ r \in Nat /\ s \in Nat /\ t \in Nat /\ r > 0 /\ s > 0 /\ t > 0
        /\ m \in Int /\ n \in Int /\ o \in Int
    BY DEF ColumnInv
  <2>2. tau_dd = (m * m * (s * t) + n * n * (r * t) + o * o * (r * s)) * (r + s + t)
                   - r * s * t * (m + n + o) * (m + n + o)
    BY PDivided DEF tau_dd, mean_rho_u_u, mean_rho, mean_rho_u, P
  <2>3. (\A i, j \in 1..3 : rhou[i] * rho[j] = rhou[j] * rho[i])
          <=> m * s = n * r /\ m * t = o * r /\ n * t = o * s
    <3>1. 1..3 = {1, 2, 3}
      OBVIOUS
    <3>2. (\A i, j \in {1, 2, 3} : rhou[i] * rho[j] = rhou[j] * rho[i])
            <=> rhou[1] * rho[2] = rhou[2] * rho[1] /\ rhou[1] * rho[3] = rhou[3] * rho[1]
                /\ rhou[2] * rho[3] = rhou[3] * rho[2]
      BY Zenon
    <3> QED
      BY <3>1, <3>2
  <2> HIDE DEF r, s, t, m, n, o
  <2>4. x \in Int /\ y \in Int /\ z \in Int
    BY <2>1
  <2>5. tau_dd = t * (x * x) + s * (y * y) + r * (z * z)
    BY <2>1, <2>2, Lagrange
  <2>6. m * s = n * r /\ m * t = o * r /\ n * t = o * s <=> x = 0 /\ y = 0 /\ z = 0
    BY <2>1
  <2> HIDE DEF x, y, z
  <2> DEFINE X == x * x
             Y == y * y
             Z == z * z
  <2>7. /\ X \in Nat /\ Y \in Nat /\ Z \in Nat
        /\ (X = 0 <=> x = 0) /\ (Y = 0 <=> y = 0) /\ (Z = 0 <=> z = 0)
    BY <2>4, SquareType
  <2> HIDE DEF X, Y, Z
  <2>8. /\ t * X \in Nat /\ s * Y \in Nat /\ r * Z \in Nat
        /\ (t * X = 0 <=> X = 0) /\ (s * Y = 0 <=> Y = 0) /\ (r * Z = 0 <=> Z = 0)
    BY <2>1, <2>7
  <2>9. tau_dd = t * X + s * Y + r * Z
    BY <2>5 DEF X, Y, Z
  <2>10. tau_dd >= 0 /\ (tau_dd = 0 <=> X = 0 /\ Y = 0 /\ Z = 0)
    BY <2>8, <2>9
  <2> QED
    BY <2>3, <2>6, <2>7, <2>10 DEF MomentRealizable
<1> QED
  BY <1>1, ColumnInvariant, PTL

-----------------------------------------------------------------------------
(* The implicit step.  With D = 2P the system's rows are those of           *)
(*    D + w      -x       0                                                 *)
(*     -w     D + x + y  -z                                                 *)
(*      0       -y      D + z                                               *)
(* whose columns sum to D: momentum is kept; and which a line that moves as *)
(* a whole, with momenta in the ratio of its densities, solves.  No         *)
(* cofactor is negative.                                                    *)

TriDet(D, w, x, y, z) ==
    (D + w) * (D * D + D * z + D * x + x * z + D * y) - x * w * (D + z)

\* Cofactors of the rows, in the order of the solution.
Cof(D, w, x, y, z) ==
    << <<D * D + D * z + D * x + x * z + D * y, x * (D + z), x * z>>,
       <<w * (D + z), (D + w) * (D + z), (D + w) * z>>,
       <<w * y, (D + w) * y, D * D + D * x + D * y + D * w + w * y>> >>

LEMMA DetIdentity ==
  \A D, w, x, y, z \in Int :
    Det(<<D + w, -x, 0>>, <<-w, D + x + y, -z>>, <<0, -y, D + z>>) = TriDet(D, w, x, y, z)
BY DEF Det, TriDet

\* The columns of the cofactors sum to the determinant over D.
LEMMA ColumnSums ==
  \A D, w, x, y, z \in Int :
    /\ D * ((D * D + D * z + D * x + x * z + D * y) + w * (D + z) + w * y) = TriDet(D, w, x, y, z)
    /\ D * (x * (D + z) + (D + w) * (D + z) + (D + w) * y) = TriDet(D, w, x, y, z)
    /\ D * (x * z + (D + w) * z + (D * D + D * x + D * y + D * w + w * y)) = TriDet(D, w, x, y, z)
BY DEF TriDet

\* A line with momenta in the ratio of its densities stays as it is.
Ratios(w, x, y, z, r, s, t) == w * r = x * s /\ y * s = z * t

Solves(D, w, x, y, z, r, s, t) ==
  LET C(i, j) == Cof(D, w, x, y, z)[i][j]
  IN  /\ D * (r * C(1, 1) + s * C(1, 2) + t * C(1, 3)) = TriDet(D, w, x, y, z) * r
      /\ D * (r * C(2, 1) + s * C(2, 2) + t * C(2, 3)) = TriDet(D, w, x, y, z) * s
      /\ D * (r * C(3, 1) + s * C(3, 2) + t * C(3, 3)) = TriDet(D, w, x, y, z) * t

LEMMA RigidMotion ==
  ASSUME NEW D \in Int, NEW w \in Int, NEW x \in Int, NEW y \in Int, NEW z \in Int,
         NEW r \in Int, NEW s \in Int, NEW t \in Int, Ratios(w, x, y, z, r, s, t)
  PROVE  Solves(D, w, x, y, z, r, s, t)
<1> DEFINE C(i, j) == Cof(D, w, x, y, z)[i][j]
<1>1. /\ C(1, 1) = D * D + D * z + D * x + x * z + D * y /\ C(1, 2) = x * (D + z) /\ C(1, 3) = x * z
      /\ C(2, 1) = w * (D + z) /\ C(2, 2) = (D + w) * (D + z) /\ C(2, 3) = (D + w) * z
      /\ C(3, 1) = w * y /\ C(3, 2) = (D + w) * y
      /\ C(3, 3) = D * D + D * x + D * y + D * w + w * y
  BY DEF Cof
<1>2. /\ D * (r * (D * D + D * z + D * x + x * z + D * y) + s * (x * (D + z)) + t * (x * z))
              = TriDet(D, w, x, y, z) * r
      /\ D * (r * (w * (D + z)) + s * ((D + w) * (D + z)) + t * ((D + w) * z))
              = TriDet(D, w, x, y, z) * s
      /\ D * (r * (w * y) + s * ((D + w) * y) + t * (D * D + D * x + D * y + D * w + w * y))
              = TriDet(D, w, x, y, z) * t
  BY DEF TriDet, Ratios
<1> HIDE DEF C
<1>3. /\ D * (r * C(1, 1) + s * C(1, 2) + t * C(1, 3)) = TriDet(D, w, x, y, z) * r
      /\ D * (r * C(2, 1) + s * C(2, 2) + t * C(2, 3)) = TriDet(D, w, x, y, z) * s
      /\ D * (r * C(3, 1) + s * C(3, 2) + t * C(3, 3)) = TriDet(D, w, x, y, z) * t
  BY <1>1, <1>2, Zenon
<1> QED
  BY <1>3 DEF Solves, C

\* The system of three segments, by its five numbers.
System(D, w, x, y, z) ==
  /\ D \in Nat /\ D > 0 /\ w \in Nat /\ x \in Nat /\ y \in Nat /\ z \in Nat
  /\ w * rho[1] = x * rho[2] /\ y * rho[2] = z * rho[3]
  /\ row(1).b = D + w /\ row(1).c = -x
  /\ row(2).a = -w /\ row(2).b = D + x + y /\ row(2).c = -z
  /\ row(3).a = -y /\ row(3).b = D + z
  /\ 2 * P = D

LEMMA RowsOf ==
  ASSUME ColumnInv
  PROVE  \E D, w, x, y, z : System(D, w, x, y, z)
<1> DEFINE r == rho[1]
           s == rho[2]
           t == rho[3]
           c == mu[1] + mu[2]
           d == mu[2] + mu[3]
           D == 2 * P
           w == c * (s * t)
           x == c * (r * t)
           y == d * (r * t)
           z == d * (r * s)
<1>1. /\ r \in Nat /\ s \in Nat /\ t \in Nat /\ r > 0 /\ s > 0 /\ t > 0
      /\ c \in Nat /\ d \in Nat
  BY DEF ColumnInv
<1>2. /\ P \div rho[1] = s * t /\ P \div rho[2] = r * t /\ P \div rho[3] = r * s
      /\ P = r * s * t
  BY PDivided DEF P
<1>3. /\ coeff_face(0) = 0 /\ coeff_face(1) = c /\ coeff_face(2) = d /\ coeff_face(3) = 0
  BY DEF coeff_face
<1>4. /\ row(1).b = D + (0 + c) * (P \div rho[1])
      /\ row(1).c = -(c * (P \div rho[2]))
      /\ row(2).a = -(c * (P \div rho[1]))
      /\ row(2).b = D + (c + d) * (P \div rho[2])
      /\ row(2).c = -(d * (P \div rho[3]))
      /\ row(3).a = -(d * (P \div rho[2]))
      /\ row(3).b = D + (d + 0) * (P \div rho[3])
  <2> DEFINE Q(i) == P \div rho[i]
  <2>1. Q(1) \in Int /\ Q(2) \in Int /\ Q(3) \in Int
    BY <1>1, <1>2
  <2>2. \A i \in 1..3 : /\ row(i).b = D + (coeff_face(i - 1) + coeff_face(i)) * Q(i)
                        /\ i > 1 => row(i).a = - coeff_face(i - 1) * Q(i - 1)
                        /\ i < 3 => row(i).c = - coeff_face(i) * Q(i + 1)
    BY Zenon DEF row
  <2> HIDE DEF Q, c, d, D
  <2>3. /\ row(1).b = D + (coeff_face(0) + coeff_face(1)) * Q(1)
        /\ row(1).c = - coeff_face(1) * Q(2)
        /\ row(2).a = - coeff_face(1) * Q(1)
        /\ row(2).b = D + (coeff_face(1) + coeff_face(2)) * Q(2)
        /\ row(2).c = - coeff_face(2) * Q(3)
        /\ row(3).a = - coeff_face(2) * Q(2)
        /\ row(3).b = D + (coeff_face(2) + coeff_face(3)) * Q(3)
    BY <2>2
  <2>4. /\ - c * Q(2) = -(c * Q(2)) /\ - c * Q(1) = -(c * Q(1))
        /\ - d * Q(3) = -(d * Q(3)) /\ - d * Q(2) = -(d * Q(2))
    BY <1>1, <2>1
  <2>5. /\ row(1).b = D + (0 + c) * Q(1)
      /\ row(1).c = -(c * Q(2))
      /\ row(2).a = -(c * Q(1))
      /\ row(2).b = D + (c + d) * Q(2)
      /\ row(2).c = -(d * Q(3))
      /\ row(3).a = -(d * Q(2))
      /\ row(3).b = D + (d + 0) * Q(3)
    BY <1>3, <2>3, <2>4
  <2> QED
    BY <2>5 DEF Q
<1> HIDE DEF r, s, t, c, d
<1>5. /\ w \in Nat /\ x \in Nat /\ y \in Nat /\ z \in Nat /\ D \in Nat /\ D > 0
      /\ w * r = x * s /\ y * s = z * t
  <2>1. s * t \in Nat /\ r * t \in Nat /\ r * s \in Nat /\ s * t > 0
    BY <1>1
  <2>2. w \in Nat /\ x \in Nat /\ y \in Nat /\ z \in Nat
    BY <1>1, <2>1
  <2>3. r * (s * t) \in Nat /\ r * (s * t) > 0 /\ r * s * t = r * (s * t)
    BY <1>1, <2>1
  <2>4. D \in Nat /\ D > 0
    BY <1>2, <2>3
  <2>5. w * r = x * s /\ y * s = z * t
    BY <1>1
  <2> QED
    BY <2>2, <2>4, <2>5
<1>6. /\ row(1).b = D + w /\ row(1).c = -x
      /\ row(2).a = -w /\ row(2).b = D + x + y /\ row(2).c = -z
      /\ row(3).a = -y /\ row(3).b = D + z
  <2>1. c * (r * t) \in Int /\ d * (r * t) \in Int
    BY <1>5
  <2>2. (c + d) * (r * t) = c * (r * t) + d * (r * t)
    BY <1>1
  <2>3. 0 + c = c /\ d + 0 = d
    BY <1>1
  <2> QED
    BY <1>2, <1>4, <1>5, <2>1, <2>2, <2>3
<1>7. System(D, w, x, y, z)
  <2> HIDE DEF w, x, y, z
  <2> QED
    BY <1>5, <1>6 DEF System, r, s, t
<1> QED
  BY <1>7, Zenon

\* What the solver returns, by Cramer's rule.
LEMMA DiffusedOf ==
  ASSUME ColumnInv, NEW D, NEW w, NEW x, NEW y, NEW z, System(D, w, x, y, z)
  PROVE  /\ diffused.det = TriDet(D, w, x, y, z)
         /\ \A i \in 1..3 : diffused.rhou[i] =
              D * (rhou[1] * Cof(D, w, x, y, z)[i][1] + rhou[2] * Cof(D, w, x, y, z)[i][2]
                   + rhou[3] * Cof(D, w, x, y, z)[i][3])
<1> DEFINE r1 == row(1)
           r2 == row(2)
           r3 == row(3)
           A == << <<r1.b, r1.c, 0>>, <<r2.a, r2.b, r2.c>>, <<0, r3.a, r3.b>> >>
           rhs == <<2 * P * rhou[1], 2 * P * rhou[2], 2 * P * rhou[3]>>
           Replaced(n) == [i \in 1..3 |-> [A[i] EXCEPT ![n] = rhs[i]]]
           Solved(n) == LET M == Replaced(n) IN Det(M[1], M[2], M[3])
<1>1. diffused = [det |-> Det(A[1], A[2], A[3]), rhou |-> <<Solved(1), Solved(2), Solved(3)>>]
  BY Zenon DEF diffused
<1>2. /\ D \in Int /\ w \in Int /\ x \in Int /\ y \in Int /\ z \in Int
      /\ rhou[1] \in Int /\ rhou[2] \in Int /\ rhou[3] \in Int
  BY DEF System, ColumnInv
<1>3. /\ A[1] = <<D + w, -x, 0>> /\ A[2] = <<-w, D + x + y, -z>> /\ A[3] = <<0, -y, D + z>>
  BY DEF System
<1>4. rhs[1] = D * rhou[1] /\ rhs[2] = D * rhou[2] /\ rhs[3] = D * rhou[3]
  BY DEF System
<1> HIDE DEF A, rhs
<1>5. \A n \in 1..3 : Solved(n) =
         Det([A[1] EXCEPT ![n] = rhs[1]], [A[2] EXCEPT ![n] = rhs[2]], [A[3] EXCEPT ![n] = rhs[3]])
  OBVIOUS
<1>6. \A a, b, c, e : /\ [<<a, b, c>> EXCEPT ![1] = e] = <<e, b, c>>
                      /\ [<<a, b, c>> EXCEPT ![2] = e] = <<a, e, c>>
                      /\ [<<a, b, c>> EXCEPT ![3] = e] = <<a, b, e>>
  OBVIOUS
<1> HIDE DEF Solved
<1>7. /\ Solved(1) = Det(<<rhs[1], -x, 0>>, <<rhs[2], D + x + y, -z>>, <<rhs[3], -y, D + z>>)
      /\ Solved(2) = Det(<<D + w, rhs[1], 0>>, <<-w, rhs[2], -z>>, <<0, rhs[3], D + z>>)
      /\ Solved(3) = Det(<<D + w, -x, rhs[1]>>, <<-w, D + x + y, rhs[2]>>, <<0, -y, rhs[3]>>)
  <2> DEFINE N(i, n) == [A[i] EXCEPT ![n] = rhs[i]]
  <2>1. \A n \in 1..3 : Solved(n) = Det(N(1, n), N(2, n), N(3, n))
    BY <1>5
  <2>2. /\ N(1, 1) = <<rhs[1], -x, 0>> /\ N(1, 2) = <<D + w, rhs[1], 0>>
        /\ N(1, 3) = <<D + w, -x, rhs[1]>>
    BY <1>3, <1>6
  <2>3. /\ N(2, 1) = <<rhs[2], D + x + y, -z>> /\ N(2, 2) = <<-w, rhs[2], -z>>
        /\ N(2, 3) = <<-w, D + x + y, rhs[2]>>
    BY <1>3, <1>6
  <2>4. /\ N(3, 1) = <<rhs[3], -y, D + z>> /\ N(3, 2) = <<0, rhs[3], D + z>>
        /\ N(3, 3) = <<0, -y, rhs[3]>>
    BY <1>3, <1>6
  <2> HIDE DEF N
  <2>5. /\ Solved(1) = Det(N(1, 1), N(2, 1), N(3, 1))
        /\ Solved(2) = Det(N(1, 2), N(2, 2), N(3, 2))
        /\ Solved(3) = Det(N(1, 3), N(2, 3), N(3, 3))
    BY <2>1
  <2> QED
    BY <2>2, <2>3, <2>4, <2>5
<1>8. diffused.det = TriDet(D, w, x, y, z)
  BY <1>1, <1>2, <1>3, DetIdentity
<1> DEFINE C(i, j) == Cof(D, w, x, y, z)[i][j]
<1>9. /\ C(1, 1) = D * D + D * z + D * x + x * z + D * y /\ C(1, 2) = x * (D + z) /\ C(1, 3) = x * z
      /\ C(2, 1) = w * (D + z) /\ C(2, 2) = (D + w) * (D + z) /\ C(2, 3) = (D + w) * z
      /\ C(3, 1) = w * y /\ C(3, 2) = (D + w) * y
      /\ C(3, 3) = D * D + D * x + D * y + D * w + w * y
  BY DEF Cof
<1> HIDE DEF C
<1>10. \A i, j \in 1..3 : C(i, j) \in Int
  <2>1. /\ C(1, 1) \in Int /\ C(1, 2) \in Int /\ C(1, 3) \in Int
        /\ C(2, 1) \in Int /\ C(2, 2) \in Int /\ C(2, 3) \in Int
        /\ C(3, 1) \in Int /\ C(3, 2) \in Int /\ C(3, 3) \in Int
    BY <1>2, <1>9
  <2> QED
    BY <2>1
<1>11. \A i \in 1..3 : Solved(i) = rhs[1] * C(i, 1) + rhs[2] * C(i, 2) + rhs[3] * C(i, 3)
  <2> DEFINE e == rhs[1]
             f == rhs[2]
             g == rhs[3]
  <2>1. e \in Int /\ f \in Int /\ g \in Int
    BY <1>2, <1>4
  <2>2. /\ Solved(1) = Det(<<e, -x, 0>>, <<f, D + x + y, -z>>, <<g, -y, D + z>>)
        /\ Solved(2) = Det(<<D + w, e, 0>>, <<-w, f, -z>>, <<0, g, D + z>>)
        /\ Solved(3) = Det(<<D + w, -x, e>>, <<-w, D + x + y, f>>, <<0, -y, g>>)
    BY <1>7
  <2> HIDE DEF e, f, g
  <2>3. /\ Solved(1) = e * (D * D + D * z + D * x + x * z + D * y) + f * (x * (D + z)) + g * (x * z)
        /\ Solved(2) = e * (w * (D + z)) + f * ((D + w) * (D + z)) + g * ((D + w) * z)
        /\ Solved(3) = e * (w * y) + f * ((D + w) * y)
                         + g * (D * D + D * x + D * y + D * w + w * y)
    <3>1. Det(<<e, -x, 0>>, <<f, D + x + y, -z>>, <<g, -y, D + z>>)
            = e * (D * D + D * z + D * x + x * z + D * y) + f * (x * (D + z)) + g * (x * z)
      BY <1>2, <2>1 DEF Det
    <3>2. Det(<<D + w, e, 0>>, <<-w, f, -z>>, <<0, g, D + z>>)
            = e * (w * (D + z)) + f * ((D + w) * (D + z)) + g * ((D + w) * z)
      BY <1>2, <2>1 DEF Det
    <3>3. Det(<<D + w, -x, e>>, <<-w, D + x + y, f>>, <<0, -y, g>>)
            = e * (w * y) + f * ((D + w) * y) + g * (D * D + D * x + D * y + D * w + w * y)
      BY <1>2, <2>1 DEF Det
    <3> QED
      BY <2>2, <3>1, <3>2, <3>3
  <2>4. /\ Solved(1) = e * C(1, 1) + f * C(1, 2) + g * C(1, 3)
        /\ Solved(2) = e * C(2, 1) + f * C(2, 2) + g * C(2, 3)
        /\ Solved(3) = e * C(3, 1) + f * C(3, 2) + g * C(3, 3)
    BY <1>9, <2>3
  <2> QED
    BY <2>4 DEF e, f, g
<1>12. ASSUME NEW i \in 1..3
       PROVE  Solved(i) = D * (rhou[1] * C(i, 1) + rhou[2] * C(i, 2) + rhou[3] * C(i, 3))
  <2> DEFINE a == C(i, 1)
             b == C(i, 2)
             c == C(i, 3)
             m == rhou[1]
             n == rhou[2]
             o == rhou[3]
  <2>1. a \in Int /\ b \in Int /\ c \in Int /\ m \in Int /\ n \in Int /\ o \in Int
    BY <1>2, <1>10
  <2>2. Solved(i) = (D * m) * a + (D * n) * b + (D * o) * c
    BY <1>4, <1>11
  <2> HIDE DEF a, b, c, m, n, o
  <2>3. (D * m) * a + (D * n) * b + (D * o) * c = D * (m * a + n * b + o * c)
    BY <1>2, <2>1
  <2>4. Solved(i) = D * (m * a + n * b + o * c)
    BY <2>2, <2>3
  <2> QED
    BY <2>4 DEF a, b, c, m, n, o
<1>13. \A i \in 1..3 : diffused.rhou[i] = Solved(i)
  BY <1>1
<1> QED
  BY <1>8, <1>12, <1>13 DEF C

LEMMA CofactorsNat ==
  ASSUME NEW D \in Nat, D > 0, NEW w \in Nat, NEW x \in Nat, NEW y \in Nat, NEW z \in Nat
  PROVE  \A i, j \in 1..3 : Cof(D, w, x, y, z)[i][j] \in Nat
<1>1. \A a, b \in Nat : a * b \in Nat /\ a + b \in Nat
  OBVIOUS
<1>2. /\ D * D \in Nat /\ D * z \in Nat /\ D * x \in Nat /\ x * z \in Nat /\ D * y \in Nat
      /\ D + z \in Nat /\ D + w \in Nat /\ w * y \in Nat /\ D * w \in Nat
  BY <1>1
<1>3. /\ D * D + D * z + D * x + x * z + D * y \in Nat /\ x * (D + z) \in Nat
      /\ w * (D + z) \in Nat /\ (D + w) * (D + z) \in Nat /\ (D + w) * z \in Nat
      /\ (D + w) * y \in Nat /\ D * D + D * x + D * y + D * w + w * y \in Nat
  BY <1>1, <1>2
<1> DEFINE C(i, j) == Cof(D, w, x, y, z)[i][j]
<1>4. /\ C(1, 1) = D * D + D * z + D * x + x * z + D * y /\ C(1, 2) = x * (D + z) /\ C(1, 3) = x * z
      /\ C(2, 1) = w * (D + z) /\ C(2, 2) = (D + w) * (D + z) /\ C(2, 3) = (D + w) * z
      /\ C(3, 1) = w * y /\ C(3, 2) = (D + w) * y
      /\ C(3, 3) = D * D + D * x + D * y + D * w + w * y
  BY DEF Cof
<1> HIDE DEF C
<1>5. \A i, j \in 1..3 : C(i, j) \in Nat
  BY <1>2, <1>3, <1>4
<1> QED
  BY <1>5 DEF C

\* Some value is the greatest, some the least, in the order of the quotients.
LEMMA QuotientExtrema ==
  ASSUME NEW m \in [1..3 -> Int], NEW r \in [1..3 -> Nat \ {0}]
  PROVE  /\ \E j \in 1..3 : \A k \in 1..3 : m[k] * r[j] <= m[j] * r[k]
         /\ \E j \in 1..3 : \A k \in 1..3 : m[k] * r[j] >= m[j] * r[k]
<1> DEFINE Above(j, k) == m[k] * r[j] <= m[j] * r[k]
<1>1. \A j, k \in 1..3 : Above(j, k) \/ Above(k, j)
  <2> TAKE j, k \in 1..3
  <2>1. \A a, b \in Int : a * b \in Int
    OBVIOUS
  <2>2. m[k] * r[j] \in Int /\ m[j] * r[k] \in Int
    BY <2>1
  <2> QED
    BY <2>2
<1>2. ASSUME NEW i \in 1..3, NEW j \in 1..3, NEW k \in 1..3, Above(i, j), Above(j, k)
      PROVE  Above(i, k)
  <2> DEFINE a == m[i]
             b == m[j]
             c == m[k]
             p == r[i]
             q == r[j]
             s == r[k]
  <2>1. /\ a \in Int /\ b \in Int /\ c \in Int
        /\ p \in Nat /\ q \in Nat /\ s \in Nat /\ p > 0 /\ q > 0 /\ s > 0
    OBVIOUS
  <2>2. b * p <= a * q /\ c * q <= b * s
    BY <1>2
  <2> HIDE DEF a, b, c, p, q, s
  <2>3. (b * p) * s <= (a * q) * s /\ (c * q) * p <= (b * s) * p
    BY <2>1, <2>2
  <2>4. (b * p) * s = (b * s) * p /\ (a * q) * s = (a * s) * q /\ (c * q) * p = (c * p) * q
    BY <2>1
  <2>5. (c * p) * q <= (a * s) * q /\ c * p \in Int /\ a * s \in Int
    BY <2>1, <2>3, <2>4
  <2>6. \A x, y \in Int : x * q <= y * q => x <= y
    BY <2>1
  <2>7. c * p <= a * s
    BY <2>5, <2>6
  <2> QED
    BY <2>7 DEF a, b, c, p, q, s
<1> HIDE DEF Above
<1>3. \E j \in 1..3 : \A k \in 1..3 : Above(j, k)
  BY <1>1, <1>2
<1>4. \E j \in 1..3 : \A k \in 1..3 : Above(k, j)
  BY <1>1, <1>2
<1> QED
  BY <1>3, <1>4 DEF Above

\* A mean with weights that are not negative.
Balanced(D, a, b, c, r, det, i) == D * (r[1] * a + r[2] * b + r[3] * c) = det * r[i]

LEMMA WeightedBound ==
  ASSUME NEW D \in Nat, NEW a \in Nat, NEW b \in Nat, NEW c \in Nat,
         NEW m \in [1..3 -> Int], NEW r \in [1..3 -> Nat], NEW j \in 1..3,
         NEW det \in Int, NEW i \in 1..3, Balanced(D, a, b, c, r, det, i)
  PROVE  /\ (\A k \in 1..3 : m[k] * r[j] <= m[j] * r[k]) =>
              (D * (m[1] * a + m[2] * b + m[3] * c)) * r[j] <= det * m[j] * r[i]
         /\ (\A k \in 1..3 : m[k] * r[j] >= m[j] * r[k]) =>
              (D * (m[1] * a + m[2] * b + m[3] * c)) * r[j] >= det * m[j] * r[i]
<1> DEFINE R == r[j]
           M == m[j]
           m1 == m[1]
           m2 == m[2]
           m3 == m[3]
           s1 == r[1]
           s2 == r[2]
           s3 == r[3]
           ri == r[i]
           left == (D * (m1 * a + m2 * b + m3 * c)) * R
           right == det * M * ri
<1>1. /\ R \in Nat /\ M \in Int /\ m1 \in Int /\ m2 \in Int /\ m3 \in Int
      /\ s1 \in Nat /\ s2 \in Nat /\ s3 \in Nat /\ ri \in Nat
  OBVIOUS
<1>2. D * (s1 * a + s2 * b + s3 * c) = det * ri
  BY DEF Balanced
<1> HIDE DEF R, M, m1, m2, m3, s1, s2, s3, ri
<1> DEFINE x1 == m1 * R
           x2 == m2 * R
           x3 == m3 * R
           y1 == M * s1
           y2 == M * s2
           y3 == M * s3
<1>3. /\ x1 \in Int /\ x2 \in Int /\ x3 \in Int
      /\ y1 \in Int /\ y2 \in Int /\ y3 \in Int
  BY <1>1
<1>4. left = D * (x1 * a + x2 * b + x3 * c)
  BY <1>1
<1>5. right = D * (y1 * a + y2 * b + y3 * c)
  <2>1. det * M * ri = M * (det * ri)
    BY <1>1
  <2>2. M * (D * (s1 * a + s2 * b + s3 * c)) = D * (y1 * a + y2 * b + y3 * c)
    BY <1>1
  <2> QED
    BY <1>2, <2>1, <2>2
<1> HIDE DEF x1, x2, x3, y1, y2, y3, left, right
<1>6. \A u, v \in Int, n \in Nat : u <= v => u * n <= v * n
  OBVIOUS
<1>7. ASSUME NEW u1 \in Int, NEW u2 \in Int, NEW u3 \in Int,
             NEW v1 \in Int, NEW v2 \in Int, NEW v3 \in Int,
             u1 <= v1, u2 <= v2, u3 <= v3
      PROVE  D * (u1 * a + u2 * b + u3 * c) <= D * (v1 * a + v2 * b + v3 * c)
  <2> DEFINE p1 == u1 * a
             p2 == u2 * b
             p3 == u3 * c
             q1 == v1 * a
             q2 == v2 * b
             q3 == v3 * c
             u == p1 + p2 + p3
             v == q1 + q2 + q3
  <2>1. /\ p1 <= q1 /\ p2 <= q2 /\ p3 <= q3
        /\ p1 \in Int /\ p2 \in Int /\ p3 \in Int
        /\ q1 \in Int /\ q2 \in Int /\ q3 \in Int
    BY <1>6, <1>7
  <2> HIDE DEF p1, p2, p3, q1, q2, q3
  <2>2. u \in Int /\ v \in Int /\ u <= v
    BY <2>1
  <2> HIDE DEF u, v
  <2>3. D * u <= D * v
    BY <2>2
  <2> QED
    BY <2>3 DEF u, v, p1, p2, p3, q1, q2, q3
<1>8. x1 <= y1 /\ x2 <= y2 /\ x3 <= y3 => left <= right
  BY <1>3, <1>4, <1>5, <1>7
<1>9. x1 >= y1 /\ x2 >= y2 /\ x3 >= y3 => left >= right
  <2>1. left \in Int /\ right \in Int
    BY <1>3, <1>4, <1>5
  <2>2. x1 >= y1 /\ x2 >= y2 /\ x3 >= y3 => right <= left
    BY <1>3, <1>4, <1>5, <1>7
  <2> QED
    BY <2>1, <2>2
<1>10. ASSUME \A k \in 1..3 : m[k] * r[j] <= m[j] * r[k] PROVE x1 <= y1 /\ x2 <= y2 /\ x3 <= y3
  BY <1>10 DEF x1, x2, x3, y1, y2, y3, R, M, m1, m2, m3, s1, s2, s3
<1>11. ASSUME \A k \in 1..3 : m[k] * r[j] >= m[j] * r[k] PROVE x1 >= y1 /\ x2 >= y2 /\ x3 >= y3
  BY <1>11 DEF x1, x2, x3, y1, y2, y3, R, M, m1, m2, m3, s1, s2, s3
<1>12. /\ left = (D * (m[1] * a + m[2] * b + m[3] * c)) * r[j]
       /\ right = det * m[j] * r[i]
  BY Zenon DEF left, right, R, M, m1, m2, m3, ri
<1> QED
  BY <1>8, <1>9, <1>10, <1>11, <1>12

(***************************************************************************)
(* The implicit step of applyImplicitUniform keeps the momentum of three   *)
(* segments and bounds every velocity by the velocities the line had: for  *)
(* all densities, momenta, viscosities, and so for steps of any length.    *)
(***************************************************************************)
THEOREM LineDiffusionSound == ColumnSpec => []DiffusionSound
<1>1. ColumnInv => DiffusionSound
  <2> SUFFICES ASSUME ColumnInv PROVE DiffusionSound
    OBVIOUS
  <2>1. PICK D, w, x, y, z : System(D, w, x, y, z)
    BY RowsOf
  <2> DEFINE det == TriDet(D, w, x, y, z)
             C(i, j) == Cof(D, w, x, y, z)[i][j]
             new(i) == D * (rhou[1] * C(i, 1) + rhou[2] * C(i, 2) + rhou[3] * C(i, 3))
  <2>2. diffused.det = det /\ \A i \in 1..3 : diffused.rhou[i] = new(i)
    BY <2>1, DiffusedOf
  <2>3. /\ D \in Nat /\ D > 0 /\ w \in Nat /\ x \in Nat /\ y \in Nat /\ z \in Nat
        /\ w * rho[1] = x * rho[2] /\ y * rho[2] = z * rho[3]
    BY <2>1 DEF System
  <2>4. \A i, j \in 1..3 : C(i, j) \in Nat
    BY <2>3, CofactorsNat
  <2>5. /\ rhou \in [1..3 -> Int] /\ rho \in [1..3 -> Nat \ {0}]
        /\ rho \in [1..3 -> Nat]
    BY DEF ColumnInv
  <2>6. /\ D * (C(1, 1) + C(2, 1) + C(3, 1)) = det
        /\ D * (C(1, 2) + C(2, 2) + C(3, 2)) = det
        /\ D * (C(1, 3) + C(2, 3) + C(3, 3)) = det
    BY <2>3, ColumnSums DEF Cof
  <2>7. \A i \in 1..3 : D * (rho[1] * C(i, 1) + rho[2] * C(i, 2) + rho[3] * C(i, 3)) = det * rho[i]
    <3> DEFINE r == rho[1]
               s == rho[2]
               t == rho[3]
    <3>1. r \in Int /\ s \in Int /\ t \in Int /\ w * r = x * s /\ y * s = z * t
      BY <2>3, <2>5
    <3> HIDE DEF r, s, t
    <3>2. /\ D * (r * C(1, 1) + s * C(1, 2) + t * C(1, 3)) = det * r
          /\ D * (r * C(2, 1) + s * C(2, 2) + t * C(2, 3)) = det * s
          /\ D * (r * C(3, 1) + s * C(3, 2) + t * C(3, 3)) = det * t
      <4>1. Ratios(w, x, y, z, r, s, t)
        BY <3>1 DEF Ratios
      <4>2. D \in Int /\ w \in Int /\ x \in Int /\ y \in Int /\ z \in Int
        BY <2>3
      <4>3. Solves(D, w, x, y, z, r, s, t)
        BY <3>1, <4>1, <4>2, RigidMotion
      <4> QED
        BY <4>3 DEF Solves
    <3> HIDE DEF C, det
    <3> QED
      BY <3>2 DEF r, s, t
  <2>8. det \in Int
    BY <2>3 DEF TriDet
  <2> HIDE DEF C, det
  <2>9. DiffusionConserves
    <3> DEFINE m == rhou[1]
               n == rhou[2]
               o == rhou[3]
    <3>1. m \in Int /\ n \in Int /\ o \in Int
      BY <2>5
    <3>2. /\ C(1, 1) \in Int /\ C(1, 2) \in Int /\ C(1, 3) \in Int
          /\ C(2, 1) \in Int /\ C(2, 2) \in Int /\ C(2, 3) \in Int
          /\ C(3, 1) \in Int /\ C(3, 2) \in Int /\ C(3, 3) \in Int
      BY <2>4
    <3> HIDE DEF m, n, o
    <3>3. D * (m * C(1, 1) + n * C(1, 2) + o * C(1, 3))
            + D * (m * C(2, 1) + n * C(2, 2) + o * C(2, 3))
            + D * (m * C(3, 1) + n * C(3, 2) + o * C(3, 3))
          = m * (D * (C(1, 1) + C(2, 1) + C(3, 1))) + n * (D * (C(1, 2) + C(2, 2) + C(3, 2)))
            + o * (D * (C(1, 3) + C(2, 3) + C(3, 3)))
      BY <2>3, <3>1, <3>2
    <3>4. m * det + n * det + o * det = det * (m + n + o)
      BY <2>8, <3>1
    <3>5. new(1) + new(2) + new(3) = det * mean_rho_u
      BY <2>6, <3>3, <3>4 DEF m, n, o, mean_rho_u
    <3> QED
      BY <2>2, <3>5 DEF DiffusionConserves
  <2>10. DiffusionBoundsVelocity
    <3>1. ASSUME NEW i \in 1..3, NEW j \in 1..3
          PROVE  /\ (\A k \in 1..3 : rhou[k] * rho[j] <= rhou[j] * rho[k]) =>
                      new(i) * rho[j] <= det * rhou[j] * rho[i]
                 /\ (\A k \in 1..3 : rhou[k] * rho[j] >= rhou[j] * rho[k]) =>
                      new(i) * rho[j] >= det * rhou[j] * rho[i]
      <4>1. /\ C(i, 1) \in Nat /\ C(i, 2) \in Nat /\ C(i, 3) \in Nat
            /\ Balanced(D, C(i, 1), C(i, 2), C(i, 3), rho, det, i)
        BY <2>4, <2>7 DEF Balanced
      <4> QED
        BY <2>3, <2>5, <2>8, <4>1, WeightedBound
    <3> HIDE DEF new
    <3>2. \A i \in 1..3 : \E j \in 1..3 : new(i) * rho[j] <= det * rhou[j] * rho[i]
      BY <2>5, <3>1, QuotientExtrema
    <3>3. \A i \in 1..3 : \E j \in 1..3 : new(i) * rho[j] >= det * rhou[j] * rho[i]
      BY <2>5, <3>1, QuotientExtrema
    <3>4. \A i \in 1..3 : /\ \E j \in 1..3 : diffused.rhou[i] * rho[j] <= diffused.det * rhou[j] * rho[i]
                          /\ \E j \in 1..3 : diffused.rhou[i] * rho[j] >= diffused.det * rhou[j] * rho[i]
      BY <2>2, <3>2, <3>3
    <3> QED
      BY <3>4, Zenon DEF DiffusionBoundsVelocity
  <2> QED
    BY <2>9, <2>10 DEF DiffusionSound
<1> QED
  BY <1>1, ColumnInvariant, PTL

-----------------------------------------------------------------------------
(* Velocity gradients and the stresses made of them. *)

StressTypeInv == gradient \in [Axes -> [Axes -> Int]]

\* The velocity at the cells a face's gradient is made of.
LEMMA UAt ==
  ASSUME StressTypeInv, NEW c \in Axes, NEW t \in Axes
  PROVE  /\ U(c, Offset(t, 0)) = 0
         /\ U(c, Offset(t, 1)) = gradient[c][t]
         /\ U(c, Offset(t, -1)) = 0 - gradient[c][t]
<1>1. gradient[c][1] \in Int /\ gradient[c][2] \in Int /\ gradient[c][3] \in Int
  BY DEF StressTypeInv, Axes
<1>2. ASSUME NEW n \in Int
      PROVE  U(c, Offset(t, n)) = gradient[c][1] * (IF t = 1 THEN n ELSE 0)
                 + gradient[c][2] * (IF t = 2 THEN n ELSE 0)
                 + gradient[c][3] * (IF t = 3 THEN n ELSE 0)
  BY DEF U, Offset, Axes
<1>3. t = 1 \/ t = 2 \/ t = 3
  BY DEF Axes
<1>4. ASSUME NEW n \in Int PROVE U(c, Offset(t, n)) = n * gradient[c][t]
  BY <1>1, <1>2, <1>3
<1>5. \A n \in Int : U(c, Offset(t, n)) = n * gradient[c][t]
  BY <1>4
<1>6. 0 \in Int /\ 1 \in Int /\ -1 \in Int /\ gradient[c][t] \in Int
  BY <1>1, <1>3
<1>7. /\ U(c, Offset(t, 0)) = 0 * gradient[c][t]
      /\ U(c, Offset(t, 1)) = 1 * gradient[c][t]
      /\ U(c, Offset(t, -1)) = (-1) * gradient[c][t]
  BY <1>5, <1>6, Zenon
<1> QED
  BY <1>6, <1>7

LEMMA UApart ==
  ASSUME StressTypeInv, NEW c \in Axes, NEW t \in Axes, NEW d \in Axes \ {t}
  PROVE  /\ U(c, Apart(t, 1, d)) = gradient[c][t] - gradient[c][d]
         /\ U(c, Apart(t, -1, d)) = 0 - gradient[c][t] - gradient[c][d]
<1>1. gradient[c][1] \in Int /\ gradient[c][2] \in Int /\ gradient[c][3] \in Int
  BY DEF StressTypeInv, Axes
<1>2. t \in {1, 2, 3} /\ d \in {1, 2, 3} /\ t # d /\ 1 \in Axes /\ 2 \in Axes /\ 3 \in Axes
  BY DEF Axes
<1>3. ASSUME NEW n \in Int
      PROVE  U(c, Apart(t, n, d)) = n * gradient[c][t] - gradient[c][d]
  <2>1. \A a \in Axes : Apart(t, n, d)[a] = IF a = d THEN -1 ELSE IF a = t THEN n ELSE 0
    BY DEF Apart, Offset
  <2>2. U(c, Apart(t, n, d)) = gradient[c][1] * (IF 1 = d THEN -1 ELSE IF 1 = t THEN n ELSE 0)
                 + gradient[c][2] * (IF 2 = d THEN -1 ELSE IF 2 = t THEN n ELSE 0)
                 + gradient[c][3] * (IF 3 = d THEN -1 ELSE IF 3 = t THEN n ELSE 0)
    BY <1>2, <2>1 DEF U
  <2> QED
    BY <1>1, <1>2, <2>2
<1>4. \A n \in Int : U(c, Apart(t, n, d)) = n * gradient[c][t] - gradient[c][d]
  BY <1>3
<1>5. 1 \in Int /\ -1 \in Int /\ gradient[c][t] \in Int /\ gradient[c][d] \in Int
  BY <1>1, <1>2
<1>6. /\ U(c, Apart(t, 1, d)) = 1 * gradient[c][t] - gradient[c][d]
      /\ U(c, Apart(t, -1, d)) = (-1) * gradient[c][t] - gradient[c][d]
  BY <1>4, <1>5, Zenon
<1> QED
  BY <1>5, <1>6

\* Four times the gradient: what the code makes of it at every face.
FaceG == Matrix(LAMBDA n, t : 4 * gradient[n][t])

LEMMA FaceGOf ==
  FaceG = << <<4 * gradient[1][1], 4 * gradient[1][2], 4 * gradient[1][3]>>,
         <<4 * gradient[2][1], 4 * gradient[2][2], 4 * gradient[2][3]>>,
         <<4 * gradient[3][1], 4 * gradient[3][2], 4 * gradient[3][3]>> >>
BY DEF FaceG, Matrix, Row

LEMMA FaceGradientOf ==
  ASSUME StressTypeInv, NEW d \in Axes
  PROVE  faceGradient(d) = FaceG
<1> DEFINE td == pc_compute_tangential_vel_derivs(d)
           e(n, t) == CASE t = d     -> 4 * (U(n, Offset(d, 0)) - U(n, Offset(d, -1)))
                        [] t = c1(d) -> td[n - 1]
                        [] t = c2(d) -> td[n + 2]
<1>1. faceGradient(d) = << <<e(1, 1), e(1, 2), e(1, 3)>>, <<e(2, 1), e(2, 2), e(2, 3)>>,
                           <<e(3, 1), e(3, 2), e(3, 3)>> >>
  BY Zenon DEF faceGradient, Matrix, Row
<1>2. ASSUME NEW n \in Axes, NEW t \in Axes PROVE e(n, t) = 4 * gradient[n][t]
  <2>0. n \in {1, 2, 3} /\ t \in {1, 2, 3} /\ d \in {1, 2, 3}
    BY DEF Axes
  <2>1. c1(d) \in Axes \ {d} /\ c2(d) \in Axes \ {d} /\ c1(d) # c2(d)
        /\ (t = d \/ t = c1(d) \/ t = c2(d))
    BY <2>0 DEF c1, c2, Axes
  <2>2. gradient[n][t] \in Int /\ gradient[n][d] \in Int
    BY DEF StressTypeInv
  <2> DEFINE across(c, k) == U(c, Offset(k, 1)) + U(c, Apart(k, 1, d))
                             - U(c, Offset(k, -1)) - U(c, Apart(k, -1, d))
  <2>3. ASSUME t # d PROVE across(n, t) = 4 * gradient[n][t]
    <3>1. /\ U(n, Offset(t, 1)) = gradient[n][t]
          /\ U(n, Offset(t, -1)) = 0 - gradient[n][t]
      BY UAt
    <3>2. /\ U(n, Apart(t, 1, d)) = gradient[n][t] - gradient[n][d]
          /\ U(n, Apart(t, -1, d)) = 0 - gradient[n][t] - gradient[n][d]
      BY <2>3, UApart
    <3> QED
      BY <2>2, <3>1, <3>2
  <2>4. td = [m \in 0..5 |-> across((m % 3) + 1, tangential(d)[(m \div 3) + 1])]
    BY Zenon DEF pc_compute_tangential_vel_derivs
  <2> HIDE DEF td, across
  <2>5. td[n - 1] = across(n, c1(d)) /\ td[n + 2] = across(n, c2(d))
    <3>1. /\ n - 1 \in 0..5 /\ ((n - 1) % 3) + 1 = n /\ ((n - 1) \div 3) + 1 = 1
          /\ n + 2 \in 0..5 /\ ((n + 2) % 3) + 1 = n /\ ((n + 2) \div 3) + 1 = 2
      BY <2>0
    <3>2. tangential(d)[1] = c1(d) /\ tangential(d)[2] = c2(d)
      BY DEF tangential
    <3> QED
      BY <2>4, <3>1, <3>2
  <2>6. CASE t = d
    <3>1. e(n, t) = 4 * (U(n, Offset(d, 0)) - U(n, Offset(d, -1)))
      BY <2>1, <2>6
    <3>2. U(n, Offset(d, 0)) = 0 /\ U(n, Offset(d, -1)) = 0 - gradient[n][d]
      BY UAt
    <3> QED
      BY <2>2, <2>6, <3>1, <3>2
  <2>7. CASE t = c1(d)
    <3>1. e(n, t) = td[n - 1]
      BY <2>1, <2>7
    <3> QED
      BY <2>1, <2>3, <2>5, <2>7, <3>1
  <2>8. CASE t = c2(d)
    <3>1. e(n, t) = td[n + 2]
      BY <2>1, <2>8
    <3> QED
      BY <2>1, <2>3, <2>5, <2>8, <3>1
  <2> QED
    BY <2>1, <2>6, <2>7, <2>8
<1> HIDE DEF e
<1> QED
  BY <1>1, <1>2, FaceGOf DEF Axes

\* How the velocity changes when one coordinate does.
LEMMA UAlong ==
  ASSUME StressTypeInv, NEW c \in Axes, NEW t \in Axes, NEW p \in [Axes -> Int],
         NEW v \in Int, NEW w \in Int
  PROVE  U(c, [p EXCEPT ![t] = v]) - U(c, [p EXCEPT ![t] = w]) = (v - w) * gradient[c][t]
<1> DEFINE a == gradient[c][1]
           b == gradient[c][2]
           d == gradient[c][3]
           x == p[1]
           y == p[2]
           z == p[3]
<1>1. /\ a \in Int /\ b \in Int /\ d \in Int /\ x \in Int /\ y \in Int /\ z \in Int
      /\ t \in {1, 2, 3}
  BY DEF StressTypeInv, Axes
<1>2. ASSUME NEW q \in Int
      PROVE  U(c, [p EXCEPT ![t] = q]) = a * (IF 1 = t THEN q ELSE x)
                 + b * (IF 2 = t THEN q ELSE y) + d * (IF 3 = t THEN q ELSE z)
  BY DEF U, Axes
<1>3. gradient[c][t] = IF t = 1 THEN a ELSE IF t = 2 THEN b ELSE d
  BY <1>1
<1> DEFINE V == U(c, [p EXCEPT ![t] = v])
           W == U(c, [p EXCEPT ![t] = w])
<1>4. /\ V = a * (IF 1 = t THEN v ELSE x) + b * (IF 2 = t THEN v ELSE y)
                 + d * (IF 3 = t THEN v ELSE z)
      /\ W = a * (IF 1 = t THEN w ELSE x) + b * (IF 2 = t THEN w ELSE y)
                 + d * (IF 3 = t THEN w ELSE z)
  BY <1>2
<1> HIDE DEF a, b, d, x, y, z, V, W
<1>5. V - W = (v - w) * (IF t = 1 THEN a ELSE IF t = 2 THEN b ELSE d)
  <2>1. CASE t = 1
    <3>1. V = a * v + b * y + d * z /\ W = a * w + b * y + d * z
      BY <1>4, <2>1
    <3> QED
      BY <1>1, <2>1, <3>1
  <2>2. CASE t = 2
    <3>1. V = a * x + b * v + d * z /\ W = a * x + b * w + d * z
      BY <1>4, <2>2
    <3> QED
      BY <1>1, <2>2, <3>1
  <2>3. CASE t = 3
    <3>1. V = a * x + b * y + d * v /\ W = a * x + b * y + d * w
      BY <1>4, <2>3
    <3> QED
      BY <1>1, <2>3, <3>1
  <2> QED
    BY <1>1, <2>1, <2>2, <2>3
<1> QED
  BY <1>3, <1>5 DEF V, W

LEMMA OffsetType ==
  ASSUME NEW t \in Axes, NEW n \in Int PROVE Offset(t, n) \in [Axes -> Int]
BY DEF Offset

\* A one-sided or central difference, with its weight, is the gradient.
LEMMA OneSidedOf ==
  ASSUME StressTypeInv, NEW c \in Axes, NEW t \in Axes, NEW p \in [Axes -> Int],
         NEW open \in Sides
  PROVE  OneSided(c, t, p, open) = 2 * gradient[c][t]
<1> DEFINE up == IF 1 \in open THEN 1 ELSE 0
           down == IF -1 \in open THEN 1 ELSE 0
           g == gradient[c][t]
<1>1. g \in Int
  BY DEF StressTypeInv
<1>2. U(c, [p EXCEPT ![t] = up]) - U(c, [p EXCEPT ![t] = -down]) = (up - (-down)) * g
  <2>1. up \in Int /\ -down \in Int
    OBVIOUS
  <2> HIDE DEF up, down
  <2> QED
    BY <2>1, UAlong
<1>3. OneSided(c, t, p, open) =
        (U(c, [p EXCEPT ![t] = up]) - U(c, [p EXCEPT ![t] = -down])) * weights2[up + down + 1]
  BY Zenon DEF OneSided
<1>4. /\ up = 1 \/ down = 1
      /\ up \in {0, 1} /\ down \in {0, 1}
  BY DEF Sides
<1>5. weights2[2] = 2 /\ weights2[3] = 1
  BY DEF weights2
<1> HIDE DEF up, down, g
<1>6. (up - (-down)) * weights2[up + down + 1] = 2
  <2>1. CASE up = 1 /\ down = 1
    BY <1>5, <2>1
  <2>2. CASE up = 1 /\ down = 0
    BY <1>5, <2>2
  <2>3. CASE up = 0 /\ down = 1
    BY <1>5, <2>3
  <2> QED
    BY <1>4, <2>1, <2>2, <2>3
<1>7. weights2[up + down + 1] \in Int
  <2>1. up + down + 1 \in {2, 3}
    BY <1>4
  <2> QED
    BY <1>5, <2>1
<1>8. OneSided(c, t, p, open) = ((up - (-down)) * g) * weights2[up + down + 1]
  BY <1>2, <1>3
<1> DEFINE k == up - (-down)
           m == weights2[up + down + 1]
<1>9. k \in Int /\ m \in Int /\ k * m = 2
  BY <1>4, <1>6, <1>7
<1> HIDE DEF k, m
<1>10. (k * g) * m = (k * m) * g
  BY <1>1, <1>9
<1> QED
  BY <1>1, <1>8, <1>9, <1>10 DEF g, k, m

LEMMA CutGradientOf ==
  ASSUME StressTypeInv, NEW d \in Axes, NEW a \in Sides, NEW b \in Sides
  PROVE  cutGradient(d, a, b) = FaceG
<1> DEFINE e(n, t) ==
          IF t = d THEN 4 * (U(n, Offset(d, 0)) - U(n, Offset(d, -1)))
          ELSE OneSided(n, t, Offset(d, 0), a) + OneSided(n, t, Offset(d, -1), b)
<1>1. cutGradient(d, a, b) = << <<e(1, 1), e(1, 2), e(1, 3)>>, <<e(2, 1), e(2, 2), e(2, 3)>>,
                                <<e(3, 1), e(3, 2), e(3, 3)>> >>
  BY Zenon DEF cutGradient, Matrix, Row
<1>2. ASSUME NEW n \in Axes, NEW t \in Axes PROVE e(n, t) = 4 * gradient[n][t]
  <2>1. gradient[n][t] \in Int /\ gradient[n][d] \in Int
    BY DEF StressTypeInv
  <2>2. U(n, Offset(d, 0)) = 0 /\ U(n, Offset(d, -1)) = 0 - gradient[n][d]
    BY UAt
  <2>3. /\ OneSided(n, t, Offset(d, 0), a) = 2 * gradient[n][t]
        /\ OneSided(n, t, Offset(d, -1), b) = 2 * gradient[n][t]
    <3>1. Offset(d, 0) \in [Axes -> Int] /\ Offset(d, -1) \in [Axes -> Int]
      BY OffsetType
    <3> QED
      BY <3>1, OneSidedOf
  <2> QED
    BY <2>1, <2>2, <2>3
<1> HIDE DEF e
<1> QED
  BY <1>1, <1>2, FaceGOf DEF Axes

LEMMA DerivativeOf ==
  ASSUME StressTypeInv, NEW c \in Axes, NEW t \in Axes, NEW open \in Sides
  PROVE  Derivative(c, t, open) = 2 * gradient[c][t]
<1> DEFINE g == gradient[c][t]
           idx == get_idx(open)
<1>1. g \in Int
  BY DEF StressTypeInv
<1>2. /\ U(c, Offset(t, 0)) = 0 /\ U(c, Offset(t, 1)) = g /\ U(c, Offset(t, -1)) = 0 - g
  BY UAt
<1>3. idx = << IF -1 \in open THEN -1 ELSE 0, IF 1 \in open THEN 1 ELSE 0 >>
  BY DEF get_idx
<1>4. -1 \in open \/ 1 \in open
  BY DEF Sides
<1>5. Derivative(c, t, open) =
        get_weight(idx) * (U(c, Offset(t, idx[2])) - U(c, Offset(t, idx[1])))
  BY DEF Derivative
<1>6. get_weight(idx) = IF idx[2] - idx[1] = 0 THEN 0 ELSE IF idx[2] - idx[1] = 1 THEN 2 ELSE 1
  BY DEF get_weight
<1> HIDE DEF g, idx
<1>7. CASE -1 \in open /\ 1 \in open
  <2>1. idx[1] = -1 /\ idx[2] = 1
    BY <1>3, <1>7
  <2> QED
    BY <1>1, <1>2, <1>5, <1>6, <2>1 DEF g
<1>8. CASE -1 \in open /\ 1 \notin open
  <2>1. idx[1] = -1 /\ idx[2] = 0
    BY <1>3, <1>8
  <2> QED
    BY <1>1, <1>2, <1>5, <1>6, <2>1 DEF g
<1>9. CASE -1 \notin open /\ 1 \in open
  <2>1. idx[1] = 0 /\ idx[2] = 1
    BY <1>3, <1>9
  <2> QED
    BY <1>1, <1>2, <1>5, <1>6, <2>1 DEF g
<1> QED
  BY <1>4, <1>7, <1>8, <1>9

\* The cell-centred gradient is that at the faces.
LEMMA CentredGradientOf ==
  ASSUME StressTypeInv
  PROVE  Matrix(LAMBDA n, t : 2 * (U(n, Offset(t, 1)) - U(n, Offset(t, -1)))) = FaceG
<1> DEFINE e(n, t) == 2 * (U(n, Offset(t, 1)) - U(n, Offset(t, -1)))
<1>1. Matrix(e) = << <<e(1, 1), e(1, 2), e(1, 3)>>, <<e(2, 1), e(2, 2), e(2, 3)>>,
                     <<e(3, 1), e(3, 2), e(3, 3)>> >>
  BY Zenon DEF Matrix, Row
<1>2. ASSUME NEW n \in Axes, NEW t \in Axes PROVE e(n, t) = 4 * gradient[n][t]
  <2>1. gradient[n][t] \in Int
    BY DEF StressTypeInv
  <2>2. U(n, Offset(t, 1)) = gradient[n][t] /\ U(n, Offset(t, -1)) = 0 - gradient[n][t]
    BY UAt
  <2> QED
    BY <2>1, <2>2
<1>3. Matrix(e) = FaceG
  <2> HIDE DEF e
  <2> QED
    BY <1>1, <1>2, FaceGOf DEF Axes
<1> QED
  BY <1>3

-----------------------------------------------------------------------------
(* The closures on a gradient, and what they make of its strain alone.      *)

Matrices == [Axes -> [Axes -> Int]]

WaleRadicand(g) ==
    LET g2 == Matrix(LAMBDA m, n : Sum1(LAMBDA k : g[m][k] * g[k][n]))
        g2kk == Sum1(LAMBDA k : g2[k][k])
        Dij(m, n) == 3 * (g2[m][n] + g2[n][m]) - (IF m = n THEN 2 * g2kk ELSE 0)
    IN  Sum2(LAMBDA m, n : squared(Dij(m, n) \div 16))

VremanRadicand(g) ==
    LET beta == Matrix(LAMBDA m, n : Sum1(LAMBDA k : (g[k][m] \div 4) * (g[k][n] \div 4)))
    IN  beta[1][1] * beta[2][2] - squared(beta[1][2]) + beta[1][1] * beta[3][3]
                 - squared(beta[1][3]) + beta[2][2] * beta[3][3] - squared(beta[2][3])

VremanDivisor(g) == Sum2(LAMBDA m, n : squared(g[m][n]))

LEMMA ClosuresOf ==
  ASSUME StressTypeInv, NEW d \in Axes
  PROVE  allClosures[d] =
           << [alphaij |-> traceFree(FaceG, d), radicand |-> SijSij(FaceG), divisor |-> 1],
              [alphaij |-> traceFree(FaceG, d), radicand |-> WaleRadicand(FaceG),
               divisor |-> SijSij(FaceG) + WaleRadicand(FaceG)],
              [alphaij |-> traceFree(FaceG, d), radicand |-> VremanRadicand(FaceG),
               divisor |-> VremanDivisor(FaceG)],
              [alphaij |-> traceFree(FaceG, d), radicand |-> SijSij(FaceG), divisor |-> 1] >>
<1>1. allClosures[d] = closures(d)
  BY DEF allClosures, Row, Axes
<1>2. get_smagorinsky_sfs_stresses(FaceG, d) =
        [alphaij |-> traceFree(FaceG, d), radicand |-> SijSij(FaceG), divisor |-> 1]
  BY Zenon DEF get_smagorinsky_sfs_stresses
<1>3. get_wale_sfs_stresses(FaceG, d) =
        [alphaij |-> traceFree(FaceG, d), radicand |-> WaleRadicand(FaceG),
         divisor |-> SijSij(FaceG) + WaleRadicand(FaceG)]
  BY Zenon DEF get_wale_sfs_stresses, WaleRadicand
<1>4. get_vreman_sfs_stresses(FaceG, d) =
        [alphaij |-> traceFree(FaceG, d), radicand |-> VremanRadicand(FaceG),
         divisor |-> VremanDivisor(FaceG)]
  BY Zenon DEF get_vreman_sfs_stresses, VremanRadicand, VremanDivisor
<1>5. get_sfs_stresses_cc(d) =
        [alphaij |-> traceFree(FaceG, d), radicand |-> SijSij(FaceG), divisor |-> 1]
  <2> DEFINE C == Matrix(LAMBDA n, t : 2 * (U(n, Offset(t, 1)) - U(n, Offset(t, -1))))
  <2>1. get_sfs_stresses_cc(d) =
        [alphaij |-> traceFree(C, d), radicand |-> SijSij(C), divisor |-> 1]
    BY Zenon DEF get_sfs_stresses_cc
  <2>2. C = FaceG
    BY CentredGradientOf
  <2> HIDE DEF C
  <2> QED
    BY <2>1, <2>2
<1>6. closures(d) = << get_smagorinsky_sfs_stresses(FaceG, d), get_wale_sfs_stresses(FaceG, d),
                       get_vreman_sfs_stresses(FaceG, d), get_sfs_stresses_cc(d) >>
  <2>1. faceGradient(d) = FaceG
    BY FaceGradientOf
  <2> QED
    BY <2>1 DEF closures
<1> QED
  BY <1>1, <1>2, <1>3, <1>4, <1>5, <1>6

\* The same with the closure as a number.
Radicand(m) == IF m = 2 THEN WaleRadicand(FaceG) ELSE IF m = 3 THEN VremanRadicand(FaceG) ELSE SijSij(FaceG)
Divisor(m) == IF m = 2 THEN SijSij(FaceG) + WaleRadicand(FaceG) ELSE IF m = 3 THEN VremanDivisor(FaceG) ELSE 1
Closure(d, m) == [alphaij |-> traceFree(FaceG, d), radicand |-> Radicand(m), divisor |-> Divisor(m)]

LEMMA ClosureOf ==
  ASSUME StressTypeInv, NEW d \in Axes, NEW m \in 1..4
  PROVE  allClosures[d][m] = Closure(d, m)
<1>1. allClosures[d] = << Closure(d, 1), Closure(d, 2), Closure(d, 3), Closure(d, 4) >>
  <2>1. /\ Radicand(1) = SijSij(FaceG) /\ Divisor(1) = 1
        /\ Radicand(2) = WaleRadicand(FaceG) /\ Divisor(2) = SijSij(FaceG) + WaleRadicand(FaceG)
        /\ Radicand(3) = VremanRadicand(FaceG) /\ Divisor(3) = VremanDivisor(FaceG)
        /\ Radicand(4) = SijSij(FaceG) /\ Divisor(4) = 1
    BY DEF Radicand, Divisor
  <2> QED
    BY <2>1, ClosuresOf DEF Closure
<1>2. m \in {1, 2, 3, 4}
  OBVIOUS
<1> QED
  BY <1>1, <1>2

LEMMA GType ==
  ASSUME StressTypeInv
  PROVE  /\ FaceG \in Matrices
         /\ \A m, n \in Axes : FaceG[m][n] = 4 * gradient[m][n]
<1>1. \A m, n \in Axes : gradient[m][n] \in Int
  BY DEF StressTypeInv
<1>2. FaceG = [m \in 1..3 |-> [n \in 1..3 |-> 4 * gradient[m][n]]]
  BY FaceGOf, <1>1 DEF Axes
<1> QED
  BY <1>1, <1>2 DEF Matrices, Axes

LEMMA StrainOf ==
  ASSUME NEW g \in Matrices, NEW m \in Axes, NEW n \in Axes
  PROVE  /\ strain2(g)[m][n] = g[m][n] + g[n][m]
         /\ strain2(g)[m][n] \in Int
         /\ strain2(g)[m][n] = strain2(g)[n][m]
<1>1. \A i, j \in Axes : g[i][j] \in Int
  BY DEF Matrices
<1>2. strain2(g) = << <<g[1][1] + g[1][1], g[1][2] + g[2][1], g[1][3] + g[3][1]>>,
                      <<g[2][1] + g[1][2], g[2][2] + g[2][2], g[2][3] + g[3][2]>>,
                      <<g[3][1] + g[1][3], g[3][2] + g[2][3], g[3][3] + g[3][3]>> >>
  BY Zenon DEF strain2, Matrix, Row
<1>3. \A i, j \in {1, 2, 3} : strain2(g)[i][j] = g[i][j] + g[j][i]
  BY <1>2
<1>4. Axes = {1, 2, 3}
  BY DEF Axes
<1> QED
  BY <1>1, <1>3, <1>4

LEMMA TraceFreeOf ==
  ASSUME NEW g \in Matrices, NEW d \in Axes, NEW n \in Axes
  PROVE  traceFree(g, d)[n] =
           IF n = d THEN 6 * g[d][d] - 2 * (g[1][1] + g[2][2] + g[3][3])
           ELSE 3 * (g[d][n] + g[n][d])
<1> DEFINE S == strain2(g)
           Skk == S[1][1] + S[2][2] + S[3][3]
           e(i) == 3 * S[d][i] - (IF i = d THEN Skk ELSE 0)
<1>1. traceFree(g, d) = <<e(1), e(2), e(3)>>
  BY Zenon DEF traceFree, Row, Sum1
<1>2. \A i, j \in Axes : S[i][j] = g[i][j] + g[j][i] /\ g[i][j] \in Int
  BY StrainOf DEF Matrices
<1>3. n \in {1, 2, 3} /\ 1 \in Axes /\ 2 \in Axes /\ 3 \in Axes
  BY DEF Axes
<1>4. traceFree(g, d)[n] = e(n)
  <2> HIDE DEF e
  <2> QED
    BY <1>1, <1>3
<1>5. Skk = 2 * (g[1][1] + g[2][2] + g[3][3])
  BY <1>2, <1>3
<1>6. S[d][n] = g[d][n] + g[n][d] /\ g[d][n] \in Int /\ g[n][d] \in Int
  BY <1>2
<1>7. Skk \in Int
  BY <1>2, <1>3
<1> HIDE DEF S, Skk
<1>8. e(n) = IF n = d THEN 6 * g[d][d] - Skk ELSE 3 * (g[d][n] + g[n][d])
  BY <1>6, <1>7
<1> QED
  BY <1>4, <1>5, <1>8

LEMMA TauOf ==
  ASSUME NEW g \in Matrices, NEW d \in Axes, NEW n \in Axes, NEW xi \in Int
  PROVE  tau(g, d, xi)[n] =
           IF n = d THEN 6 * g[d][d] - 2 * (g[1][1] + g[2][2] + g[3][3])
                           + 3 * xi * (g[1][1] + g[2][2] + g[3][3])
           ELSE 3 * (g[d][n] + g[n][d])
<1> DEFINE divu == g[1][1] + g[2][2] + g[3][3]
           e(i) == IF i = d THEN 6 * g[d][d] - 2 * divu + 3 * xi * divu
                   ELSE 3 * (g[d][i] + g[i][d])
<1>1. tau(g, d, xi) = <<e(1), e(2), e(3)>>
  BY Zenon DEF tau, Row, Sum1
<1>2. n \in {1, 2, 3}
  BY DEF Axes
<1>3. tau(g, d, xi)[n] = e(n)
  <2> HIDE DEF e
  <2> QED
    BY <1>1, <1>2
<1> QED
  BY <1>3

\* Gradients that differ by a rotation have the same strain and trace.
SameStrain(g, h) == \A m, n \in Axes : g[m][n] + g[n][m] = h[m][n] + h[n][m]

Squares(S) == Sum2(LAMBDA m, n : squared(S[m][n]))

TraceFreePart(S, d) ==
    LET Skk == Sum1(LAMBDA t : S[t][t])
    IN  Row(LAMBDA n : 3 * S[d][n] - (IF n = d THEN Skk ELSE 0))

LEMMA BlindToRotation ==
  ASSUME NEW g \in Matrices, NEW h \in Matrices, SameStrain(g, h), NEW d \in Axes
  PROVE  /\ tau(g, d, 1) = tau(h, d, 1)
         /\ traceFree(g, d) = traceFree(h, d)
         /\ SijSij(g) = SijSij(h)
<1>1. \A m \in Axes : g[m][m] = h[m][m]
  <2> TAKE m \in Axes
  <2> DEFINE x == g[m][m]
             y == h[m][m]
  <2>1. x \in Int /\ y \in Int /\ x + x = y + y
    BY DEF Matrices, SameStrain
  <2> HIDE DEF x, y
  <2>2. x = y
    BY <2>1
  <2> QED
    BY <2>2 DEF x, y
<1>2. 1 \in Axes /\ 2 \in Axes /\ 3 \in Axes
  BY DEF Axes
<1>3. /\ g[1][1] = h[1][1] /\ g[2][2] = h[2][2] /\ g[3][3] = h[3][3]
      /\ g[d][d] = h[d][d]
  BY <1>1, <1>2
<1>4. /\ g[d][1] + g[1][d] = h[d][1] + h[1][d]
      /\ g[d][2] + g[2][d] = h[d][2] + h[2][d]
      /\ g[d][3] + g[3][d] = h[d][3] + h[3][d]
  BY <1>2 DEF SameStrain
<1>5. tau(g, d, 1) = tau(h, d, 1)
  <2> DEFINE e(a, i) == IF i = d THEN 6 * a[d][d] - 2 * (a[1][1] + a[2][2] + a[3][3])
                                    + 3 * 1 * (a[1][1] + a[2][2] + a[3][3])
                        ELSE 3 * (a[d][i] + a[i][d])
  <2>1. \A a : tau(a, d, 1) = <<e(a, 1), e(a, 2), e(a, 3)>>
    BY Zenon DEF tau, Row, Sum1
  <2>2. e(g, 1) = e(h, 1) /\ e(g, 2) = e(h, 2) /\ e(g, 3) = e(h, 3)
    BY <1>3, <1>4
  <2> HIDE DEF e
  <2> QED
    BY <2>1, <2>2
<1>6. strain2(g) = strain2(h)
  <2>1. \A a : strain2(a) = << <<a[1][1] + a[1][1], a[1][2] + a[2][1], a[1][3] + a[3][1]>>,
                      <<a[2][1] + a[1][2], a[2][2] + a[2][2], a[2][3] + a[3][2]>>,
                      <<a[3][1] + a[1][3], a[3][2] + a[2][3], a[3][3] + a[3][3]>> >>
    BY Zenon DEF strain2, Matrix, Row
  <2>2. /\ g[1][2] + g[2][1] = h[1][2] + h[2][1] /\ g[2][1] + g[1][2] = h[2][1] + h[1][2]
        /\ g[1][3] + g[3][1] = h[1][3] + h[3][1] /\ g[3][1] + g[1][3] = h[3][1] + h[1][3]
        /\ g[2][3] + g[3][2] = h[2][3] + h[3][2] /\ g[3][2] + g[2][3] = h[3][2] + h[2][3]
    BY <1>2, Zenon DEF SameStrain
  <2> QED
    BY <1>3, <2>1, <2>2
<1>7. traceFree(g, d) = traceFree(h, d)
  <2>1. \A a : traceFree(a, d) = TraceFreePart(strain2(a), d)
    BY Zenon DEF traceFree, TraceFreePart
  <2> QED
    BY <1>6, <2>1
<1>8. SijSij(g) = SijSij(h)
  <2>1. \A a : SijSij(a) = Squares(strain2(a))
    BY Zenon DEF SijSij, Squares
  <2> QED
    BY <1>6, <2>1
<1> QED
  BY <1>5, <1>7, <1>8

-----------------------------------------------------------------------------
(* Stresses are blind to rotation and make none.                           *)

LEMMA StressSymmetricOf == StressTypeInv => StressSymmetric
<1> SUFFICES ASSUME StressTypeInv, NEW d \in Axes, NEW t \in Axes \ {d}
             PROVE
          /\ \A xi \in {0, 1} : tau(faceGradient(d), d, xi)[t] = tau(faceGradient(t), t, xi)[d]
          /\ \A a \in Sides : cutGradient(d, a, {-side : side \in a}) = faceGradient(t)
          /\ \A m \in 1..4 :
               /\ allClosures[d][m].alphaij[t] = allClosures[t][m].alphaij[d]
               /\ allClosures[d][m].radicand = allClosures[t][m].radicand
               /\ allClosures[d][m].divisor = allClosures[t][m].divisor
          /\ allClosures[d][4] = allClosures[d][1]
  BY Zenon DEF StressSymmetric
<1>1. faceGradient(d) = FaceG /\ faceGradient(t) = FaceG /\ FaceG \in Matrices
  BY FaceGradientOf, GType
<1>2. FaceG[d][t] \in Int /\ FaceG[t][d] \in Int
  BY <1>1 DEF Matrices
<1>3. ASSUME NEW xi \in {0, 1}
      PROVE  tau(faceGradient(d), d, xi)[t] = tau(faceGradient(t), t, xi)[d]
  <2>1. tau(FaceG, d, xi)[t] = 3 * (FaceG[d][t] + FaceG[t][d])
    BY <1>1, TauOf
  <2>2. tau(FaceG, t, xi)[d] = 3 * (FaceG[t][d] + FaceG[d][t])
    BY <1>1, TauOf
  <2> QED
    BY <1>1, <1>2, <2>1, <2>2
<1>4. ASSUME NEW a \in Sides
      PROVE  cutGradient(d, a, {-side : side \in a}) = faceGradient(t)
  <2>1. {-side : side \in a} \in Sides
    <3>1. PICK p \in a : p \in {-1, 1}
      BY DEF Sides
    <3>2. \A side \in a : -side \in {-1, 1}
      BY DEF Sides
    <3>3. -p \in {-side : side \in a}
      OBVIOUS
    <3> QED
      BY <3>2, <3>3 DEF Sides
  <2> QED
    BY <1>1, <2>1, CutGradientOf
<1>5. traceFree(FaceG, d)[t] = traceFree(FaceG, t)[d]
  <2>1. traceFree(FaceG, d)[t] = 3 * (FaceG[d][t] + FaceG[t][d])
    BY <1>1, TraceFreeOf
  <2>2. traceFree(FaceG, t)[d] = 3 * (FaceG[t][d] + FaceG[d][t])
    BY <1>1, TraceFreeOf
  <2> QED
    BY <1>2, <2>1, <2>2
<1>6. ASSUME NEW m \in 1..4
      PROVE  /\ allClosures[d][m].alphaij[t] = allClosures[t][m].alphaij[d]
             /\ allClosures[d][m].radicand = allClosures[t][m].radicand
             /\ allClosures[d][m].divisor = allClosures[t][m].divisor
  <2>1. \A i \in Axes : Closure(i, m) = allClosures[i][m]
    BY <1>1, ClosureOf
  <2>2. /\ Closure(d, m).alphaij = traceFree(FaceG, d) /\ Closure(t, m).alphaij = traceFree(FaceG, t)
        /\ Closure(d, m).radicand = Radicand(m) /\ Closure(t, m).radicand = Radicand(m)
        /\ Closure(d, m).divisor = Divisor(m) /\ Closure(t, m).divisor = Divisor(m)
    BY DEF Closure
  <2> QED
    BY <1>5, <2>1, <2>2
<1>7. allClosures[d][4] = allClosures[d][1]
  <2>1. Closure(d, 4) = allClosures[d][4] /\ Closure(d, 1) = allClosures[d][1]
    BY ClosureOf
  <2>2. Radicand(4) = Radicand(1) /\ Divisor(4) = Divisor(1)
    BY DEF Radicand, Divisor
  <2> QED
    BY <2>1, <2>2 DEF Closure
<1> QED
  BY <1>3, <1>4, <1>6, <1>7

LEMMA TurnedOf ==
  ASSUME NEW g \in Matrices, NEW w \in [Axes -> Int]
  PROVE  Turned(g, w) \in Matrices /\ SameStrain(Turned(g, w), g)
<1> DEFINE h == Turned(g, w)
           s == Spin(w)
           e(m, n) == g[m][n] + s[m][n]
<1>0. Axes = {1, 2, 3}
  BY DEF Axes
<1>1. h = << <<e(1, 1), e(1, 2), e(1, 3)>>, <<e(2, 1), e(2, 2), e(2, 3)>>,
             <<e(3, 1), e(3, 2), e(3, 3)>> >>
  BY Zenon DEF Turned, Matrix, Row
<1>2. \A m, n \in Axes : s[m][n] \in Int /\ s[m][n] + s[n][m] = 0
  <2>1. w[1] \in Int /\ w[2] \in Int /\ w[3] \in Int
    BY <1>0
  <2> DEFINE x == w[1]
             y == w[2]
             z == w[3]
  <2>2. s = << <<0, -z, y>>, <<z, 0, -x>>, <<-y, x, 0>> >>
    BY Zenon DEF Spin
  <2> HIDE DEF s, x, y, z
  <2>3. x \in Int /\ y \in Int /\ z \in Int
    BY <2>1 DEF x, y, z
  <2> QED
    BY <1>0, <2>2, <2>3
<1>3. \A m, n \in Axes : g[m][n] \in Int
  BY DEF Matrices
<1> HIDE DEF s
<1>4. ASSUME NEW m \in Axes, NEW n \in Axes
      PROVE  e(m, n) \in Int /\ e(m, n) + e(n, m) = g[m][n] + g[n][m]
  <2> DEFINE a == g[m][n]
             b == g[n][m]
             x == s[m][n]
             y == s[n][m]
  <2>1. a \in Int /\ b \in Int /\ x \in Int /\ y \in Int /\ x + y = 0
    BY <1>2, <1>3
  <2>2. e(m, n) = a + x /\ e(n, m) = b + y
    OBVIOUS
  <2> HIDE DEF a, b, x, y, e
  <2>3. e(m, n) \in Int /\ e(m, n) + e(n, m) = a + b
    BY <2>1, <2>2
  <2> QED
    BY <2>3 DEF a, b
<1> HIDE DEF h, e
<1>5. h = [m \in 1..3 |-> [n \in 1..3 |-> e(m, n)]]
  BY <1>1
<1>6. h \in Matrices /\ \A m, n \in Axes : h[m][n] = e(m, n)
  BY <1>4, <1>5 DEF Matrices, Axes
<1>7. SameStrain(h, g)
  BY <1>4, <1>6 DEF SameStrain
<1> QED
  BY <1>6, <1>7 DEF h

LEMMA RotationHasNoStressOf == StressTypeInv => RotationHasNoStress
<1> SUFFICES ASSUME StressTypeInv, NEW d \in Axes, NEW w \in {Offset(t, 1) : t \in Axes}
             PROVE
               /\ tau(Turned(faceGradient(d), w), d, 1) = tau(faceGradient(d), d, 1)
               /\ traceFree(Turned(faceGradient(d), w), d) = traceFree(faceGradient(d), d)
               /\ get_smagorinsky_sfs_stresses(Turned(faceGradient(d), w), d)
                    = get_smagorinsky_sfs_stresses(faceGradient(d), d)
               /\ \A open \in Sides :
                    /\ Sum1(LAMBDA t : vorticity(open)[t] * w[t]) = 2 * Curl(w)
                    /\ derdivu(open) = 2 * Sum1(LAMBDA t : gradient[t][t])
  BY Zenon DEF RotationHasNoStress
<1>1. faceGradient(d) = FaceG /\ FaceG \in Matrices
  BY FaceGradientOf, GType
<1>2. w \in [Axes -> Int]
  BY OffsetType
<1>3. Turned(FaceG, w) \in Matrices /\ SameStrain(Turned(FaceG, w), FaceG)
  BY <1>1, <1>2, TurnedOf
<1>4. /\ tau(Turned(FaceG, w), d, 1) = tau(FaceG, d, 1)
      /\ traceFree(Turned(FaceG, w), d) = traceFree(FaceG, d)
      /\ SijSij(Turned(FaceG, w)) = SijSij(FaceG)
  BY <1>1, <1>3, BlindToRotation
<1>5. get_smagorinsky_sfs_stresses(Turned(FaceG, w), d) = get_smagorinsky_sfs_stresses(FaceG, d)
  <2>1. \A g : get_smagorinsky_sfs_stresses(g, d) =
                 [alphaij |-> traceFree(g, d), radicand |-> SijSij(g), divisor |-> 1]
    BY Zenon DEF get_smagorinsky_sfs_stresses
  <2> QED
    BY <1>4, <2>1
<1>6. ASSUME NEW open \in Sides
      PROVE  /\ Sum1(LAMBDA t : vorticity(open)[t] * w[t]) = 2 * Curl(w)
             /\ derdivu(open) = 2 * Sum1(LAMBDA t : gradient[t][t])
  <2>1. \A c, t \in Axes : Derivative(c, t, open) = 2 * gradient[c][t] /\ gradient[c][t] \in Int
    BY DerivativeOf DEF StressTypeInv
  <2>2. w[1] \in Int /\ w[2] \in Int /\ w[3] \in Int
    BY <1>2 DEF Axes
  <2> DEFINE D(c, t) == gradient[c][t]
  <2>3. \A c, t \in {1, 2, 3} : Derivative(c, t, open) = 2 * D(c, t) /\ D(c, t) \in Int
    BY <2>1 DEF Axes
  <2>4. vorticity(open) = << Derivative(3, 2, open) - Derivative(2, 3, open),
                             Derivative(1, 3, open) - Derivative(3, 1, open),
                             Derivative(2, 1, open) - Derivative(1, 2, open) >>
    BY Zenon DEF vorticity
  <2>5. Sum1(LAMBDA t : vorticity(open)[t] * w[t]) =
          vorticity(open)[1] * w[1] + vorticity(open)[2] * w[2] + vorticity(open)[3] * w[3]
    BY Zenon DEF Sum1
  <2>6. derdivu(open) = Derivative(1, 1, open) + Derivative(2, 2, open) + Derivative(3, 3, open)
    BY Zenon DEF derdivu, Sum1
  <2>7. Sum1(LAMBDA t : gradient[t][t]) = D(1, 1) + D(2, 2) + D(3, 3)
    BY Zenon DEF Sum1
  <2>8. Curl(w) = (D(3, 2) - D(2, 3)) * w[1] + (D(1, 3) - D(3, 1)) * w[2]
                  + (D(2, 1) - D(1, 2)) * w[3]
    BY Zenon DEF Curl
  <2> HIDE DEF D
  <2>9. derdivu(open) = 2 * (D(1, 1) + D(2, 2) + D(3, 3))
    BY <2>3, <2>6
  <2>10. vorticity(open) = << 2 * D(3, 2) - 2 * D(2, 3), 2 * D(1, 3) - 2 * D(3, 1),
                              2 * D(2, 1) - 2 * D(1, 2) >>
    BY <2>3, <2>4
  <2>11. Sum1(LAMBDA t : vorticity(open)[t] * w[t]) = (2 * D(3, 2) - 2 * D(2, 3)) * w[1]
           + (2 * D(1, 3) - 2 * D(3, 1)) * w[2] + (2 * D(2, 1) - 2 * D(1, 2)) * w[3]
    <3> DEFINE v == vorticity(open)
    <3>1. v[1] = 2 * D(3, 2) - 2 * D(2, 3)
      BY <2>10
    <3>2. v[2] = 2 * D(1, 3) - 2 * D(3, 1)
      BY <2>10
    <3>3. v[3] = 2 * D(2, 1) - 2 * D(1, 2)
      BY <2>10
    <3>4. Sum1(LAMBDA t : v[t] * w[t]) = v[1] * w[1] + v[2] * w[2] + v[3] * w[3]
      BY <2>5
    <3> QED
      BY Zenon, <3>1, <3>2, <3>3, <3>4
  <2>12. /\ D(3, 2) \in Int /\ D(2, 3) \in Int /\ D(1, 3) \in Int
         /\ D(3, 1) \in Int /\ D(2, 1) \in Int /\ D(1, 2) \in Int
    BY <2>3
  <2>13. (2 * D(3, 2) - 2 * D(2, 3)) * w[1]
           + (2 * D(1, 3) - 2 * D(3, 1)) * w[2] + (2 * D(2, 1) - 2 * D(1, 2)) * w[3]
         = 2 * ((D(3, 2) - D(2, 3)) * w[1] + (D(1, 3) - D(3, 1)) * w[2]
                  + (D(2, 1) - D(1, 2)) * w[3])
    BY <2>2, <2>12
  <2> QED
    BY <2>7, <2>8, <2>9, <2>11, <2>13
<1> QED
  BY <1>1, <1>4, <1>5, <1>6
(* Angular momentum: whatever the gradients of the flow are, the two branches  *)
(* of the code that compute a stress agree, and a rotation has none.           *)
LEMMA StressTypeInvariant == StressSpec => []StressTypeInv
<1>1. StressInit => StressTypeInv
  BY DEF StressInit, StressTypeInv
<1>2. StressTypeInv /\ [StressNext]_gradient => StressTypeInv'
  <2> SUFFICES ASSUME StressTypeInv, [StressNext]_gradient PROVE StressTypeInv'
    OBVIOUS
  <2>1. CASE StressNext
    <3>1. PICK c \in Axes, t \in Axes, slope \in Slopes :
            gradient' = [gradient EXCEPT ![c][t] = slope]
      BY <2>1 DEF StressNext
    <3>2. slope \in Int
      BY SlopeAssumption
    <3> QED
      BY <3>1, <3>2 DEF StressTypeInv
  <2>2. CASE UNCHANGED gradient
    BY <2>2 DEF StressTypeInv
  <2> QED
    BY <2>1, <2>2
<1> QED
  BY <1>1, <1>2, PTL DEF StressSpec

(***************************************************************************)
(* For every gradient of the flow the two branches of the code that make a *)
(* stress agree, also at cut cells with one open neighbour and for every   *)
(* closure, and neither a stress nor an eddy viscosity changes when the    *)
(* whole flow is turned.                                                   *)
(***************************************************************************)
THEOREM StressesKeepAngularMomentum == StressSpec => []AngularMomentumKept
<1>1. StressTypeInv => AngularMomentumKept
  BY StressSymmetricOf, RotationHasNoStressOf DEF AngularMomentumKept
<1> QED
  BY <1>1, StressTypeInvariant, PTL
-----------------------------------------------------------------------------
(* The stresses take energy, and the square roots and divisors exist.          *)

TraceFreeStress(T, g) ==
    \A d, n \in Axes : T[d][n] = IF n = d THEN 6 * g[d][d] - 2 * (g[1][1] + g[2][2] + g[3][3])
                                 ELSE 3 * (g[d][n] + g[n][d])

WorkSum(T, g) == Sum2(LAMBDA d, n : T[d][n] * g[n][d])

LEMMA SquareNotNegative ==
  ASSUME NEW x \in Int
  PROVE  x * x \in Nat /\ (x * x = 0 => x = 0)
<1>1. CASE x >= 0
  BY <1>1
<1>2. CASE x < 0
  BY <1>2
<1> QED
  BY <1>1, <1>2

\* Six times the sum of the squares of the trace-free strain.
LEMMA WorkNotNegative ==
  ASSUME NEW g \in Matrices, NEW T, TraceFreeStress(T, g)
  PROVE  WorkSum(T, g) >= 0
<1> DEFINE a == g[1][1]
           b == g[2][2]
           c == g[3][3]
           p == g[1][2]
           q == g[2][1]
           r == g[1][3]
           s == g[3][1]
           u == g[2][3]
           v == g[3][2]
<1>1. /\ a \in Int /\ b \in Int /\ c \in Int /\ p \in Int /\ q \in Int /\ r \in Int
      /\ s \in Int /\ u \in Int /\ v \in Int
  BY DEF Matrices, Axes
<1>2. WorkSum(T, g) = (T[1][1] * a + T[1][2] * q + T[1][3] * s)
                      + (T[2][1] * p + T[2][2] * b + T[2][3] * v)
                      + (T[3][1] * r + T[3][2] * u + T[3][3] * c)
  BY Zenon DEF WorkSum, Sum2, Sum1
<1>3. /\ T[1][1] = 6 * a - 2 * (a + b + c) /\ T[1][2] = 3 * (p + q) /\ T[1][3] = 3 * (r + s)
      /\ T[2][1] = 3 * (q + p) /\ T[2][2] = 6 * b - 2 * (a + b + c) /\ T[2][3] = 3 * (u + v)
      /\ T[3][1] = 3 * (s + r) /\ T[3][2] = 3 * (v + u) /\ T[3][3] = 6 * c - 2 * (a + b + c)
  BY DEF TraceFreeStress, Axes
<1> HIDE DEF a, b, c, p, q, r, s, u, v
<1>4. WorkSum(T, g) =
           ((6 * a - 2 * (a + b + c)) * a + (3 * (p + q)) * q + (3 * (r + s)) * s)
           + ((3 * (q + p)) * p + (6 * b - 2 * (a + b + c)) * b + (3 * (u + v)) * v)
           + ((3 * (s + r)) * r + (3 * (v + u)) * u + (6 * c - 2 * (a + b + c)) * c)
  BY Zenon, <1>2, <1>3
<1>5. WorkSum(T, g) = 2 * ((a - b) * (a - b)) + 2 * ((a - c) * (a - c)) + 2 * ((b - c) * (b - c))
           + 3 * ((p + q) * (p + q)) + 3 * ((r + s) * (r + s)) + 3 * ((u + v) * (u + v))
  BY <1>1, <1>4
<1>6. /\ (a - b) * (a - b) \in Nat /\ (a - c) * (a - c) \in Nat /\ (b - c) * (b - c) \in Nat
      /\ (p + q) * (p + q) \in Nat /\ (r + s) * (r + s) \in Nat /\ (u + v) * (u + v) \in Nat
  <2>1. /\ a - b \in Int /\ a - c \in Int /\ b - c \in Int
        /\ p + q \in Int /\ r + s \in Int /\ u + v \in Int
    BY <1>1
  <2>2. \A x \in Int : x * x \in Nat
    BY SquareNotNegative
  <2> QED
    BY <2>1, <2>2, Zenon
<1> DEFINE k1 == (a - b) * (a - b)
           k2 == (a - c) * (a - c)
           k3 == (b - c) * (b - c)
           k4 == (p + q) * (p + q)
           k5 == (r + s) * (r + s)
           k6 == (u + v) * (u + v)
<1>7. /\ k1 \in Nat /\ k2 \in Nat /\ k3 \in Nat /\ k4 \in Nat /\ k5 \in Nat /\ k6 \in Nat
      /\ WorkSum(T, g) = 2 * k1 + 2 * k2 + 2 * k3 + 3 * k4 + 3 * k5 + 3 * k6
  BY <1>5, <1>6
<1> HIDE DEF k1, k2, k3, k4, k5, k6
<1> QED
  BY <1>7

LEMMA ThreeNaturals ==
  ASSUME NEW x \in Nat, NEW y \in Nat, NEW z \in Nat, x + y + z = 0
  PROVE  x = 0 /\ y = 0 /\ z = 0
OBVIOUS

LEMMA SquaresOf ==
  ASSUME NEW f \in Matrices
  PROVE  /\ Squares(f) \in Nat
         /\ Squares(f) = 0 => \A m, n \in Axes : f[m][n] = 0
<1> DEFINE k(m, n) == f[m][n] * f[m][n]
<1>0. Axes = {1, 2, 3}
  BY DEF Axes
<1>1. Squares(f) = (k(1, 1) + k(1, 2) + k(1, 3)) + (k(2, 1) + k(2, 2) + k(2, 3))
                        + (k(3, 1) + k(3, 2) + k(3, 3))
  BY Zenon DEF Squares, Sum2, Sum1, squared
<1>2. ASSUME NEW m \in Axes, NEW n \in Axes
      PROVE  k(m, n) \in Nat /\ (k(m, n) = 0 => f[m][n] = 0)
  <2>1. f[m][n] \in Int
    BY DEF Matrices
  <2> QED
    BY <2>1, SquareNotNegative
<1> HIDE DEF k
<1>3. /\ k(1, 1) \in Nat /\ k(1, 2) \in Nat /\ k(1, 3) \in Nat
      /\ k(2, 1) \in Nat /\ k(2, 2) \in Nat /\ k(2, 3) \in Nat
      /\ k(3, 1) \in Nat /\ k(3, 2) \in Nat /\ k(3, 3) \in Nat
  BY <1>0, <1>2
<1>4. Squares(f) \in Nat
  BY <1>1, <1>3
<1>5. ASSUME Squares(f) = 0
      PROVE  /\ k(1, 1) = 0 /\ k(1, 2) = 0 /\ k(1, 3) = 0
             /\ k(2, 1) = 0 /\ k(2, 2) = 0 /\ k(2, 3) = 0
             /\ k(3, 1) = 0 /\ k(3, 2) = 0 /\ k(3, 3) = 0
  <2> DEFINE r1 == k(1, 1) + k(1, 2) + k(1, 3)
             r2 == k(2, 1) + k(2, 2) + k(2, 3)
             r3 == k(3, 1) + k(3, 2) + k(3, 3)
  <2>2. r1 \in Nat /\ r2 \in Nat /\ r3 \in Nat /\ r1 + r2 + r3 = 0
    BY <1>1, <1>3, <1>5
  <2>3. r1 = 0 /\ r2 = 0 /\ r3 = 0
    <3> HIDE DEF r1, r2, r3
    <3> QED
      BY <2>2, ThreeNaturals
  <2>4. k(1, 1) = 0 /\ k(1, 2) = 0 /\ k(1, 3) = 0
    <3>1. k(1, 1) + k(1, 2) + k(1, 3) = 0
      BY <2>3
    <3> QED
      BY <1>3, <3>1, ThreeNaturals
  <2>5. k(2, 1) = 0 /\ k(2, 2) = 0 /\ k(2, 3) = 0
    <3>1. k(2, 1) + k(2, 2) + k(2, 3) = 0
      BY <2>3
    <3> QED
      BY <1>3, <3>1, ThreeNaturals
  <2>6. k(3, 1) = 0 /\ k(3, 2) = 0 /\ k(3, 3) = 0
    <3>1. k(3, 1) + k(3, 2) + k(3, 3) = 0
      BY <2>3
    <3> QED
      BY <1>3, <3>1, ThreeNaturals
  <2> QED
    BY <2>4, <2>5, <2>6
<1> QED
  BY <1>0, <1>2, <1>4, <1>5

LEMMA StrainType ==
  ASSUME NEW g \in Matrices
  PROVE  strain2(g) \in Matrices /\ SijSij(g) = Squares(strain2(g))
<1>1. \A m, n \in Axes : strain2(g)[m][n] \in Int
  BY StrainOf
<1> DEFINE e(m, n) == g[m][n] + g[n][m]
<1>3. strain2(g) = << <<e(1, 1), e(1, 2), e(1, 3)>>, <<e(2, 1), e(2, 2), e(2, 3)>>,
                      <<e(3, 1), e(3, 2), e(3, 3)>> >>
  BY Zenon DEF strain2, Matrix, Row
<1> HIDE DEF e
<1>4. strain2(g) = [m \in 1..3 |-> [n \in 1..3 |-> e(m, n)]]
  BY <1>3
<1>5. strain2(g) \in Matrices
  BY <1>1, <1>4 DEF Matrices, Axes
<1>6. SijSij(g) = Squares(strain2(g))
  BY Zenon DEF SijSij, Squares
<1> QED
  BY <1>5, <1>6

\* Entries of the square of the gradient, and of its symmetric trace-free part.
Product(g) == Matrix(LAMBDA m, n : Sum1(LAMBDA k : g[m][k] * g[k][n]))
WaleD(g, m, n) == 3 * (Product(g)[m][n] + Product(g)[n][m])
                  - (IF m = n THEN 2 * Sum1(LAMBDA k : Product(g)[k][k]) ELSE 0)

LEMMA ProductOf ==
  ASSUME NEW g \in Matrices, NEW m \in Axes, NEW n \in Axes
  PROVE  /\ Product(g)[m][n] = g[m][1] * g[1][n] + g[m][2] * g[2][n] + g[m][3] * g[3][n]
         /\ Product(g)[m][n] \in Int
<1> DEFINE e(i, j) == g[i][1] * g[1][j] + g[i][2] * g[2][j] + g[i][3] * g[3][j]
<1>0. m \in {1, 2, 3} /\ n \in {1, 2, 3}
  BY DEF Axes
<1>1. Product(g) = << <<e(1, 1), e(1, 2), e(1, 3)>>, <<e(2, 1), e(2, 2), e(2, 3)>>,
                      <<e(3, 1), e(3, 2), e(3, 3)>> >>
  BY Zenon DEF Product, Matrix, Row, Sum1
<1>2. e(m, n) \in Int
  <2>1. /\ g[m][1] \in Int /\ g[m][2] \in Int /\ g[m][3] \in Int
        /\ g[1][n] \in Int /\ g[2][n] \in Int /\ g[3][n] \in Int
    BY DEF Matrices, Axes
  <2> QED
    BY <2>1
<1>3. Product(g)[m][n] = e(m, n)
  <2> HIDE DEF e
  <2> QED
    BY <1>0, <1>1
<1> QED
  BY <1>2, <1>3

WaleMatrix(g) == [m \in Axes |-> [n \in Axes |-> WaleD(g, m, n) \div 16]]

LEMMA WaleRadicandOf ==
  ASSUME NEW g \in Matrices
  PROVE  WaleMatrix(g) \in Matrices /\ WaleRadicand(g) = Squares(WaleMatrix(g))
<1> DEFINE f == WaleMatrix(g)
<1>0. Axes = {1, 2, 3}
  BY DEF Axes
<1>1. ASSUME NEW m \in Axes, NEW n \in Axes PROVE WaleD(g, m, n) \div 16 \in Int
  <2>1. Product(g)[m][n] \in Int /\ Product(g)[n][m] \in Int
    BY ProductOf
  <2>2. Product(g)[1][1] \in Int /\ Product(g)[2][2] \in Int /\ Product(g)[3][3] \in Int
    BY <1>0, ProductOf
  <2>3. Sum1(LAMBDA k : Product(g)[k][k]) = Product(g)[1][1] + Product(g)[2][2] + Product(g)[3][3]
    BY Zenon DEF Sum1
  <2>4. WaleD(g, m, n) \in Int
    BY <2>1, <2>2, <2>3 DEF WaleD
  <2> QED
    BY <2>4
<1>2. f \in Matrices
  BY <1>1 DEF Matrices, WaleMatrix
<1>3. \A m, n \in Axes : f[m][n] = WaleD(g, m, n) \div 16
  BY DEF WaleMatrix
<1> DEFINE w(m, n) == squared(WaleD(g, m, n) \div 16)
           x(m, n) == squared(f[m][n])
<1>4. WaleRadicand(g) = (w(1, 1) + w(1, 2) + w(1, 3)) + (w(2, 1) + w(2, 2) + w(2, 3))
                        + (w(3, 1) + w(3, 2) + w(3, 3))
  BY Zenon DEF WaleRadicand, WaleD, Product, Sum2, Sum1
<1>5. Squares(f) = (x(1, 1) + x(1, 2) + x(1, 3)) + (x(2, 1) + x(2, 2) + x(2, 3))
                        + (x(3, 1) + x(3, 2) + x(3, 3))
  BY Zenon DEF Squares, Sum2, Sum1
<1>6. \A m, n \in Axes : w(m, n) = x(m, n)
  BY <1>3
<1> HIDE DEF w, x, f
<1>7. WaleRadicand(g) = Squares(f)
  BY <1>0, <1>4, <1>5, <1>6
<1> QED
  BY <1>2, <1>7 DEF f

LEMMA Opposite ==
  ASSUME NEW x \in Int, NEW y \in Int, 4 * x + 4 * y = 0
  PROVE  y = 0 - x
OBVIOUS

LEMMA EqualSquares ==
  ASSUME NEW pp \in Int, NEW qq \in Int, NEW rr \in Int,
         4 * (pp + qq + rr) - 6 * (pp + qq) = 0,
         4 * (pp + qq + rr) - 6 * (pp + rr) = 0,
         4 * (pp + qq + rr) - 6 * (qq + rr) = 0
  PROVE  pp = qq /\ pp = rr /\ qq = rr
OBVIOUS

\* The square of an antisymmetric gradient x, from which WALE's is made.
LEMMA WaleOfRotation ==
  ASSUME StressTypeInv, SameStrain(FaceG, [m \in Axes |-> [n \in Axes |-> 0]]),
         \A m, n \in Axes : WaleMatrix(FaceG)[m][n] = 0
  PROVE  \A m, n \in Axes : gradient[m][n] = 0
<1> DEFINE p == gradient[1][2]
           q == gradient[1][3]
           r == gradient[2][3]
<1>0. Axes = {1, 2, 3}
  BY DEF Axes
<1>1. \A m, n \in Axes : gradient[m][n] \in Int /\ FaceG[m][n] = 4 * gradient[m][n] /\ FaceG \in Matrices
  BY GType DEF StressTypeInv
<1>2. ASSUME NEW m \in Axes, NEW n \in Axes PROVE gradient[n][m] = 0 - gradient[m][n]
  <2>1. FaceG[m][n] + FaceG[n][m] = 0 + 0
    BY DEF SameStrain
  <2> DEFINE x == gradient[m][n]
             y == gradient[n][m]
  <2>2. x \in Int /\ y \in Int /\ 4 * x + 4 * y = 0
    BY <1>1, <2>1
  <2> HIDE DEF x, y
  <2>3. y = 0 - x
    BY <2>2, Opposite
  <2> QED
    BY <2>3 DEF x, y
<1>3. ASSUME NEW m \in Axes PROVE gradient[m][m] = 0
  <2> DEFINE x == gradient[m][m]
  <2>1. x \in Int /\ x = 0 - x
    BY <1>1, <1>2
  <2> HIDE DEF x
  <2>2. x = 0
    BY <2>1
  <2> QED
    BY <2>2 DEF x
<1>4. /\ FaceG[1][1] = 0 /\ FaceG[2][2] = 0 /\ FaceG[3][3] = 0
      /\ FaceG[1][2] = 4 * p /\ FaceG[2][1] = 4 * (0 - p)
      /\ FaceG[1][3] = 4 * q /\ FaceG[3][1] = 4 * (0 - q)
      /\ FaceG[2][3] = 4 * r /\ FaceG[3][2] = 4 * (0 - r)
      /\ p \in Int /\ q \in Int /\ r \in Int
  <2>1. 1 \in Axes /\ 2 \in Axes /\ 3 \in Axes
    BY <1>0
  <2>2. p \in Int /\ q \in Int /\ r \in Int
    BY <1>1, <2>1
  <2>3. gradient[2][1] = 0 - p /\ gradient[3][1] = 0 - q /\ gradient[3][2] = 0 - r
    BY <1>2, <2>1
  <2>4. gradient[1][1] = 0 /\ gradient[2][2] = 0 /\ gradient[3][3] = 0
    BY <1>3, <2>1
  <2>5. FaceG[1][1] = 4 * 0 /\ FaceG[2][2] = 4 * 0 /\ FaceG[3][3] = 4 * 0
    BY <1>1, <2>1, <2>4
  <2>6. FaceG[1][2] = 4 * p /\ FaceG[1][3] = 4 * q /\ FaceG[2][3] = 4 * r
    BY <1>1, <2>1
  <2>7. FaceG[2][1] = 4 * (0 - p) /\ FaceG[3][1] = 4 * (0 - q) /\ FaceG[3][2] = 4 * (0 - r)
    BY <1>1, <2>1, <2>3
  <2> QED
    BY <2>2, <2>5, <2>6, <2>7
<1> DEFINE pp == p * p
           qq == q * q
           rr == r * r
           PP == Product(FaceG)
<1>5. ASSUME NEW m \in Axes, NEW n \in Axes
      PROVE  PP[m][n] = FaceG[m][1] * FaceG[1][n] + FaceG[m][2] * FaceG[2][n] + FaceG[m][3] * FaceG[3][n]
  BY <1>1, ProductOf
<1>6. /\ PP[1][1] = 0 - 16 * (pp + qq) /\ PP[2][2] = 0 - 16 * (pp + rr) /\ PP[3][3] = 0 - 16 * (qq + rr)
      /\ PP[1][2] = 0 - 16 * (q * r) /\ PP[2][1] = 0 - 16 * (q * r)
      /\ PP[1][3] = 16 * (p * r) /\ PP[3][1] = 16 * (p * r)
      /\ PP[2][3] = 0 - 16 * (p * q) /\ PP[3][2] = 0 - 16 * (p * q)
  <2> HIDE DEF p, q, r, PP
  <2>1. PP[1][1] = 0 - 16 * (pp + qq)
    <3>1. PP[1][1] = FaceG[1][1] * FaceG[1][1] + FaceG[1][2] * FaceG[2][1] + FaceG[1][3] * FaceG[3][1]
      BY <1>0, <1>5
    <3> QED
      BY <1>4, <3>1
  <2>2. PP[2][2] = 0 - 16 * (pp + rr)
    <3>1. PP[2][2] = FaceG[2][1] * FaceG[1][2] + FaceG[2][2] * FaceG[2][2] + FaceG[2][3] * FaceG[3][2]
      BY <1>0, <1>5
    <3> QED
      BY <1>4, <3>1
  <2>3. PP[3][3] = 0 - 16 * (qq + rr)
    <3>1. PP[3][3] = FaceG[3][1] * FaceG[1][3] + FaceG[3][2] * FaceG[2][3] + FaceG[3][3] * FaceG[3][3]
      BY <1>0, <1>5
    <3> QED
      BY <1>4, <3>1
  <2>4. PP[1][2] = 0 - 16 * (q * r)
    <3>1. PP[1][2] = FaceG[1][1] * FaceG[1][2] + FaceG[1][2] * FaceG[2][2] + FaceG[1][3] * FaceG[3][2]
      BY <1>0, <1>5
    <3> QED
      BY <1>4, <3>1
  <2>5. PP[2][1] = 0 - 16 * (q * r)
    <3>1. PP[2][1] = FaceG[2][1] * FaceG[1][1] + FaceG[2][2] * FaceG[2][1] + FaceG[2][3] * FaceG[3][1]
      BY <1>0, <1>5
    <3> QED
      BY <1>4, <3>1
  <2>6. PP[1][3] = 16 * (p * r)
    <3>1. PP[1][3] = FaceG[1][1] * FaceG[1][3] + FaceG[1][2] * FaceG[2][3] + FaceG[1][3] * FaceG[3][3]
      BY <1>0, <1>5
    <3> QED
      BY <1>4, <3>1
  <2>7. PP[3][1] = 16 * (p * r)
    <3>1. PP[3][1] = FaceG[3][1] * FaceG[1][1] + FaceG[3][2] * FaceG[2][1] + FaceG[3][3] * FaceG[3][1]
      BY <1>0, <1>5
    <3> QED
      BY <1>4, <3>1
  <2>8. PP[2][3] = 0 - 16 * (p * q)
    <3>1. PP[2][3] = FaceG[2][1] * FaceG[1][3] + FaceG[2][2] * FaceG[2][3] + FaceG[2][3] * FaceG[3][3]
      BY <1>0, <1>5
    <3> QED
      BY <1>4, <3>1
  <2>9. PP[3][2] = 0 - 16 * (p * q)
    <3>1. PP[3][2] = FaceG[3][1] * FaceG[1][2] + FaceG[3][2] * FaceG[2][2] + FaceG[3][3] * FaceG[3][2]
      BY <1>0, <1>5
    <3> QED
      BY <1>4, <3>1
  <2> QED
    BY <2>1, <2>2, <2>3, <2>4, <2>5, <2>6, <2>7, <2>8, <2>9
<1>7. ASSUME NEW m \in Axes, NEW n \in Axes
      PROVE  (3 * (PP[m][n] + PP[n][m]) - (IF m = n THEN 2 * (PP[1][1] + PP[2][2] + PP[3][3]) ELSE 0)) \div 16 = 0
  <2>1. Sum1(LAMBDA k : PP[k][k]) = PP[1][1] + PP[2][2] + PP[3][3]
    BY Zenon DEF Sum1
  <2>2. WaleMatrix(FaceG)[m][n] = WaleD(FaceG, m, n) \div 16
    BY DEF WaleMatrix
  <2> QED
    BY <2>1, <2>2 DEF WaleD
<1> DEFINE qr == q * r
           pr == p * r
           pq == p * q
<1>8. /\ pp \in Int /\ qq \in Int /\ rr \in Int /\ qr \in Int /\ pr \in Int /\ pq \in Int
  BY <1>4
<1> DEFINE T == PP[1][1] + PP[2][2] + PP[3][3]
<1>9. /\ (3 * (PP[1][1] + PP[1][1]) - 2 * T) \div 16 = 0
      /\ (3 * (PP[2][2] + PP[2][2]) - 2 * T) \div 16 = 0
      /\ (3 * (PP[3][3] + PP[3][3]) - 2 * T) \div 16 = 0
      /\ (3 * (PP[1][2] + PP[2][1]) - 0) \div 16 = 0
      /\ (3 * (PP[1][3] + PP[3][1]) - 0) \div 16 = 0
      /\ (3 * (PP[2][3] + PP[3][2]) - 0) \div 16 = 0
  BY <1>0, <1>7
<1>10. pp = rr /\ qq = rr /\ pp = qq /\ qr = 0 /\ pr = 0 /\ pq = 0
  <2> HIDE DEF pp, qq, rr, qr, pr, pq, PP, p, q, r
  <2>1. T = 0 - 32 * (pp + qq + rr)
    BY <1>6, <1>8
  <2> HIDE DEF T
  <2>2. \A z \in Int : (16 * z) \div 16 = z
    OBVIOUS
  <2>3. /\ 3 * (PP[1][1] + PP[1][1]) - 2 * T = 16 * (4 * (pp + qq + rr) - 6 * (pp + qq))
        /\ 3 * (PP[2][2] + PP[2][2]) - 2 * T = 16 * (4 * (pp + qq + rr) - 6 * (pp + rr))
        /\ 3 * (PP[3][3] + PP[3][3]) - 2 * T = 16 * (4 * (pp + qq + rr) - 6 * (qq + rr))
    BY <1>6, <1>8, <2>1
  <2>4. /\ 3 * (PP[1][2] + PP[2][1]) - 0 = 16 * (0 - 6 * qr)
        /\ 3 * (PP[1][3] + PP[3][1]) - 0 = 16 * (6 * pr)
        /\ 3 * (PP[2][3] + PP[3][2]) - 0 = 16 * (0 - 6 * pq)
    BY <1>6, <1>8 DEF qr, pr, pq
  <2>5. /\ 4 * (pp + qq + rr) - 6 * (pp + qq) = 0
        /\ 4 * (pp + qq + rr) - 6 * (pp + rr) = 0
        /\ 4 * (pp + qq + rr) - 6 * (qq + rr) = 0
    BY <1>8, <1>9, <2>2, <2>3
  <2>6. 0 - 6 * qr = 0 /\ 6 * pr = 0 /\ 0 - 6 * pq = 0
    BY <1>8, <1>9, <2>2, <2>4
  <2>7. pp = rr /\ qq = rr /\ pp = qq
    BY <1>8, <2>5, EqualSquares
  <2>8. qr = 0 /\ pr = 0 /\ pq = 0
    BY <1>8, <2>6
  <2> QED
    BY <2>7, <2>8
<1>11. p = 0 /\ q = 0 /\ r = 0
  <2> HIDE DEF p, q, r
  <2>1. q = 0 \/ r = 0
    BY <1>4, <1>10
  <2>2. rr = 0 \/ qq = 0
    BY <1>4, <2>1
  <2>3. pp = 0 /\ qq = 0 /\ rr = 0
    BY <1>10, <2>2
  <2> QED
    BY <1>4, <2>3, SquareNotNegative
<1> QED
  BY <1>0, <1>2, <1>3, <1>11

\* Minors of the matrix of scalar products, by Lagrange's identity.
LEMMA MinorNotNegative ==
  ASSUME NEW a \in Int, NEW b \in Int, NEW c \in Int,
         NEW x \in Int, NEW y \in Int, NEW z \in Int
  PROVE  (a * a + b * b + c * c) * (x * x + y * y + z * z)
           - (a * x + b * y + c * z) * (a * x + b * y + c * z) >= 0
<1> DEFINE p == a * y - b * x
           q == a * z - c * x
           r == b * z - c * y
<1>1. p \in Int /\ q \in Int /\ r \in Int
  OBVIOUS
<1>2. (a * a + b * b + c * c) * (x * x + y * y + z * z)
           - (a * x + b * y + c * z) * (a * x + b * y + c * z) = p * p + q * q + r * r
  OBVIOUS
<1>3. p * p \in Nat /\ q * q \in Nat /\ r * r \in Nat
  <2> HIDE DEF p, q, r
  <2> QED
    BY <1>1, SquareNotNegative
<1> DEFINE pp == p * p
           qq == q * q
           rr == r * r
<1>4. pp + qq + rr >= 0
  <2>1. pp \in Nat /\ qq \in Nat /\ rr \in Nat
    BY <1>3
  <2> HIDE DEF pp, qq, rr
  <2> QED
    BY <2>1
<1> QED
  BY <1>2, <1>4

LEMMA VremanNotNegative ==
  ASSUME StressTypeInv
  PROVE  VremanRadicand(FaceG) >= 0
<1> DEFINE beta == Matrix(LAMBDA m, n : Sum1(LAMBDA k : (FaceG[k][m] \div 4) * (FaceG[k][n] \div 4)))
           e(m, n) == (FaceG[1][m] \div 4) * (FaceG[1][n] \div 4) + (FaceG[2][m] \div 4) * (FaceG[2][n] \div 4)
                      + (FaceG[3][m] \div 4) * (FaceG[3][n] \div 4)
           h(m, n) == gradient[1][m] * gradient[1][n] + gradient[2][m] * gradient[2][n]
                      + gradient[3][m] * gradient[3][n]
<1>0. 1 \in Axes /\ 2 \in Axes /\ 3 \in Axes
  BY DEF Axes
<1>1. beta = << <<e(1, 1), e(1, 2), e(1, 3)>>, <<e(2, 1), e(2, 2), e(2, 3)>>,
                <<e(3, 1), e(3, 2), e(3, 3)>> >>
  BY Zenon DEF Matrix, Row, Sum1
<1>2. \A m, n \in Axes : gradient[m][n] \in Int /\ FaceG[m][n] \div 4 = gradient[m][n]
  <2>1. \A x \in Int : (4 * x) \div 4 = x
    OBVIOUS
  <2>2. \A m, n \in Axes : gradient[m][n] \in Int /\ FaceG[m][n] = 4 * gradient[m][n]
    BY GType DEF StressTypeInv
  <2> QED
    BY <2>1, <2>2
<1>3. \A m, n \in Axes : e(m, n) = h(m, n)
  BY <1>0, <1>2
<1>4. VremanRadicand(FaceG) = beta[1][1] * beta[2][2] - squared(beta[1][2]) + beta[1][1] * beta[3][3]
                 - squared(beta[1][3]) + beta[2][2] * beta[3][3] - squared(beta[2][3])
  BY Zenon DEF VremanRadicand
<1>5. /\ h(1, 1) * h(2, 2) - h(1, 2) * h(1, 2) >= 0
      /\ h(1, 1) * h(3, 3) - h(1, 3) * h(1, 3) >= 0
      /\ h(2, 2) * h(3, 3) - h(2, 3) * h(2, 3) >= 0
  BY <1>0, <1>2, MinorNotNegative
<1>6. \A m, n \in Axes : h(m, n) \in Int
  BY <1>0, <1>2
<1>7. \A x : squared(x) = x * x
  BY DEF squared
<1> HIDE DEF beta, e, h
<1>8. /\ beta[1][1] = h(1, 1) /\ beta[2][2] = h(2, 2) /\ beta[3][3] = h(3, 3)
      /\ beta[1][2] = h(1, 2) /\ beta[1][3] = h(1, 3) /\ beta[2][3] = h(2, 3)
  BY <1>0, <1>1, <1>3
<1>9. VremanRadicand(FaceG) = h(1, 1) * h(2, 2) - h(1, 2) * h(1, 2) + h(1, 1) * h(3, 3)
                 - h(1, 3) * h(1, 3) + h(2, 2) * h(3, 3) - h(2, 3) * h(2, 3)
  BY Zenon, <1>4, <1>7, <1>8
<1> DEFINE p == h(1, 1) * h(2, 2)
           q == h(1, 1) * h(3, 3)
           r == h(2, 2) * h(3, 3)
           pp == h(1, 2) * h(1, 2)
           qq == h(1, 3) * h(1, 3)
           rr == h(2, 3) * h(2, 3)
<1>10. /\ p \in Int /\ q \in Int /\ r \in Int /\ pp \in Int /\ qq \in Int /\ rr \in Int
       /\ VremanRadicand(FaceG) = p - pp + q - qq + r - rr
       /\ p - pp >= 0 /\ q - qq >= 0 /\ r - rr >= 0
  BY <1>0, <1>5, <1>6, <1>9
<1> HIDE DEF p, q, r, pp, qq, rr
<1> QED
  BY <1>10

LEMMA RadicandOf ==
  ASSUME StressTypeInv, Sheared, NEW m \in 1..4
  PROVE  Radicand(m) >= 0 /\ Divisor(m) # 0
<1>1. FaceG \in Matrices /\ \A c, t \in Axes : FaceG[c][t] = 4 * gradient[c][t] /\ gradient[c][t] \in Int
  BY GType DEF StressTypeInv
<1>2. ~ \A c, t \in Axes : gradient[c][t] = 0
  BY DEF Sheared
<1>3. SijSij(FaceG) \in Nat /\ (SijSij(FaceG) = 0 => \A c, t \in Axes : strain2(FaceG)[c][t] = 0)
  BY <1>1, StrainType, SquaresOf
<1>4. WaleRadicand(FaceG) \in Nat
      /\ (WaleRadicand(FaceG) = 0 => \A c, t \in Axes : WaleMatrix(FaceG)[c][t] = 0)
  BY <1>1, WaleRadicandOf, SquaresOf
<1>5. SijSij(FaceG) + WaleRadicand(FaceG) # 0
  <2> SUFFICES ASSUME SijSij(FaceG) + WaleRadicand(FaceG) = 0 PROVE FALSE
    OBVIOUS
  <2>1. SijSij(FaceG) = 0 /\ WaleRadicand(FaceG) = 0
    BY <1>3, <1>4
  <2> DEFINE zero == [c \in Axes |-> [t \in Axes |-> 0]]
  <2>2. SameStrain(FaceG, zero)
    <3>1. \A c, t \in Axes : strain2(FaceG)[c][t] = 0
      BY <1>3, <2>1
    <3>2. \A c, t \in Axes : FaceG[c][t] + FaceG[t][c] = 0
      BY <1>1, <3>1, StrainOf
    <3> QED
      BY <3>2 DEF SameStrain
  <2>3. \A c, t \in Axes : WaleMatrix(FaceG)[c][t] = 0
    BY <1>4, <2>1
  <2> QED
    BY <1>2, <2>2, <2>3, WaleOfRotation
<1>6. VremanDivisor(FaceG) # 0
  <2>1. VremanDivisor(FaceG) = Squares(FaceG)
    BY Zenon DEF VremanDivisor, Squares
  <2>2. Squares(FaceG) = 0 => \A c, t \in Axes : FaceG[c][t] = 0
    BY <1>1, SquaresOf
  <2>3. \A x \in Int : 4 * x = 0 => x = 0
    OBVIOUS
  <2> QED
    BY <1>1, <1>2, <2>1, <2>2, <2>3
<1>7. VremanRadicand(FaceG) >= 0
  BY VremanNotNegative
<1>8. \A x \in Nat : x >= 0
  OBVIOUS
<1>9. SijSij(FaceG) >= 0 /\ WaleRadicand(FaceG) >= 0
  BY <1>3, <1>4, <1>8
<1>10. Radicand(m) >= 0
  BY <1>7, <1>9 DEF Radicand
<1>11. Divisor(m) # 0
  BY <1>5, <1>6 DEF Divisor
<1> QED
  BY <1>10, <1>11

LEMMA StressDissipatesOf == StressTypeInv => StressDissipates
<1> SUFFICES ASSUME StressTypeInv, Sheared
             PROVE
        /\ Sum2(LAMBDA d, n : tau(faceGradient(1), d, 0)[n] * faceGradient(1)[n][d]) >= 0
        /\ \A m \in 1..4 :
             /\ Sum2(LAMBDA d, n : allClosures[d][m].alphaij[n] * faceGradient(1)[n][d]) >= 0
             /\ allClosures[1][m].radicand >= 0
             /\ allClosures[1][m].divisor # 0
  BY Zenon DEF StressDissipates
<1>0. 1 \in Axes /\ 2 \in Axes /\ 3 \in Axes
  BY DEF Axes
<1>1. faceGradient(1) = FaceG /\ FaceG \in Matrices
  BY <1>0, FaceGradientOf, GType
<1>2. Sum2(LAMBDA d, n : tau(faceGradient(1), d, 0)[n] * faceGradient(1)[n][d]) >= 0
  <2> DEFINE g == faceGradient(1)
             T == << tau(g, 1, 0), tau(g, 2, 0), tau(g, 3, 0) >>
             e(d, n) == tau(g, d, 0)[n] * g[n][d]
             x(d, n) == T[d][n] * g[n][d]
  <2>1. \A d \in Axes : T[d] = tau(g, d, 0)
    <3> DEFINE y(d) == tau(g, d, 0)
    <3>1. T = << y(1), y(2), y(3) >>
      OBVIOUS
    <3> HIDE DEF y, T
    <3>2. \A d \in Axes : T[d] = y(d)
      BY <3>1 DEF Axes
    <3> QED
      BY <3>2 DEF y
  <2>2. TraceFreeStress(T, g)
    <3> SUFFICES ASSUME NEW d \in Axes, NEW n \in Axes
                 PROVE  T[d][n] = IF n = d THEN 6 * g[d][d] - 2 * (g[1][1] + g[2][2] + g[3][3])
                                  ELSE 3 * (g[d][n] + g[n][d])
      BY Zenon DEF TraceFreeStress
    <3>1. tau(g, d, 0)[n] = IF n = d THEN 6 * g[d][d] - 2 * (g[1][1] + g[2][2] + g[3][3])
                                          + 3 * 0 * (g[1][1] + g[2][2] + g[3][3])
                            ELSE 3 * (g[d][n] + g[n][d])
      <4>1. 0 \in Int
        OBVIOUS
      <4> QED
        BY <1>1, <4>1, TauOf
    <3>2. g[1][1] \in Int /\ g[2][2] \in Int /\ g[3][3] \in Int /\ g[d][d] \in Int
      BY <1>0, <1>1 DEF Matrices
    <3> QED
      BY <2>1, <3>1, <3>2
  <2>3. Sum2(LAMBDA d, n : tau(g, d, 0)[n] * g[n][d]) =
          (e(1, 1) + e(1, 2) + e(1, 3)) + (e(2, 1) + e(2, 2) + e(2, 3)) + (e(3, 1) + e(3, 2) + e(3, 3))
    BY Zenon DEF Sum2, Sum1
  <2>4. WorkSum(T, g) =
          (x(1, 1) + x(1, 2) + x(1, 3)) + (x(2, 1) + x(2, 2) + x(2, 3)) + (x(3, 1) + x(3, 2) + x(3, 3))
    BY Zenon DEF WorkSum, Sum2, Sum1
  <2>5. \A d, n \in Axes : e(d, n) = x(d, n)
    BY <2>1
  <2>6. WorkSum(T, g) >= 0
    BY <1>1, <2>2, WorkNotNegative
  <2> HIDE DEF T, e, x
  <2> QED
    BY <1>0, <2>3, <2>4, <2>5, <2>6
<1>3. ASSUME NEW m \in 1..4
      PROVE  /\ Sum2(LAMBDA d, n : allClosures[d][m].alphaij[n] * faceGradient(1)[n][d]) >= 0
             /\ allClosures[1][m].radicand >= 0
             /\ allClosures[1][m].divisor # 0
  <2> DEFINE g == faceGradient(1)
             T == [d \in Axes |-> allClosures[d][m].alphaij]
             e(d, n) == allClosures[d][m].alphaij[n] * g[n][d]
             x(d, n) == T[d][n] * g[n][d]
  <2>0. \A d \in Axes : allClosures[d][m] = Closure(d, m)
    BY ClosureOf
  <2>9. \A d : /\ Closure(d, m).alphaij = traceFree(FaceG, d)
               /\ Closure(d, m).radicand = Radicand(m)
               /\ Closure(d, m).divisor = Divisor(m)
    BY DEF Closure
  <2>1. \A d \in Axes : T[d] = allClosures[d][m].alphaij /\ T[d] = traceFree(g, d)
    <3>1. \A d \in Axes : T[d] = allClosures[d][m].alphaij
      OBVIOUS
    <3>2. \A d \in Axes : allClosures[d][m].alphaij = traceFree(g, d)
      BY Zenon, <1>1, <2>0, <2>9
    <3> QED
      BY Zenon, <3>1, <3>2
  <2>2. TraceFreeStress(T, g)
    <3> SUFFICES ASSUME NEW d \in Axes, NEW n \in Axes
                 PROVE  T[d][n] = IF n = d THEN 6 * g[d][d] - 2 * (g[1][1] + g[2][2] + g[3][3])
                                  ELSE 3 * (g[d][n] + g[n][d])
      BY Zenon DEF TraceFreeStress
    <3> HIDE DEF T
    <3> QED
      BY <1>1, <2>1, TraceFreeOf
  <2>3. Sum2(LAMBDA d, n : allClosures[d][m].alphaij[n] * g[n][d]) =
          (e(1, 1) + e(1, 2) + e(1, 3)) + (e(2, 1) + e(2, 2) + e(2, 3)) + (e(3, 1) + e(3, 2) + e(3, 3))
    BY Zenon DEF Sum2, Sum1
  <2>4. WorkSum(T, g) =
          (x(1, 1) + x(1, 2) + x(1, 3)) + (x(2, 1) + x(2, 2) + x(2, 3)) + (x(3, 1) + x(3, 2) + x(3, 3))
    BY Zenon DEF WorkSum, Sum2, Sum1
  <2>5. \A d, n \in Axes : e(d, n) = x(d, n)
    BY <2>1
  <2>6. WorkSum(T, g) >= 0
    BY <1>1, <2>2, WorkNotNegative
  <2>7. Sum2(LAMBDA d, n : allClosures[d][m].alphaij[n] * g[n][d]) >= 0
    <3> HIDE DEF T, e, x
    <3> QED
      BY <1>0, <2>3, <2>4, <2>5, <2>6
  <2>8. allClosures[1][m].radicand = Radicand(m) /\ allClosures[1][m].divisor = Divisor(m)
    BY Zenon, <1>0, <2>0, <2>9
  <2> QED
    BY <2>7, <2>8, RadicandOf
<1> QED
  BY <1>2, <1>3

(***************************************************************************)
(* For every gradient of the flow the work of the molecular stress and of  *)
(* the deviatoric stress of every closure is a sum of squares, the         *)
(* radicands of the closures are not negative, and their divisors vanish   *)
(* for the uniform flow only.                                              *)
(***************************************************************************)
THEOREM StressesDissipate == StressSpec => []StressDissipates
<1> QED
  BY StressDissipatesOf, StressTypeInvariant, PTL
====

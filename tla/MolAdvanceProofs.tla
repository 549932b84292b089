-------------------------- MODULE MolAdvanceProofs --------------------------
(***************************************************************************)
(* What MolAdvance guarantees for every set of configurations, every       *)
(* number of sweeps and every number of steps.                             *)
(*                                                                         *)
(* The properties speak of the end of a step only.  IInv carries through   *)
(* the step, block by block, the closed form of the states and registers   *)
(* built so far; the coefficients are read off it at the end.              *)
(***************************************************************************)
EXTENDS MolAdvance, TLAPS

-----------------------------------------------------------------------------
(* What the operators of Increments return, and their value at a term.     *)

\* The linear combinations of increments are increments.
LEMMA IncrementType ==
  /\ Zero \in Increment
  /\ \A k \in Kinds, n \in Sweeps, w \in Int : Only(k, n, w) \in Increment
  /\ \A on \in BOOLEAN, k \in Kinds, n \in Sweeps, w \in Int :
       OnlyIf(on, k, n, w) \in Increment
  /\ \A f, g \in Increment : Plus(f, g) \in Increment /\ Minus(f, g) \in Increment
  /\ \A f \in Increment : Half(f) \in Increment
<1>1. Zero \in Increment
  BY DEF Zero, Increment
<1>2. ASSUME NEW k \in Kinds, NEW n \in Sweeps, NEW w \in Int
      PROVE  Only(k, n, w) \in Increment
  BY <1>2 DEF Only, Increment
<1>3. ASSUME NEW on \in BOOLEAN, NEW k \in Kinds, NEW n \in Sweeps, NEW w \in Int
      PROVE  OnlyIf(on, k, n, w) \in Increment
  BY <1>1, <1>2 DEF OnlyIf
<1>4. ASSUME NEW f \in Increment, NEW g \in Increment
      PROVE  Plus(f, g) \in Increment /\ Minus(f, g) \in Increment
  BY DEF Plus, Minus, Increment
<1>5. ASSUME NEW f \in Increment PROVE Half(f) \in Increment
  BY DEF Half, Increment
<1> QED
  BY <1>1, <1>2, <1>3, <1>4, <1>5

\* The coefficient of the evaluation of kind k in sweep n in each of them.
LEMMA Coefficients ==
  ASSUME NEW k \in Kinds, NEW n \in Sweeps
  PROVE  /\ Zero[<<k, n>>] = 0
         /\ \A j, m, w : Only(j, m, w)[<<k, n>>] = IF k = j /\ n = m THEN w ELSE 0
         /\ \A on \in BOOLEAN : \A j, m, w :
              OnlyIf(on, j, m, w)[<<k, n>>] =
                IF on /\ k = j /\ n = m THEN w ELSE 0
         /\ \A f, g : Plus(f, g)[<<k, n>>] = f[<<k, n>>] + g[<<k, n>>]
         /\ \A f, g : Minus(f, g)[<<k, n>>] = f[<<k, n>>] - g[<<k, n>>]
         /\ \A f : Half(f)[<<k, n>>] = f[<<k, n>>] \div 2
<1>1. <<k, n>> \in Term
  BY DEF Term
<1>2. Zero[<<k, n>>] = 0
  BY <1>1 DEF Zero
<1>3. ASSUME NEW j, NEW m, NEW w
      PROVE  Only(j, m, w)[<<k, n>>] = IF k = j /\ n = m THEN w ELSE 0
  BY <1>1 DEF Only
<1>4. ASSUME NEW on \in BOOLEAN, NEW j, NEW m, NEW w
      PROVE  OnlyIf(on, j, m, w)[<<k, n>>] =
               IF on /\ k = j /\ n = m THEN w ELSE 0
  BY <1>2, <1>3 DEF OnlyIf
<1>5. \A f, g : Plus(f, g)[<<k, n>>] = f[<<k, n>>] + g[<<k, n>>]
  BY <1>1 DEF Plus
<1>6. \A f, g : Minus(f, g)[<<k, n>>] = f[<<k, n>>] - g[<<k, n>>]
  BY <1>1 DEF Minus
<1>7. \A f : Half(f)[<<k, n>>] = f[<<k, n>>] \div 2
  BY <1>1 DEF Half
<1> QED
  BY <1>2, <1>3, <1>4, <1>5, <1>6, <1>7

-----------------------------------------------------------------------------
(* The states of a step.                                                   *)

oldRhs    == Plus(getMOLSrcTerm(0), otherSources(0))
Predicted == Plus(oldRhs, reaction(0, 2))
Averaged  == Plus(Half(Predicted), Half(Plus(getMOLSrcTerm(1), otherSources(1))))
Reacted   == Plus(Minus(Plus(Averaged, reaction(0, 1)), reaction(0, 2)),
                  Only("react", 1, 2))
Corrected(n) == Plus(Plus(Half(oldRhs), Half(getMOLSrcTerm(n))),
                     Only("react", n, 2))

\* Where the sweep counter stands in each block.
SweepInv ==
  /\ pc \in {"new", "react"} => sweep = 1
  /\ pc = "react" => par.do_react
  /\ pc = "correct" => par.do_react /\ 1 <= sweep /\ sweep < par.mol_iters

\* The step that computed the rates in use.
RateInv ==
  /\ pc # "old" => step < MaxSteps
  /\ pc = "old" /\ par.do_react => Reactions.new = step
  /\ pc # "old" /\ par.do_react => inherited = step
  /\ pc \in {"correct", "finish"} /\ par.do_react => Reactions.new = step + 1

\* The new state, and the old right-hand side kept for the corrections.
StateInv ==
  /\ pc = "new" => S = Predicted
  /\ pc = "react" => S = Averaged
  /\ pc \in {"new", "react", "correct"} /\ par.mol_iters > 1
       => molSrc_old = oldRhs
  /\ pc = "finish" =>
       \/ ~ par.do_react /\ sweep = 1 /\ S = Averaged
       \/ par.do_react /\ par.mol_iters = 1 /\ sweep = 1 /\ S = Reacted
       \/ /\ par.do_react /\ par.mol_iters > 1
          /\ sweep = par.mol_iters /\ S = Corrected(sweep)

IInv == TypeOK /\ SweepInv /\ RateInv /\ StateInv

\* The registers hold half of each old flux, and the fluxes of one new-time
\* sweep with weight w.
held(p, k, n, last, w) ==
  CASE n = 0 /\ k = "flux" /\ p.flux -> 1
    [] n = 0 /\ k = "les" /\ p.les -> 1
    [] n # 0 /\ n = last /\ k = "flux" /\ p.flux -> w
    [] OTHER -> 0

RegistersHold(last, w) ==
  \A k \in FluxKinds, n \in Sweeps : reg[<<k, n>>] = held(par, k, n, last, w)

RegInv ==
  /\ pc = "new" => RegistersHold(1, 0)
  /\ pc = "react" => RegistersHold(1, predictorFactor)
  /\ pc = "correct" => RegistersHold(1, 0)
  /\ pc = "finish" =>
       RegistersHold(sweep, IF par.do_react THEN 1 ELSE predictorFactor)

-----------------------------------------------------------------------------
LEMMA ConfigType ==
  ASSUME par \in Configs
  PROVE  /\ par.mol_iters \in 1 .. MaxSweeps
         /\ par.do_react \in BOOLEAN /\ par.flux \in BOOLEAN
         /\ par.les \in BOOLEAN /\ par.ext \in BOOLEAN
BY ConfigAssumption

LEMMA Constants ==
  /\ MaxSweeps \in Nat /\ MaxSweeps > 0 /\ MaxSteps \in Nat /\ MaxSteps > 0
  /\ 0 \in Sweeps /\ 1 \in Sweeps
  /\ {"flux", "les", "ext", "react"} \subseteq Kinds
BY SweepsAssumption, ConfigAssumption DEF Sweeps, Kinds, FluxKinds

\* The evaluations of one sweep are increments.
LEMMA EvaluationType ==
  ASSUME par \in Configs, NEW n \in Sweeps
  PROVE  /\ getMOLSrcTerm(n) \in Increment
         /\ otherSources(n) \in Increment
         /\ \A w \in Int : reaction(n, w) \in Increment
         /\ \A w \in Int : OnlyIf(par.flux, "flux", n, w) \in Increment
         /\ lesRefluxNew(n) \in Increment
         /\ lesRefluxOld \in Increment
<1>1. lesRefluxFactor(0, 0) \in Int
  BY DEF lesRefluxFactor
<1> QED
  BY <1>1, ConfigType, IncrementType, Constants
  DEF getMOLSrcTerm, otherSources, reaction, lesRefluxNew, lesRefluxOld

\* The coefficient of an evaluation that a parameter turns on.
LEMMA CoefficientIf ==
  ASSUME par \in Configs, NEW k \in Kinds, NEW n \in Sweeps, NEW m, NEW w
  PROVE  /\ OnlyIf(par.flux, "flux", m, w)[<<k, n>>] =
              IF par.flux /\ k = "flux" /\ n = m THEN w ELSE 0
         /\ OnlyIf(par.les, "les", m, w)[<<k, n>>] =
              IF par.les /\ k = "les" /\ n = m THEN w ELSE 0
         /\ OnlyIf(par.ext, "ext", m, w)[<<k, n>>] =
              IF par.ext /\ k = "ext" /\ n = m THEN w ELSE 0
         /\ OnlyIf(par.do_react, "react", m, w)[<<k, n>>] =
              IF par.do_react /\ k = "react" /\ n = m THEN w ELSE 0
<1>1. <<k, n>> \in Term
  BY DEF Term
<1> QED
  BY <1>1, ConfigType DEF OnlyIf, Only, Zero

LEMMA InitIInv == Init => IInv
<1> SUFFICES ASSUME Init PROVE IInv
  OBVIOUS
<1> USE DEF Init
<1>1. TypeOK
  BY IncrementType, Constants DEF TypeOK, NoRate, Sweeps
<1>2. SweepInv /\ StateInv
  BY DEF SweepInv, StateInv
<1>3. RateInv
  BY DEF RateInv
<1> QED
  BY <1>1, <1>2, <1>3 DEF IInv

-----------------------------------------------------------------------------
\* One lemma per action: it preserves IInv.
LEMMA PredictIInv == ASSUME IInv, Predict PROVE IInv'
<1> USE DEF IInv, Predict
<1>1. TypeOK'
  <2>1. molSrc' \in Increment
    BY EvaluationType, IncrementType, Constants DEF TypeOK
  <2>2. S' \in Increment
    BY <2>1, EvaluationType, IncrementType, Constants DEF TypeOK
  <2>3. reg' \in Increment
    BY EvaluationType, IncrementType, Constants DEF TypeOK
  <2>4. molSrc_old' \in Increment
    BY <2>1 DEF TypeOK
  <2>5. Reactions' \in [new : NoRate .. MaxSteps, old : NoRate .. MaxSteps]
    BY Constants DEF TypeOK, swappedReactions, NoRate
  <2>6. inherited' \in NoRate .. MaxSteps
    BY <2>5
  <2> QED
    BY <2>1, <2>2, <2>3, <2>4, <2>5, <2>6, Constants DEF TypeOK
<1>2. SweepInv'
  BY DEF SweepInv
<1>3. RateInv'
  <2>1. par.do_react => inherited' = step
    BY DEF swappedReactions, RateInv
  <2> QED
    BY <2>1 DEF RateInv
<1>4. StateInv'
  <2>1. molSrc' = oldRhs'
    BY DEF oldRhs, getMOLSrcTerm, otherSources
  <2>2. S' = Predicted'
    BY <2>1 DEF Predicted, reaction
  <2> QED
    BY <2>1, <2>2 DEF StateInv
<1> QED
  BY <1>1, <1>2, <1>3, <1>4

LEMMA AverageIInv == ASSUME IInv, Average PROVE IInv'
<1> USE DEF IInv, Average
<1>1. TypeOK'
  <2>1. molSrc' \in Increment
    BY EvaluationType, IncrementType, Constants DEF TypeOK
  <2>2. S' \in Increment
    BY <2>1, IncrementType DEF TypeOK
  <2>3. reg' \in Increment
    <3>1. predictorFactor \in Int
      BY DEF predictorFactor
    <3> QED
      BY <3>1, EvaluationType, IncrementType, Constants DEF TypeOK
  <2> QED
    BY <2>1, <2>2, <2>3 DEF TypeOK
<1>2. SweepInv'
  BY DEF SweepInv
<1>3. RateInv'
  BY DEF RateInv
<1>4. StateInv'
  <2>1. S' = Averaged'
    BY DEF StateInv, Averaged, Predicted, oldRhs, getMOLSrcTerm, otherSources,
           reaction
  <2>2. oldRhs' = oldRhs
    BY DEF oldRhs, getMOLSrcTerm, otherSources
  <2> QED
    BY <2>1, <2>2, ConfigType DEF StateInv, SweepInv, TypeOK
<1> QED
  BY <1>1, <1>2, <1>3, <1>4

LEMMA ReactIInv == ASSUME IInv, React PROVE IInv'
<1> USE DEF IInv, React, forcing
<1>1. TypeOK'
  <2>1. molSrc' \in Increment
    BY EvaluationType, IncrementType, Constants DEF TypeOK
  <2>2. S' \in Increment
    BY <2>1, IncrementType, Constants DEF react_state
  <2>3. Reactions' \in [new : NoRate .. MaxSteps, old : NoRate .. MaxSteps]
    BY Constants DEF TypeOK, RateInv, react_state, NoRate
  <2> QED
    BY <2>1, <2>2, <2>3 DEF TypeOK
<1>2. SweepInv'
  BY ConfigType DEF SweepInv, TypeOK
<1>3. RateInv'
  BY DEF RateInv, react_state, TypeOK
<1>4. StateInv'
  <2>1. S' = Reacted'
    BY DEF react_state, StateInv, Reacted, Averaged, Predicted, oldRhs,
           getMOLSrcTerm, otherSources, reaction
  <2>2. oldRhs' = oldRhs
    BY DEF oldRhs, getMOLSrcTerm, otherSources
  <2> QED
    BY <2>1, <2>2, ConfigType DEF StateInv, SweepInv, TypeOK
<1> QED
  BY <1>1, <1>2, <1>3, <1>4

LEMMA CorrectIInv == ASSUME IInv, Correct PROVE IInv'
<1> USE DEF IInv, Correct, correctedForcing, endsLoop
<1>0. sweep' = sweep + 1 /\ sweep' \in Sweeps /\ sweep' <= par.mol_iters
  BY ConfigType, Constants DEF SweepInv, TypeOK, Sweeps
<1>1. TypeOK'
  <2>1. molSrc' \in Increment
    BY <1>0, EvaluationType, IncrementType DEF TypeOK
  <2>2. S' \in Increment
    BY <1>0, <2>1, IncrementType, Constants DEF react_state
  <2>3. reg' \in Increment
    <3>1. correctorFactor(sweep') \in Int
      BY DEF correctorFactor
    <3> QED
      BY <3>1, <1>0, EvaluationType, IncrementType DEF TypeOK
  <2>4. Reactions' \in [new : NoRate .. MaxSteps, old : NoRate .. MaxSteps]
    BY Constants DEF TypeOK, RateInv, react_state, NoRate
  <2> QED
    BY <1>0, <2>1, <2>2, <2>3, <2>4 DEF TypeOK
<1>2. SweepInv'
  BY <1>0, ConfigType DEF SweepInv, TypeOK
<1>3. RateInv'
  BY DEF RateInv, react_state, TypeOK
<1>4. StateInv'
  <2>1. oldRhs' = oldRhs
    BY DEF oldRhs, getMOLSrcTerm, otherSources
  <2>2. par.mol_iters > 1 /\ molSrc_old = oldRhs
    BY ConfigType, Constants DEF StateInv, SweepInv, TypeOK, Sweeps
  <2>3. S' = Corrected(sweep)'
    BY <2>1, <2>2 DEF react_state, Corrected, getMOLSrcTerm
  <2> QED
    BY <2>1, <2>2, <2>3, <1>0 DEF StateInv, SweepInv
<1> QED
  BY <1>1, <1>2, <1>3, <1>4

\* Finish, Done and stuttering change nothing IInv says of a running step.
LEMMA OtherIInv ==
  ASSUME IInv, Finish \/ Done \/ UNCHANGED vars PROVE IInv'
<1> USE DEF IInv
<1>1. CASE Finish
  <2>1. TypeOK'
    BY <1>1, Constants DEF Finish, TypeOK, RateInv
  <2>2. SweepInv' /\ StateInv'
    BY <1>1 DEF Finish, SweepInv, StateInv
  <2>3. RateInv'
    BY <1>1 DEF Finish, RateInv
  <2> QED
    BY <2>1, <2>2, <2>3
<1>2. CASE UNCHANGED vars
  BY <1>2 DEF vars, TypeOK, SweepInv, RateInv, StateInv, Predicted, Averaged,
     Reacted, Corrected, oldRhs, getMOLSrcTerm, otherSources, reaction
<1> QED
  BY <1>1, <1>2 DEF Done

LEMMA NextIInv == IInv /\ [Next]_vars => IInv'
BY PredictIInv, AverageIInv, ReactIInv, CorrectIInv, OtherIInv DEF Next

\* The inductive invariant holds in every reachable state.
LEMMA IInvInvariant == Spec => []IInv
<1>1. Init => IInv
  BY InitIInv
<1>2. IInv /\ [Next]_vars => IInv'
  BY NextIInv
<1> QED
  BY <1>1, <1>2, PTL DEF Spec

\* Every variable of do_mol_advance stays in its type, in every
\* configuration and over every number of steps.
THEOREM MolTypeCorrect == Spec => []TypeOK
<1>1. IInv => TypeOK
  BY DEF IInv
<1> QED
  BY <1>1, IInvInvariant, PTL

-----------------------------------------------------------------------------
LEMMA PredictRegInv == ASSUME IInv, Predict PROVE RegInv'
<1> SUFFICES ASSUME NEW k \in FluxKinds, NEW n \in Sweeps
             PROVE  reg'[<<k, n>>] = held(par, k, n, 1, 0)
  BY DEF RegistersHold, RegInv, Predict
<1>1. k \in Kinds
  BY DEF Kinds
<1>2. reg'[<<k, n>>] = OnlyIf(par.flux, "flux", 0, 1)[<<k, n>>]
                       + OnlyIf(par.les, "les", 0, 1)[<<k, n>>]
  BY <1>1, Coefficients DEF Predict, lesRefluxOld
<1>3. /\ OnlyIf(par.flux, "flux", 0, 1)[<<k, n>>] =
           IF par.flux /\ k = "flux" /\ n = 0 THEN 1 ELSE 0
      /\ OnlyIf(par.les, "les", 0, 1)[<<k, n>>] =
           IF par.les /\ k = "les" /\ n = 0 THEN 1 ELSE 0
  BY <1>1, CoefficientIf DEF IInv, TypeOK
<1> QED
  BY <1>2, <1>3 DEF held

LEMMA AverageRegInv == ASSUME IInv, RegInv, Average PROVE RegInv'
<1>1. ASSUME NEW k \in FluxKinds, NEW n \in Sweeps
      PROVE  reg'[<<k, n>>] = held(par, k, n, 1, predictorFactor)
  <2>1. k \in Kinds
    BY DEF Kinds
  <2>2. reg'[<<k, n>>] = reg[<<k, n>>]
          + (OnlyIf(par.flux, "flux", 1, predictorFactor)[<<k, n>>]
             + OnlyIf(par.les, "les", 1, 0)[<<k, n>>])
    BY <2>1, Coefficients DEF Average, lesRefluxNew, lesRefluxFactor
  <2>3. reg[<<k, n>>] = held(par, k, n, 1, 0)
    BY DEF RegInv, Average, RegistersHold
  <2>4. /\ OnlyIf(par.flux, "flux", 1, predictorFactor)[<<k, n>>] =
             IF par.flux /\ k = "flux" /\ n = 1 THEN predictorFactor ELSE 0
        /\ OnlyIf(par.les, "les", 1, 0)[<<k, n>>] = 0
    BY <2>1, CoefficientIf DEF IInv, TypeOK
  <2>5. predictorFactor \in Int
    BY DEF predictorFactor
  <2> QED
    BY <2>2, <2>3, <2>4, <2>5 DEF held
<1>2. predictorFactor' = predictorFactor /\ par' = par /\ sweep' = 1
  BY DEF Average, predictorFactor, IInv, SweepInv
<1> QED
  BY <1>1, <1>2 DEF RegInv, Average, RegistersHold

LEMMA CorrectRegInv == ASSUME IInv, RegInv, Correct PROVE RegInv'
<1>1. /\ sweep \in Int /\ sweep >= 1 /\ sweep' = sweep + 1
      /\ par.do_react /\ par.mol_iters \in Int
  BY ConfigType, Constants DEF Correct, IInv, SweepInv, TypeOK, Sweeps
<1>2. correctorFactor(sweep') \in Int
  BY DEF correctorFactor
<1>3. ASSUME NEW k \in FluxKinds, NEW n \in Sweeps
      PROVE  reg'[<<k, n>>] =
               held(par, k, n, sweep', correctorFactor(sweep'))
  <2>1. k \in Kinds
    BY DEF Kinds
  <2>2. reg'[<<k, n>>] = reg[<<k, n>>]
          + OnlyIf(par.flux, "flux", sweep', correctorFactor(sweep'))[<<k, n>>]
    BY <2>1, Coefficients DEF Correct
  <2>3. reg[<<k, n>>] = held(par, k, n, 1, 0)
    BY DEF RegInv, Correct, RegistersHold
  <2>4. OnlyIf(par.flux, "flux", sweep', correctorFactor(sweep'))[<<k, n>>] =
          IF par.flux /\ k = "flux" /\ n = sweep'
          THEN correctorFactor(sweep') ELSE 0
    BY <2>1, CoefficientIf DEF IInv, TypeOK
  <2> QED
    BY <1>1, <1>2, <2>2, <2>3, <2>4 DEF held
<1>4. CASE sweep' = par.mol_iters
  BY <1>1, <1>3, <1>4 DEF RegInv, Correct, correctorFactor, RegistersHold, endsLoop
<1>5. CASE sweep' # par.mol_iters
  <2>1. correctorFactor(sweep') = 0 /\ pc' = "correct" /\ par' = par
    BY <1>5 DEF Correct, correctorFactor, endsLoop
  <2>2. ASSUME NEW k \in FluxKinds, NEW n \in Sweeps
        PROVE  reg'[<<k, n>>] = held(par, k, n, 1, 0)
    BY <1>3, <2>1 DEF held
  <2> QED
    BY <2>1, <2>2 DEF RegInv, RegistersHold
<1> QED
  BY <1>4, <1>5

LEMMA NextRegInv == ASSUME IInv, RegInv, [Next]_vars PROVE RegInv'
<1>1. CASE React
  <2>1. reg' = reg /\ par' = par /\ sweep' = sweep /\ pc = "react"
        /\ par.do_react /\ sweep = 1
    BY <1>1 DEF React, IInv, SweepInv
  <2>2. pc' = IF par.mol_iters > 1 THEN "correct" ELSE "finish"
    BY <1>1 DEF React
  <2>3. CASE par.mol_iters > 1
    BY <2>1, <2>2, <2>3 DEF RegInv, RegistersHold, predictorFactor
  <2>4. CASE ~ (par.mol_iters > 1)
    BY <2>1, <2>2, <2>4 DEF RegInv, RegistersHold, predictorFactor
  <2> QED
    BY <2>3, <2>4
<1>2. CASE Finish
  BY <1>2 DEF Finish, RegInv
<1>3. CASE Done \/ UNCHANGED vars
  BY <1>3 DEF Done, vars, RegInv, RegistersHold, predictorFactor
<1> QED
  BY <1>1, <1>2, <1>3, PredictRegInv, AverageRegInv, CorrectRegInv DEF Next

LEMMA RegInvInvariant == Spec => [](IInv /\ RegInv)
<1>1. Init => RegInv
  BY DEF Init, RegInv
<1>2. IInv /\ RegInv /\ [Next]_vars => RegInv'
  BY NextRegInv
<1> QED
  BY <1>1, <1>2, IInvInvariant, PTL DEF Spec

-----------------------------------------------------------------------------
(***************************************************************************)
(* The coefficients of the states a step can return.                       *)
(***************************************************************************)
LEMMA RhsCoefficients ==
  ASSUME par \in Configs, NEW k \in Kinds, NEW n \in Sweeps, NEW m \in Sweeps
  PROVE  /\ getMOLSrcTerm(m)[<<k, n>>] =
              IF par.flux /\ k = "flux" /\ n = m THEN 2 ELSE 0
         /\ otherSources(m)[<<k, n>>] =
              (IF par.les /\ k = "les" /\ n = m THEN 2 ELSE 0)
              + (IF par.ext /\ k = "ext" /\ n = m THEN 2 ELSE 0)
         /\ \A w \in Int : reaction(m, w)[<<k, n>>] =
              IF par.do_react /\ k = "react" /\ n = m THEN w ELSE 0
<1>1. getMOLSrcTerm(m)[<<k, n>>] =
        IF par.flux /\ k = "flux" /\ n = m THEN 2 ELSE 0
  BY CoefficientIf DEF getMOLSrcTerm
<1>2. otherSources(m)[<<k, n>>] = OnlyIf(par.les, "les", m, 2)[<<k, n>>]
                                  + OnlyIf(par.ext, "ext", m, 2)[<<k, n>>]
  BY Coefficients DEF otherSources
<1>3. /\ OnlyIf(par.les, "les", m, 2)[<<k, n>>] =
           IF par.les /\ k = "les" /\ n = m THEN 2 ELSE 0
      /\ OnlyIf(par.ext, "ext", m, 2)[<<k, n>>] =
           IF par.ext /\ k = "ext" /\ n = m THEN 2 ELSE 0
  BY CoefficientIf
<1>4. ASSUME NEW w \in Int
      PROVE  reaction(m, w)[<<k, n>>] =
               IF par.do_react /\ k = "react" /\ n = m THEN w ELSE 0
  BY CoefficientIf DEF reaction
<1> QED
  BY <1>1, <1>2, <1>3, <1>4

\* Without corrections: half of the old and half of the predicted evaluations,
\* and in Averaged half of the inherited rate.
LEMMA AveragedCoefficients ==
  ASSUME par \in Configs, NEW k \in Kinds, NEW n \in Sweeps
  PROVE  Averaged[<<k, n>>] =
           CASE k = "flux" /\ par.flux /\ n \in {0, 1} -> 1
             [] k = "les" /\ par.les /\ n \in {0, 1} -> 1
             [] k = "ext" /\ par.ext /\ n \in {0, 1} -> 1
             [] k = "react" /\ par.do_react /\ n = 0 -> 1
             [] OTHER -> 0
<1> /\ \A f, g : Plus(f, g)[<<k, n>>] = f[<<k, n>>] + g[<<k, n>>]
    /\ \A f : Half(f)[<<k, n>>] = f[<<k, n>>] \div 2
  BY Coefficients
<1>1. Predicted[<<k, n>>] = (getMOLSrcTerm(0)[<<k, n>>]
        + otherSources(0)[<<k, n>>]) + reaction(0, 2)[<<k, n>>]
  BY DEF Predicted, oldRhs
<1>2. Averaged[<<k, n>>] = (Predicted[<<k, n>>] \div 2)
        + ((getMOLSrcTerm(1)[<<k, n>>] + otherSources(1)[<<k, n>>]) \div 2)
  BY DEF Averaged
<1>3. 0 \in Sweeps /\ 1 \in Sweeps
  BY Constants
<1>4. Predicted[<<k, n>>] =
        CASE k = "flux" /\ par.flux /\ n = 0 -> 2
          [] k = "les" /\ par.les /\ n = 0 -> 2
          [] k = "ext" /\ par.ext /\ n = 0 -> 2
          [] k = "react" /\ par.do_react /\ n = 0 -> 2
          [] OTHER -> 0
  <2>1. /\ getMOLSrcTerm(0)[<<k, n>>] =
             IF par.flux /\ k = "flux" /\ n = 0 THEN 2 ELSE 0
        /\ otherSources(0)[<<k, n>>] =
             (IF par.les /\ k = "les" /\ n = 0 THEN 2 ELSE 0)
             + (IF par.ext /\ k = "ext" /\ n = 0 THEN 2 ELSE 0)
        /\ reaction(0, 2)[<<k, n>>] =
             IF par.do_react /\ k = "react" /\ n = 0 THEN 2 ELSE 0
    BY <1>3, RhsCoefficients
  <2> QED
    BY <1>1, <2>1
<1>5. getMOLSrcTerm(1)[<<k, n>>] + otherSources(1)[<<k, n>>] =
        CASE k = "flux" /\ par.flux /\ n = 1 -> 2
          [] k = "les" /\ par.les /\ n = 1 -> 2
          [] k = "ext" /\ par.ext /\ n = 1 -> 2
          [] OTHER -> 0
  <2>1. /\ getMOLSrcTerm(1)[<<k, n>>] =
             IF par.flux /\ k = "flux" /\ n = 1 THEN 2 ELSE 0
        /\ otherSources(1)[<<k, n>>] =
             (IF par.les /\ k = "les" /\ n = 1 THEN 2 ELSE 0)
             + (IF par.ext /\ k = "ext" /\ n = 1 THEN 2 ELSE 0)
    BY <1>3, RhsCoefficients
  <2> QED
    BY <2>1
<1> QED
  BY <1>2, <1>4, <1>5

\* With reactions: the two halves of the inherited rate cancel.
LEMMA ReactedCoefficients ==
  ASSUME par \in Configs, par.do_react, NEW k \in Kinds, NEW n \in Sweeps
  PROVE  Reacted[<<k, n>>] =
           CASE k = "flux" /\ par.flux /\ n \in {0, 1} -> 1
             [] k = "les" /\ par.les /\ n \in {0, 1} -> 1
             [] k = "ext" /\ par.ext /\ n \in {0, 1} -> 1
             [] k = "react" /\ n = 1 -> 2
             [] OTHER -> 0
<1> /\ \A f, g : Plus(f, g)[<<k, n>>] = f[<<k, n>>] + g[<<k, n>>]
    /\ \A f, g : Minus(f, g)[<<k, n>>] = f[<<k, n>>] - g[<<k, n>>]
  BY Coefficients
<1>1. Reacted[<<k, n>>] = ((Averaged[<<k, n>>] + reaction(0, 1)[<<k, n>>])
        - reaction(0, 2)[<<k, n>>]) + Only("react", 1, 2)[<<k, n>>]
  BY DEF Reacted
<1>2. ASSUME NEW w \in Int
      PROVE  reaction(0, w)[<<k, n>>] = IF k = "react" /\ n = 0 THEN w ELSE 0
  <2>1. reaction(0, w)[<<k, n>>] =
          IF par.do_react /\ k = "react" /\ n = 0 THEN w ELSE 0
    BY CoefficientIf DEF reaction
  <2> QED
    BY <2>1
<1>3. Only("react", 1, 2)[<<k, n>>] = IF k = "react" /\ n = 1 THEN 2 ELSE 0
  BY Coefficients
<1> QED
  BY <1>1, <1>2, <1>3, AveragedCoefficients

LEMMA CorrectedCoefficients ==
  ASSUME par \in Configs, NEW k \in Kinds, NEW n \in Sweeps,
         NEW m \in Sweeps, m # 0
  PROVE  Corrected(m)[<<k, n>>] =
           CASE k = "flux" /\ par.flux /\ n \in {0, m} -> 1
             [] k = "les" /\ par.les /\ n = 0 -> 1
             [] k = "ext" /\ par.ext /\ n = 0 -> 1
             [] k = "react" /\ n = m -> 2
             [] OTHER -> 0
<1> /\ \A f, g : Plus(f, g)[<<k, n>>] = f[<<k, n>>] + g[<<k, n>>]
    /\ \A f : Half(f)[<<k, n>>] = f[<<k, n>>] \div 2
  BY Coefficients
<1>1. Corrected(m)[<<k, n>>] =
        (((getMOLSrcTerm(0)[<<k, n>>] + otherSources(0)[<<k, n>>]) \div 2)
         + (getMOLSrcTerm(m)[<<k, n>>] \div 2)) + Only("react", m, 2)[<<k, n>>]
  BY DEF Corrected, oldRhs
<1>2. getMOLSrcTerm(0)[<<k, n>>] + otherSources(0)[<<k, n>>] =
        CASE k = "flux" /\ par.flux /\ n = 0 -> 2
          [] k = "les" /\ par.les /\ n = 0 -> 2
          [] k = "ext" /\ par.ext /\ n = 0 -> 2
          [] OTHER -> 0
  <2>1. /\ getMOLSrcTerm(0)[<<k, n>>] =
             IF par.flux /\ k = "flux" /\ n = 0 THEN 2 ELSE 0
        /\ otherSources(0)[<<k, n>>] =
             (IF par.les /\ k = "les" /\ n = 0 THEN 2 ELSE 0)
             + (IF par.ext /\ k = "ext" /\ n = 0 THEN 2 ELSE 0)
    BY RhsCoefficients, Constants
  <2> QED
    BY <2>1
<1>3. getMOLSrcTerm(m)[<<k, n>>] =
        IF par.flux /\ k = "flux" /\ n = m THEN 2 ELSE 0
  BY RhsCoefficients
<1>4. Only("react", m, 2)[<<k, n>>] = IF k = "react" /\ n = m THEN 2 ELSE 0
  BY Coefficients
<1> QED
  BY <1>1, <1>2, <1>3, <1>4

-----------------------------------------------------------------------------
\* What a finished step's state is made of, and how far its sweeps went.
LEMMA FinishedState ==
  ASSUME IInv, pc = "finish"
  PROVE  /\ sweep \in Sweeps /\ sweep # 0
         /\ \/ ~ par.do_react /\ sweep = 1 /\ S = Averaged
            \/ par.do_react /\ sweep = 1 /\ S = Reacted /\ par.mol_iters = 1
            \/ par.do_react /\ S = Corrected(sweep) /\ par.mol_iters > 1
BY Constants, ConfigType DEF IInv, StateInv, TypeOK, Sweeps

\* The accepted step is trapezoidal in the advection-diffusion flux, for any
\* number of iterations (do_mol_advance's averages and corrections).
THEOREM MolFluxIsTrapezoidal == Spec => []FluxIsTrapezoidal
<1>1. ASSUME IInv PROVE FluxIsTrapezoidal
  <2> SUFFICES ASSUME pc = "finish", par.flux, NEW n \in Sweeps
               PROVE  S[<<"flux", n>>] = (IF n \in {0, sweep} THEN 1 ELSE 0)
    BY DEF FluxIsTrapezoidal, IsTrapezoid
  <2>1. "flux" \in Kinds /\ par \in Configs
    BY <1>1, Constants DEF IInv, TypeOK
  <2>2. CASE S = Averaged /\ sweep = 1
    BY <2>1, <2>2, AveragedCoefficients
  <2>3. CASE S = Reacted /\ sweep = 1 /\ par.do_react
    BY <2>1, <2>3, ReactedCoefficients
  <2>4. CASE S = Corrected(sweep)
    <3>1. sweep \in Sweeps /\ sweep # 0
      BY <1>1, FinishedState
    <3> QED
      BY <3>1, <2>1, <2>4, CorrectedCoefficients
  <2> QED
    BY <1>1, <2>2, <2>3, <2>4, FinishedState
<1> QED
  BY <1>1, IInvInvariant, PTL

\* The rate of the last sweep enters the accepted state once, and nothing of
\* the inherited rate or of an earlier sweep stays (react_state's F_AD).
THEOREM MolReactionCountedOnce == Spec => []ReactionCountedOnce
<1>1. ASSUME IInv PROVE ReactionCountedOnce
  <2> SUFFICES ASSUME pc = "finish"
               PROVE  IF par.do_react
                      THEN IsAll(S, "react", sweep) /\ Reactions.new = step + 1
                      ELSE IsFreeOf(S, "react")
    BY DEF ReactionCountedOnce
  <2>1. "react" \in Kinds /\ par \in Configs /\ sweep \in Sweeps /\ sweep # 0
    BY <1>1, Constants, FinishedState DEF IInv, TypeOK
  <2>2. CASE ~ par.do_react
    <3>1. S = Averaged
      BY <1>1, <2>2, FinishedState
    <3>2. ASSUME NEW n \in Sweeps PROVE S[<<"react", n>>] = 0
      BY <2>1, <2>2, <3>1, AveragedCoefficients
    <3> QED
      BY <2>2, <3>2 DEF IsFreeOf
  <2>3. CASE par.do_react
    <3>1. ASSUME NEW n \in Sweeps
          PROVE  S[<<"react", n>>] = (IF n = sweep THEN 2 ELSE 0)
      <4>1. CASE S = Reacted /\ sweep = 1
        BY <2>1, <2>3, <4>1, ReactedCoefficients
      <4>2. CASE S = Corrected(sweep)
        BY <2>1, <4>2, CorrectedCoefficients
      <4> QED
        BY <1>1, <2>3, <4>1, <4>2, FinishedState
    <3>2. Reactions.new = step + 1
      BY <1>1, <2>3 DEF IInv, RateInv
    <3> QED
      BY <2>3, <3>1, <3>2 DEF IsAll
  <2> QED
    BY <2>2, <2>3
<1> QED
  BY <1>1, IInvInvariant, PTL

\* A reacting step predicts with the rate of the step just before it.
THEOREM MolPredictorUsesPreviousRate == Spec => []PredictorUsesPreviousRate
<1>1. IInv => PredictorUsesPreviousRate
  BY DEF IInv, RateInv, PredictorUsesPreviousRate
<1> QED
  BY <1>1, IInvInvariant, PTL

\* Refluxing is conservative: with no subgrid model, and with reactions
\* whenever there are corrections, the registers hold every flux with its
\* coefficient in the new state.  (Without either assumption they do not: see
\* lesRefluxFactor and predictorFactor.)
THEOREM MolRefluxMatchesUpdate ==
  ASSUME \A c \in Configs : ~ c.les /\ (c.mol_iters > 1 => c.do_react)
  PROVE  Spec => []RefluxMatchesUpdate
<1>1. ASSUME IInv, RegInv PROVE RefluxMatchesUpdate
  <2> SUFFICES ASSUME pc = "finish", NEW k \in FluxKinds, NEW n \in Sweeps
               PROVE  reg[<<k, n>>] = S[<<k, n>>]
    BY DEF RefluxMatchesUpdate
  <2>1. /\ k \in Kinds /\ k \in {"flux", "hydro", "les"} /\ par \in Configs
        /\ ~ par.les /\ (par.mol_iters > 1 => par.do_react)
        /\ sweep # 0 /\ sweep \in Sweeps
    BY <1>1, FinishedState DEF IInv, TypeOK, Kinds, FluxKinds
  <2>2. reg[<<k, n>>] = held(par, k, n, sweep, 1)
    <3>1. (IF par.do_react THEN 1 ELSE predictorFactor) = 1
      BY <2>1 DEF predictorFactor
    <3> QED
      BY <1>1, <3>1 DEF RegInv, RegistersHold
  <2>3. reg[<<k, n>>] = IF k = "flux" /\ par.flux /\ n \in {0, sweep} THEN 1 ELSE 0
    BY <2>1, <2>2 DEF held
  <2>4. CASE S = Averaged /\ sweep = 1
    BY <2>1, <2>3, <2>4, AveragedCoefficients
  <2>5. CASE S = Reacted /\ sweep = 1 /\ par.do_react
    BY <2>1, <2>3, <2>5, ReactedCoefficients
  <2>6. CASE S = Corrected(sweep)
    BY <2>1, <2>3, <2>6, CorrectedCoefficients
  <2> QED
    BY <1>1, <2>4, <2>5, <2>6, FinishedState
<1> QED
  BY <1>1, RegInvInvariant, PTL
=============================================================================

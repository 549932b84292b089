-------------------------- MODULE SdcAdvanceProofs --------------------------
(***************************************************************************)
(* What SdcAdvance guarantees for every set of configurations, every       *)
(* number of SDC iterations and every number of steps.                     *)
(*                                                                         *)
(* IInv says what each block of do_sdc_iteration finds: the two source     *)
(* buffers, the Godunov source, the registers and the rate.  The state of  *)
(* an iteration forgets every earlier one because IInv at "hydro" speaks   *)
(* of the sources of the sweep just before only.                           *)
(***************************************************************************)
EXTENDS SdcAdvance, TLAPS

\* The coefficient of one sweep's evaluation of kind k in each combination.
LEMMA Coefficients ==
  ASSUME NEW k \in Kinds, NEW sweep \in Sweeps
  PROVE  /\ Zero[<<k, sweep>>] = 0
         /\ \A j, m, w : Only(j, m, w)[<<k, sweep>>] = IF k = j /\ sweep = m THEN w ELSE 0
         /\ \A on \in BOOLEAN : \A j, m, w :
              OnlyIf(on, j, m, w)[<<k, sweep>>] =
                IF on /\ k = j /\ sweep = m THEN w ELSE 0
         /\ \A f, g : Plus(f, g)[<<k, sweep>>] = f[<<k, sweep>>] + g[<<k, sweep>>]
         /\ \A f, g : Minus(f, g)[<<k, sweep>>] = f[<<k, sweep>>] - g[<<k, sweep>>]
         /\ \A f : Half(f)[<<k, sweep>>] = f[<<k, sweep>>] \div 2
<1>1. <<k, sweep>> \in Term
  BY DEF Term
<1>2. Zero[<<k, sweep>>] = 0
  BY <1>1 DEF Zero
<1>3. ASSUME NEW j, NEW m, NEW w
      PROVE  Only(j, m, w)[<<k, sweep>>] = IF k = j /\ sweep = m THEN w ELSE 0
  BY <1>1 DEF Only
<1>4. ASSUME NEW on \in BOOLEAN, NEW j, NEW m, NEW w
      PROVE  OnlyIf(on, j, m, w)[<<k, sweep>>] =
               IF on /\ k = j /\ sweep = m THEN w ELSE 0
  BY <1>2, <1>3 DEF OnlyIf
<1>5. \A f, g : Plus(f, g)[<<k, sweep>>] = f[<<k, sweep>>] + g[<<k, sweep>>]
  BY <1>1 DEF Plus
<1>6. \A f, g : Minus(f, g)[<<k, sweep>>] = f[<<k, sweep>>] - g[<<k, sweep>>]
  BY <1>1 DEF Minus
<1>7. \A f : Half(f)[<<k, sweep>>] = f[<<k, sweep>>] \div 2
  BY <1>1 DEF Half
<1> QED
  BY <1>2, <1>3, <1>4, <1>5, <1>6, <1>7

\* The parameter that turns a kind of evaluation on.
on(k) == \/ k = "flux" /\ par.flux
         \/ k = "les" /\ par.les
         \/ k = "ext" /\ par.ext
         \/ k = "hydro" /\ par.do_hydro

CountInv ==
  /\ par \in Configs
  /\ pc \in {"swap", "old", "hydro", "new", "react", "finish"}
  /\ sub_iteration \in 0 .. par.sdc_iters - 1
  /\ step \in 0 .. MaxSteps /\ (pc # "swap" => step < MaxSteps)
  /\ pc = "finish" => lastIteration

\* The step that computed the rates in use.
RateInv ==
  /\ Reactions \in [new : NoRate .. MaxSteps, old : NoRate .. MaxSteps]
  /\ par.do_react =>
       /\ pc = "swap" => Reactions.new = step
       /\ pc # "swap" => inherited = step /\ Reactions.old = step
       /\ pc = "finish" => Reactions.new = step + 1

\* The buffers from which each block takes the sources.
SourceInv ==
  /\ ~ par.do_hydro => hydro_source = Zero
  /\ pc \in {"hydro", "new", "react"} \/ (pc = "old" /\ sub_iteration # 0)
       => old_sources = sourcesAt(0)
  /\ pc \in {"hydro", "new"} \/ (pc = "old" /\ sub_iteration # 0)
       => new_sources = sourcesAt(sub_iteration)
  /\ pc = "react" => new_sources = sourcesAt(n)
  /\ pc \in {"new", "react"} =>
       hydro_source = OnlyIf(par.do_hydro, "hydro", n, 2)

\* The coefficient of kind k at sweep m in an accepted state.
accepted(k, m) ==
  IF k = "hydro" THEN (IF on(k) /\ m = n THEN 2 ELSE 0)
  ELSE IF on(k) /\ m \in {0, n} THEN 1 ELSE 0

StateInv ==
  pc = "finish" =>
    \A k \in Kinds \ {"react"}, m \in Sweeps : S[<<k, m>>] = accepted(k, m)

\* The registers hold the old fluxes, and those of the running iteration as
\* far as it is the last one and got to the Godunov and the new-time fluxes.
held(k, m, godunov, new) ==
  IF k = "hydro" THEN (IF on(k) /\ godunov /\ m = n THEN 2 ELSE 0)
  ELSE IF on(k) /\ (m = 0 \/ (new /\ m = n)) THEN 1 ELSE 0

RegistersHold(godunov, new) ==
  \A k \in FluxKinds, m \in Sweeps : reg[<<k, m>>] = held(k, m, godunov, new)

RegInv ==
  /\ pc = "old" /\ sub_iteration = 0 =>
       \A k \in FluxKinds, m \in Sweeps : reg[<<k, m>>] = 0
  /\ pc = "hydro" \/ (pc = "old" /\ sub_iteration # 0)
       => RegistersHold(FALSE, FALSE)
  /\ pc = "new" => RegistersHold(lastIteration, FALSE)
  /\ pc = "react" => RegistersHold(lastIteration, lastIteration)
  /\ pc = "finish" => RegistersHold(TRUE, TRUE)

IInv == CountInv /\ RateInv /\ SourceInv /\ StateInv /\ RegInv

-----------------------------------------------------------------------------
LEMMA ConfigType ==
  ASSUME par \in Configs
  PROVE  /\ par.sdc_iters \in 1 .. MaxSweeps
         /\ par.do_react \in BOOLEAN /\ par.do_hydro \in BOOLEAN
         /\ par.flux \in BOOLEAN /\ par.les \in BOOLEAN /\ par.ext \in BOOLEAN
BY ConfigAssumption

LEMMA Constants ==
  /\ MaxSweeps \in Nat /\ MaxSweeps > 0 /\ MaxSteps \in Nat /\ MaxSteps > 0
  /\ 0 \in Sweeps
  /\ Kinds = {"flux", "hydro", "les", "ext", "react"}
  /\ FluxKinds = {"flux", "hydro", "les"}
BY SweepsAssumption, ConfigAssumption DEF Sweeps, Kinds, FluxKinds

\* The sweep of the running iteration is one of the new-time sweeps.
LEMMA RunningSweep ==
  ASSUME CountInv
  PROVE  n \in Sweeps /\ n \in Int /\ n # 0 /\ (lastIteration <=> n = par.sdc_iters)
BY ConfigType, Constants DEF CountInv, n, Sweeps, lastIteration

\* The coefficient of an evaluation that a parameter turns on.
LEMMA CoefficientIf ==
  ASSUME NEW b \in BOOLEAN, NEW j, NEW w, NEW l, NEW k \in Kinds, NEW m \in Sweeps
  PROVE  OnlyIf(b, j, l, w)[<<k, m>>] = IF b /\ k = j /\ m = l THEN w ELSE 0
<1>1. <<k, m>> \in Term
  BY DEF Term
<1> QED
  BY <1>1 DEF OnlyIf, Only, Zero

\* The coefficients of the sources of one sweep.
LEMMA SourceCoefficients ==
  ASSUME par \in Configs, NEW k \in Kinds, NEW m \in Sweeps, NEW l
  PROVE  /\ k \in {"flux", "les", "ext"} =>
              sourcesAt(l)[<<k, m>>] = IF on(k) /\ m = l THEN 2 ELSE 0
         /\ k \in {"hydro", "react"} => sourcesAt(l)[<<k, m>>] = 0
<1> \A f, g : Plus(f, g)[<<k, m>>] = f[<<k, m>>] + g[<<k, m>>]
  BY Coefficients
<1>1. sourcesAt(l)[<<k, m>>] = OnlyIf(par.flux, "flux", l, 2)[<<k, m>>]
        + (OnlyIf(par.les, "les", l, 2)[<<k, m>>]
           + OnlyIf(par.ext, "ext", l, 2)[<<k, m>>])
  BY DEF sourcesAt
<1>2. /\ OnlyIf(par.flux, "flux", l, 2)[<<k, m>>] =
           IF par.flux /\ k = "flux" /\ m = l THEN 2 ELSE 0
      /\ OnlyIf(par.les, "les", l, 2)[<<k, m>>] =
           IF par.les /\ k = "les" /\ m = l THEN 2 ELSE 0
      /\ OnlyIf(par.ext, "ext", l, 2)[<<k, m>>] =
           IF par.ext /\ k = "ext" /\ m = l THEN 2 ELSE 0
  BY CoefficientIf, ConfigType
<1> QED
  BY <1>1, <1>2 DEF on

\* The coefficients of what one sweep's fluxes give to the registers.
LEMMA SourceRefluxCoefficients ==
  ASSUME par \in Configs, NEW k \in FluxKinds, NEW m \in Sweeps,
         NEW l, NEW w \in Int
  PROVE  sourceReflux(l, w)[<<k, m>>] =
           IF k # "hydro" /\ on(k) /\ m = l THEN w ELSE 0
<1>0. k \in Kinds
  BY Constants
<1>1. sourceReflux(l, w)[<<k, m>>] = OnlyIf(par.flux, "flux", l, w)[<<k, m>>]
                                     + OnlyIf(par.les, "les", l, w)[<<k, m>>]
  BY <1>0, Coefficients DEF sourceReflux
<1>2. /\ OnlyIf(par.flux, "flux", l, w)[<<k, m>>] =
           IF par.flux /\ k = "flux" /\ m = l THEN w ELSE 0
      /\ OnlyIf(par.les, "les", l, w)[<<k, m>>] =
           IF par.les /\ k = "les" /\ m = l THEN w ELSE 0
  BY <1>0, CoefficientIf, ConfigType
<1> QED
  BY <1>1, <1>2, Constants DEF on

-----------------------------------------------------------------------------
LEMMA InitIInv == Init => IInv
<1> SUFFICES ASSUME Init PROVE IInv
  OBVIOUS
<1>1. CountInv
  BY ConfigType, Constants DEF Init, CountInv
<1> QED
  BY <1>1, Constants
  DEF Init, IInv, RateInv, SourceInv, StateInv, RegInv, NoRate

\* One lemma per action: it preserves IInv.
LEMMA SwapIInv == ASSUME IInv, initialize_sdc_advance PROVE IInv'
<1> USE DEF IInv, initialize_sdc_advance
<1>1. CountInv'
  BY ConfigType, Constants DEF CountInv
<1>2. RateInv'
  BY DEF RateInv, copiedReactions
<1>3. SourceInv'
  BY DEF SourceInv
<1>4. StateInv'
  BY DEF StateInv
<1>5. RegInv'
  <2>1. ASSUME NEW k \in FluxKinds, NEW m \in Sweeps PROVE reg'[<<k, m>>] = 0
    BY Coefficients, Constants
  <2> QED
    BY <2>1 DEF RegInv
<1> QED
  BY <1>1, <1>2, <1>3, <1>4, <1>5

LEMMA OldSourcesIInv == ASSUME IInv, OldSources PROVE IInv'
<1> USE DEF IInv, OldSources
<1>1. CountInv'
  BY DEF CountInv
<1>2. RateInv'
  BY DEF RateInv
<1>3. SourceInv'
  <2>1. sourcesAt(0)' = sourcesAt(0) /\ sourcesAt(sub_iteration)' = sourcesAt(sub_iteration)
    BY DEF sourcesAt
  <2> QED
    BY <2>1 DEF SourceInv
<1>4. StateInv'
  BY DEF StateInv
<1>5. RegInv'
  <2> SUFFICES ASSUME NEW k \in FluxKinds, NEW m \in Sweeps
               PROVE  reg'[<<k, m>>] = held(k, m, FALSE, FALSE)
    BY DEF RegInv, RegistersHold, held, on, n
  <2>1. CASE sub_iteration # 0
    BY <2>1 DEF RegInv, RegistersHold
  <2>2. CASE sub_iteration = 0
    <3>1. reg'[<<k, m>>] = reg[<<k, m>>] + sourceReflux(0, 1)[<<k, m>>]
      BY <2>2, Coefficients, Constants
    <3>2. reg[<<k, m>>] = 0
      BY <2>2 DEF RegInv
    <3> QED
      BY <3>1, <3>2, SourceRefluxCoefficients DEF CountInv, held
  <2> QED
    BY <2>1, <2>2
<1> QED
  BY <1>1, <1>2, <1>3, <1>4, <1>5

LEMMA HydroIInv == ASSUME IInv, construct_hydro_source PROVE IInv'
<1> USE DEF IInv, construct_hydro_source
<1>1. CountInv'
  BY DEF CountInv
<1>2. RateInv'
  BY DEF RateInv
<1>3. SourceInv'
  BY DEF SourceInv, sourcesAt, n, OnlyIf
<1>4. StateInv'
  BY DEF StateInv
<1>5. RegInv'
  <2> SUFFICES ASSUME NEW k \in FluxKinds, NEW m \in Sweeps
               PROVE  reg'[<<k, m>>] = held(k, m, lastIteration, FALSE)
    BY DEF RegInv, RegistersHold, held, on, n, lastIteration
  <2>1. k \in Kinds /\ par \in Configs /\ lastIteration \in BOOLEAN
    BY Constants DEF CountInv, lastIteration
  <2>2. reg[<<k, m>>] = held(k, m, FALSE, FALSE)
    BY DEF RegInv, RegistersHold
  <2>3. OnlyIf(par.do_hydro /\ lastIteration, "hydro", n, 2)[<<k, m>>] =
          IF (par.do_hydro /\ lastIteration) /\ k = "hydro" /\ m = n THEN 2 ELSE 0
    BY <2>1, CoefficientIf, ConfigType
  <2>4. reg'[<<k, m>>] = reg[<<k, m>>]
          + OnlyIf(par.do_hydro /\ lastIteration, "hydro", n, 2)[<<k, m>>]
    BY <2>1, Coefficients
  <2> QED
    BY <2>1, <2>2, <2>3, <2>4, Constants DEF held, on
<1> QED
  BY <1>1, <1>2, <1>3, <1>4, <1>5

LEMMA NewSourcesIInv == ASSUME IInv, NewSources PROVE IInv'
<1> USE DEF IInv, NewSources
<1>1. CountInv'
  BY DEF CountInv
<1>2. RateInv'
  BY DEF RateInv
<1>3. SourceInv'
  BY DEF SourceInv, sourcesAt, n
<1>4. StateInv'
  BY DEF StateInv
<1>5. RegInv'
  <2> SUFFICES ASSUME NEW k \in FluxKinds, NEW m \in Sweeps
               PROVE  reg'[<<k, m>>] = held(k, m, lastIteration, lastIteration)
    BY DEF RegInv, RegistersHold, held, on, n, lastIteration
  <2>1. k \in Kinds /\ par \in Configs /\ n # 0 /\ refluxFactorNew \in Int
    BY Constants, RunningSweep DEF CountInv, refluxFactorNew
  <2>2. reg[<<k, m>>] = held(k, m, lastIteration, FALSE)
    BY DEF RegInv, RegistersHold
  <2>3. reg'[<<k, m>>] = reg[<<k, m>>]
          + sourceReflux(n, refluxFactorNew)[<<k, m>>]
    BY <2>1, Coefficients
  <2>4. sourceReflux(n, refluxFactorNew)[<<k, m>>] =
          IF k # "hydro" /\ on(k) /\ m = n THEN refluxFactorNew ELSE 0
    BY <2>1, SourceRefluxCoefficients
  <2> QED
    BY <2>1, <2>2, <2>3, <2>4 DEF held, refluxFactorNew
<1> QED
  BY <1>1, <1>2, <1>3, <1>4, <1>5

\* The state that an iteration leaves: half of the sources at both times and
\* the Godunov source, whichever branch rebuilt it.
LEMMA ReactedState ==
  ASSUME IInv, React, NEW k \in Kinds \ {"react"}, NEW m \in Sweeps
  PROVE  S'[<<k, m>>] = accepted(k, m)
<1> /\ \A f, g : Plus(f, g)[<<k, m>>] = f[<<k, m>>] + g[<<k, m>>]
    /\ \A f : Half(f)[<<k, m>>] = f[<<k, m>>] \div 2
  BY Coefficients
<1> DEFINE a == averagedSources[<<k, m>>]
           h == hydro_source[<<k, m>>]
<1>1. /\ par \in Configs /\ n # 0 /\ n \in Int /\ k \in Kinds
      /\ k \in {"flux", "les", "ext", "hydro"}
  BY RunningSweep, Constants DEF IInv, CountInv
<1>2. a = (sourcesAt(n)[<<k, m>>] \div 2) + (sourcesAt(0)[<<k, m>>] \div 2)
  BY DEF averagedSources, IInv, SourceInv, React
<1>3. h = IF par.do_hydro /\ k = "hydro" /\ m = n THEN 2 ELSE 0
  BY <1>1, CoefficientIf, ConfigType DEF IInv, SourceInv, React
<1>4. S'[<<k, m>>] = a + h
  <2>1. CASE par.do_react
    <3>1. Only("react", n, 2)[<<k, m>>] = 0
      BY Coefficients
    <3>2. S'[<<k, m>>] = (a + h) + Only("react", n, 2)[<<k, m>>]
      BY <2>1 DEF React, non_react_src
    <3> QED
      BY <3>1, <3>2, <1>1, <1>2, <1>3, SourceCoefficients
  <2>2. CASE ~ par.do_react
    <3>1. reaction(2)[<<k, m>>] = 0
      BY <1>1, <2>2, CoefficientIf, ConfigType DEF reaction
    <3>2. S'[<<k, m>>] = a + (h + reaction(2)[<<k, m>>])
      BY <2>2 DEF React, construct_Snew
    <3> QED
      BY <3>1, <3>2, <1>1, <1>3
  <2> QED
    BY <2>1, <2>2
<1>5. CASE k = "hydro"
  <2>1. a = 0
    BY <1>1, <1>2, <1>5, SourceCoefficients
  <2> QED
    BY <2>1, <1>3, <1>4, <1>5 DEF accepted, on
<1>6. CASE k # "hydro"
  <2>1. /\ sourcesAt(n)[<<k, m>>] = IF on(k) /\ m = n THEN 2 ELSE 0
        /\ sourcesAt(0)[<<k, m>>] = IF on(k) /\ m = 0 THEN 2 ELSE 0
    BY <1>1, <1>6, SourceCoefficients
  <2> QED
    BY <2>1, <1>1, <1>2, <1>3, <1>4, <1>6 DEF accepted
<1> QED
  BY <1>5, <1>6

LEMMA ReactIInv == ASSUME IInv, React PROVE IInv'
<1> USE DEF IInv
<1>1. CountInv'
  BY ConfigType DEF React, CountInv, lastIteration
<1>2. RateInv'
  BY Constants DEF React, RateInv, CountInv, NoRate
<1>3. SourceInv'
  BY ConfigType DEF React, SourceInv, sourcesAt, n, CountInv
<1>4. StateInv'
  <2> SUFFICES ASSUME pc' = "finish", NEW k \in Kinds \ {"react"}, NEW m \in Sweeps
               PROVE  S'[<<k, m>>] = accepted(k, m)'
    BY DEF StateInv
  <2>1. par' = par /\ sub_iteration' = sub_iteration
    BY DEF React
  <2> QED
    BY <2>1, ReactedState DEF accepted, on, n
<1>5. RegInv'
  <2>1. reg' = reg /\ par' = par /\ RegistersHold(lastIteration, lastIteration)
    BY DEF React, RegInv
  <2>2. CASE lastIteration
    BY <2>1, <2>2 DEF React, RegInv, RegistersHold, held, on, n
  <2>3. CASE ~ lastIteration
    <3>1. sub_iteration' # 0 /\ pc' = "old"
      BY <2>3 DEF React, CountInv
    <3>2. RegistersHold(FALSE, FALSE)'
      BY <2>1, <2>3 DEF RegistersHold, held, on
    <3> QED
      BY <3>1, <3>2 DEF RegInv
  <2> QED
    BY <2>2, <2>3
<1> QED
  BY <1>1, <1>2, <1>3, <1>4, <1>5

\* Finish, Done and stuttering change nothing IInv says of a running step.
LEMMA OtherIInv == ASSUME IInv, Finish \/ Done \/ UNCHANGED vars PROVE IInv'
<1> USE DEF IInv
<1>1. CASE Finish
  BY <1>1, Constants
  DEF Finish, CountInv, RateInv, SourceInv, StateInv, RegInv
<1>2. CASE UNCHANGED vars
  BY <1>2
  DEF vars, CountInv, RateInv, SourceInv, StateInv, RegInv, lastIteration,
      RegistersHold, held, accepted, on, n, sourcesAt
<1> QED
  BY <1>1, <1>2 DEF Done

\* The inductive invariant holds in every reachable state.
LEMMA IInvInvariant == Spec => []IInv
<1>1. Init => IInv
  BY InitIInv
<1>2. IInv /\ [Next]_vars => IInv'
  BY SwapIInv, OldSourcesIInv, HydroIInv, NewSourcesIInv, ReactIInv, OtherIInv
  DEF Next
<1> QED
  BY <1>1, <1>2, PTL DEF Spec

-----------------------------------------------------------------------------
\* Refluxing is conservative: when do_sdc_advance returns, the registers hold
\* every flux with its coefficient in the new state, in every configuration.
THEOREM SdcRefluxMatchesUpdate == Spec => []RefluxMatchesUpdate
<1>1. ASSUME IInv PROVE RefluxMatchesUpdate
  <2> SUFFICES ASSUME pc = "finish", NEW k \in FluxKinds, NEW m \in Sweeps
               PROVE  reg[<<k, m>>] = S[<<k, m>>]
    BY DEF RefluxMatchesUpdate
  <2>1. reg[<<k, m>>] = held(k, m, TRUE, TRUE)
    BY <1>1 DEF IInv, RegInv, RegistersHold
  <2>2. S[<<k, m>>] = accepted(k, m)
    BY <1>1, Constants DEF IInv, StateInv
  <2> QED
    BY <2>1, <2>2 DEF held, accepted
<1> QED
  BY <1>1, IInvInvariant, PTL

\* The accepted state is the quadrature of its last iterate, whatever the
\* earlier iterations of do_sdc_iteration computed.
THEOREM SdcQuadratureKept == Spec => []SdcQuadrature
<1>1. ASSUME IInv PROVE SdcQuadrature
  <2> SUFFICES ASSUME pc = "finish" PROVE SdcQuadrature
    BY DEF SdcQuadrature
  <2>1. n = par.sdc_iters /\ n \in Int /\ n # 0
    BY <1>1, RunningSweep DEF IInv, CountInv
  <2>2. ASSUME NEW k \in Kinds \ {"react"}, NEW m \in Sweeps
        PROVE  S[<<k, m>>] = accepted(k, m)
    BY <1>1 DEF IInv, StateInv
  <2>3. ASSUME NEW k \in {"flux", "les", "ext"}, on(k)
        PROVE  IsTrapezoid(S, k, par.sdc_iters)
    BY <2>1, <2>2, <2>3, Constants DEF IsTrapezoid, accepted
  <2>4. par.do_hydro => IsAll(S, "hydro", par.sdc_iters)
    BY <2>1, <2>2, Constants DEF IsAll, accepted, on
  <2> QED
    BY <2>3, <2>4 DEF SdcQuadrature, on
<1> QED
  BY <1>1, IInvInvariant, PTL

\* A reacting step starts from the rate of the step just before, which
\* initialize_sdc_advance copies back after the swap.
THEOREM SdcStartsFromPreviousRate == Spec => []StartsFromPreviousRate
<1>1. IInv => StartsFromPreviousRate
  BY DEF IInv, RateInv, StartsFromPreviousRate
<1> QED
  BY <1>1, IInvInvariant, PTL
=============================================================================

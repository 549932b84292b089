----------------------------- MODULE MolAdvance -----------------------------
(***************************************************************************)
(* One AMR level's method-of-lines time step, PeleC::do_mol_advance        *)
(* (src/Source/Advance.cpp), repeated for several steps.                   *)
(*                                                                         *)
(* The model keeps the coefficient with which every evaluation enters the  *)
(* new state, and the one with which it enters the flux registers, for     *)
(* every setting of the input parameters in Configs.                       *)
(***************************************************************************)
EXTENDS Increments

CONSTANTS
  Configs,    \* the parameter settings considered
  MaxSteps    \* bound on the number of steps taken

\* mol_iters and do_react as in pelec_queries.H; flux: do_hydro or a
\* diffuse_* flag is on; les, ext: such a source is in src_list.
ASSUME ConfigAssumption ==
  /\ Configs \subseteq [mol_iters : 1 .. MaxSweeps, do_react : BOOLEAN,
                        flux : BOOLEAN, les : BOOLEAN, ext : BOOLEAN]
  /\ MaxSteps \in Nat \ {0}

VARIABLES
  par,       \* the static parameters, read once
  pc,        \* the block of do_mol_advance that runs next
  sweep,     \* the latest new-time sweep: 1 the predictor's, then mol_iter
  step,      \* steps completed on this level
  S,         \* (S_new - S_old) / dt
  molSrc,
  molSrc_old,
  reg,       \* what this step gave to update_flux_registers, per unit dt
  Reactions, \* step that computed Reactions_Type's new and old data
  inherited  \* step that computed the rate the predictor used

vars == <<par, pc, sweep, step, S, molSrc, molSrc_old, reg, Reactions, inherited>>

NoRate == -1   \* zero, or never written

(***************************************************************************)
(* getMOLSrcTerm returns zero and touches no register when neither hydro   *)
(* nor diffusion is on.  The other sources of src_list are added to it.    *)
(***************************************************************************)
getMOLSrcTerm(n) == OnlyIf(par.flux, "flux", n, 2)

otherSources(n) ==
  Plus(OnlyIf(par.les, "les", n, 2), OnlyIf(par.ext, "ext", n, 2))

\* construct_old_les_source refluxes half of the old fluxes.
lesRefluxOld == OnlyIf(par.les, "les", 0, 1)

\* construct_new_les_source refluxes half of the new fluxes in the last
\* sub-iteration of a cycle.
lesRefluxFactor(sub_iteration, sub_ncycle) ==
  IF sub_iteration = sub_ncycle - 1 THEN 1 ELSE 0

\* do_mol_advance passes sub_iteration = 0 and sub_ncycle = 0.
lesRefluxNew(n) == OnlyIf(par.les, "les", n, lesRefluxFactor(0, 0))

\* The rate held in Reactions_Type during sweep n, with coefficient w.
reaction(n, w) == OnlyIf(par.do_react, "react", n, w)

\* swapTimeLevels on every state type, except Reactions_Type when reacting;
\* without reactions its new data is then set to zero.
swappedReactions ==
  IF par.do_react THEN Reactions
  ELSE [new |-> NoRate, old |-> Reactions.new]

(***************************************************************************)
(* react_state with an auxiliary source: S_new = S_old + dt * aux_src, then*)
(* integrate, and leave in Reactions_Type the rate that makes              *)
(* S_new = S_old + dt * (aux_src + I_R).                                   *)
(***************************************************************************)
react_state(aux_src, n) ==
  /\ S' = Plus(aux_src, Only("react", n, 2))
  /\ Reactions' = [Reactions EXCEPT !.new = step + 1]

-----------------------------------------------------------------------------
Init ==
  /\ par \in Configs
  /\ pc = "old"
  /\ sweep = 0
  /\ step = 0
  /\ S = Zero /\ molSrc = Zero /\ molSrc_old = Zero /\ reg = Zero
  \* post_init's react_state, or the constructor's setVal(0)
  /\ Reactions = [new |-> IF par.do_react THEN 0 ELSE NoRate, old |-> NoRate]
  /\ inherited = NoRate

(***************************************************************************)
(* Swap, evaluate everything at t^n and predict U^*; advance() has reset   *)
(* the register.                                                           *)
(***************************************************************************)
Predict ==
  /\ pc = "old"
  /\ step < MaxSteps
  /\ Reactions' = swappedReactions
  /\ inherited' = Reactions'.new
  /\ molSrc' = Plus(getMOLSrcTerm(0), otherSources(0))
  /\ molSrc_old' = IF par.mol_iters > 1 THEN molSrc' ELSE molSrc_old
  /\ S' = Plus(molSrc', reaction(0, 2))
  /\ reg' = Plus(OnlyIf(par.flux, "flux", 0, 1), lesRefluxOld)
  /\ sweep' = 1
  /\ pc' = "new"
  /\ UNCHANGED <<par, step>>

\* Mutant: the predicted fluxes reach the registers although corrections follow.
predictorAlways == 1

predictorFactor == IF par.mol_iters > 1 THEN 0 ELSE 1

(***************************************************************************)
(* Evaluate everything on U^* and average: S_new = 0.5 (U^* + S_old) +     *)
(* 0.5 dt molSrc.                                                          *)
(***************************************************************************)
Average ==
  /\ pc = "new"
  /\ molSrc' = Plus(getMOLSrcTerm(1), otherSources(1))
  /\ S' = Plus(Half(S), Half(molSrc'))
  /\ reg' = Plus(reg, Plus(OnlyIf(par.flux, "flux", 1, predictorFactor),
                           lesRefluxNew(1)))
  /\ pc' = IF par.do_react THEN "react" ELSE "finish"
  /\ UNCHANGED <<par, sweep, step, molSrc_old, Reactions, inherited>>

\* Mutant: the rate is not taken out of the forcing.
forcingWithRate == Plus(S, reaction(0, 1))

\* F_AD = (U^** - U^n) / dt - I_R, where U^** holds the other half of I_R.
forcing == Minus(Plus(S, reaction(0, 1)), reaction(0, 2))

(***************************************************************************)
(* Complete U^** with the other half of I_R, take F_AD out of it, react.   *)
(***************************************************************************)
React ==
  /\ pc = "react"
  /\ molSrc' = forcing
  /\ react_state(molSrc', 1)
  /\ pc' = IF par.mol_iters > 1 THEN "correct" ELSE "finish"
  /\ UNCHANGED <<par, sweep, step, molSrc_old, reg, inherited>>

\* Mutant: only the latest right-hand side.
latestForcing(n) == getMOLSrcTerm(n)

\* F_AD = 0.5 (molSrc_old + molSrc_new)
correctedForcing(n) == Plus(Half(molSrc_old), Half(getMOLSrcTerm(n)))

endsLoop(mol_iter) == mol_iter = par.mol_iters

correctorFactor(mol_iter) == IF mol_iter = par.mol_iters THEN 1 ELSE 0

(***************************************************************************)
(* One pass of the mol_iter loop.                                          *)
(***************************************************************************)
Correct ==
  /\ pc = "correct"
  /\ sweep' = sweep + 1
  /\ molSrc' = correctedForcing(sweep')
  /\ react_state(molSrc', sweep')
  /\ reg' = Plus(reg, OnlyIf(par.flux, "flux", sweep', correctorFactor(sweep')))
  /\ pc' = IF endsLoop(sweep') THEN "finish" ELSE "correct"
  /\ UNCHANGED <<par, step, molSrc_old, inherited>>

\* The step returns; the next one starts from its new state.
Finish ==
  /\ pc = "finish"
  /\ step' = step + 1
  /\ pc' = "old"
  /\ UNCHANGED <<par, sweep, S, molSrc, molSrc_old, reg, Reactions, inherited>>

Done == pc = "old" /\ step = MaxSteps /\ UNCHANGED vars

Next == Predict \/ Average \/ React \/ Correct \/ Finish \/ Done

Spec == Init /\ [][Next]_vars

-----------------------------------------------------------------------------
\* The fields keep their types: sweeps stay within mol_iters, increments are
\* whole halves.
TypeOK ==
  /\ par \in Configs
  /\ pc \in {"old", "new", "react", "correct", "finish"}
  /\ sweep \in Sweeps
  /\ step \in 0 .. MaxSteps
  /\ {S, molSrc, molSrc_old, reg} \subseteq Increment
  /\ Reactions \in [new : NoRate .. MaxSteps, old : NoRate .. MaxSteps]
  /\ inherited \in NoRate .. MaxSteps

(***************************************************************************)
(* What makes refluxing conservative: when the step returns, every flux is *)
(* in the registers with the coefficient it has in the new state, so the   *)
(* correction at a coarse-fine face takes out what the coarse update put   *)
(* in.  (reflux_factor in do_mol_advance and in the LES sources.)          *)
(***************************************************************************)
RefluxMatchesUpdate ==
  pc = "finish" =>
    \A k \in FluxKinds, n \in Sweeps : reg[<<k, n>>] = S[<<k, n>>]

(***************************************************************************)
(* The accepted step is the trapezoidal rule in the advection-diffusion    *)
(* flux: half at the old state, half at the last iterate, nothing left of  *)
(* the iterates in between, however many there were.                       *)
(***************************************************************************)
FluxIsTrapezoidal ==
  pc = "finish" /\ par.flux => IsTrapezoid(S, "flux", sweep)

(***************************************************************************)
(* The accepted state contains the stored reaction rate of this step once, *)
(* and nothing of the inherited rate or of an earlier sweep's: the two     *)
(* halves of I_R the predictor added have cancelled.                       *)
(***************************************************************************)
ReactionCountedOnce ==
  pc = "finish" =>
    IF par.do_react
    THEN IsAll(S, "react", sweep) /\ Reactions.new = step + 1
    ELSE IsFreeOf(S, "react")

(***************************************************************************)
(* The predictor of a reacting step uses the rate of the step just before, *)
(* post_init's in the first step: Reactions_Type must not be swapped away  *)
(* before it is read.                                                      *)
(***************************************************************************)
PredictorUsesPreviousRate ==
  pc # "old" /\ par.do_react => inherited = step
=============================================================================

----------------------------- MODULE SdcAdvance -----------------------------
(***************************************************************************)
(* One AMR level's spectral-deferred-correction step: do_sdc_advance and   *)
(* its do_sdc_iteration (src/Source/Advance.cpp), with the Godunov source, *)
(* the diffusion and LES sources and react_state, repeated for several     *)
(* steps.  Like MolAdvance it keeps the coefficient of every evaluation.   *)
(***************************************************************************)
EXTENDS Increments

CONSTANTS
  Configs,    \* the parameter settings considered
  MaxSteps    \* bound on the number of steps taken

\* sdc_iters, do_react and do_hydro as in pelec_queries.H; flux: do_diffuse;
\* les, ext: such a source is in src_list.
ASSUME ConfigAssumption ==
  /\ Configs \subseteq [sdc_iters : 1 .. MaxSweeps, do_react : BOOLEAN,
                        do_hydro : BOOLEAN, flux : BOOLEAN, les : BOOLEAN,
                        ext : BOOLEAN]
  /\ MaxSteps \in Nat \ {0}

VARIABLES
  par,            \* the static parameters, read once
  pc,             \* the block of do_sdc_iteration that runs next
  sub_iteration,  \* the SDC iteration
  step,           \* steps completed on this level
  S,              \* (S_new - S_old) / dt
  old_sources,    \* the sum of old_sources[src], and of new_sources[src],
  new_sources,    \* over src_list
  hydro_source,
  reg,            \* what this step gave to update_flux_registers, per unit dt
  Reactions,      \* step that computed Reactions_Type's new and old data
  rate,           \* sweep that computed its new data, 0 when inherited
  inherited       \* step that computed the rate this step started from

vars == <<par, pc, sub_iteration, step, S, old_sources, new_sources,
          hydro_source, reg, Reactions, rate, inherited>>

NoRate == -1

\* The new-time sweep of the running iteration (0 is the old time).
n == sub_iteration + 1

lastIteration == sub_iteration = par.sdc_iters - 1

\* set_active_sources: diff_src, les_src and the others of src_list.
sourcesAt(m) ==
  Plus(OnlyIf(par.flux, "flux", m, 2),
       Plus(OnlyIf(par.les, "les", m, 2), OnlyIf(par.ext, "ext", m, 2)))

reaction(w) == OnlyIf(par.do_react, "react", rate, w)

\* Mutant: backward in time.
latestSources == new_sources

\* 0.5 (new + old) of every source, as construct_Snew and react_state sum them.
averagedSources == Plus(Half(new_sources), Half(old_sources))

\* Diffusion and LES fluxes go to the registers with factor 0.5, the old ones
\* once and the new ones in the last iteration only.
sourceReflux(m, factor) ==
  Plus(OnlyIf(par.flux, "flux", m, factor), OnlyIf(par.les, "les", m, factor))

\* Mutant: every iteration's fluxes reach the registers.
refluxAlways == 1

refluxFactorNew == IF lastIteration THEN 1 ELSE 0

construct_Snew ==
  Plus(averagedSources, Plus(hydro_source, reaction(2)))

\* The non-reacting source that react_state integrates with.
non_react_src == Plus(averagedSources, hydro_source)

\* Mutant: the swap without the copy.
swappedOnly == [new |-> Reactions.old, old |-> Reactions.new]

\* swapTimeLevels, then the previous rate copied into the new data.
copiedReactions ==
  [new |-> IF par.do_react THEN Reactions.new ELSE Reactions.old,
   old |-> Reactions.new]

-----------------------------------------------------------------------------
Init ==
  /\ par \in Configs
  /\ pc = "swap"
  /\ sub_iteration = 0
  /\ step = 0
  /\ S = Zero /\ old_sources = Zero /\ new_sources = Zero
  /\ hydro_source = Zero /\ reg = Zero
  /\ Reactions = [new |-> IF par.do_react THEN 0 ELSE NoRate, old |-> NoRate]
  /\ rate = 0
  /\ inherited = NoRate

(***************************************************************************)
(* initialize_sdc_advance: swap the time levels of every state type, then  *)
(* copy the previous rate into the new data.  advance() resets the         *)
(* register before.                                                        *)
(***************************************************************************)
initialize_sdc_advance ==
  /\ pc = "swap"
  /\ step < MaxSteps
  /\ Reactions' = copiedReactions
  /\ inherited' = Reactions'.new
  /\ rate' = 0
  /\ reg' = Zero
  /\ sub_iteration' = 0
  /\ pc' = "old"
  /\ UNCHANGED <<par, step, S, old_sources, new_sources, hydro_source>>

\* The first iteration builds the sources at t_old and starts the new ones
\* from them.
OldSources ==
  /\ pc = "old"
  /\ IF sub_iteration = 0
     THEN /\ old_sources' = sourcesAt(0)
          /\ new_sources' = old_sources'
          /\ reg' = Plus(reg, sourceReflux(0, 1))
     ELSE UNCHANGED <<old_sources, new_sources, reg>>
  /\ pc' = "hydro"
  /\ UNCHANGED <<par, sub_iteration, step, S, hydro_source, Reactions, rate,
                 inherited>>

(***************************************************************************)
(* construct_hydro_source, whose fluxes reach the registers in the last    *)
(* iteration only, and the provisional S_new that the new-time sources are *)
(* evaluated on.                                                           *)
(***************************************************************************)
construct_hydro_source ==
  /\ pc = "hydro"
  /\ hydro_source' = IF par.do_hydro THEN Only("hydro", n, 2) ELSE hydro_source
  /\ reg' = Plus(reg, OnlyIf(par.do_hydro /\ lastIteration, "hydro", n, 2))
  /\ S' = Plus(averagedSources, Plus(hydro_source', reaction(2)))
  /\ pc' = "new"
  /\ UNCHANGED <<par, sub_iteration, step, old_sources, new_sources, Reactions,
                 rate, inherited>>

\* Diffusion and the other sources at t_new, on the provisional S_new.
NewSources ==
  /\ pc = "new"
  /\ new_sources' = sourcesAt(n)
  /\ reg' = Plus(reg, sourceReflux(n, refluxFactorNew))
  /\ pc' = "react"
  /\ UNCHANGED <<par, sub_iteration, step, S, old_sources, hydro_source,
                 Reactions, rate, inherited>>

(***************************************************************************)
(* End of the iteration: react_state rebuilds S_new from the sources and   *)
(* leaves a new rate; without reactions S_new is rebuilt and the rate set  *)
(* to zero.  The loop of do_sdc_advance goes on or returns.                *)
(***************************************************************************)
React ==
  /\ pc = "react"
  /\ IF par.do_react
     THEN /\ S' = Plus(non_react_src, Only("react", n, 2))
          /\ rate' = n
          /\ Reactions' = [Reactions EXCEPT !.new = step + 1]
     ELSE /\ S' = construct_Snew
          /\ rate' = rate
          /\ Reactions' = [Reactions EXCEPT !.new = NoRate]
  /\ IF lastIteration
     THEN pc' = "finish" /\ UNCHANGED sub_iteration
     ELSE pc' = "old" /\ sub_iteration' = sub_iteration + 1
  /\ UNCHANGED <<par, step, old_sources, new_sources, hydro_source, reg,
                 inherited>>

Finish ==
  /\ pc = "finish"
  /\ step' = step + 1
  /\ pc' = "swap"
  /\ UNCHANGED <<par, sub_iteration, S, old_sources, new_sources, hydro_source,
                 reg, Reactions, rate, inherited>>

Done == pc = "swap" /\ step = MaxSteps /\ UNCHANGED vars

Next == \/ initialize_sdc_advance \/ OldSources \/ construct_hydro_source
        \/ NewSources \/ React \/ Finish \/ Done

Spec == Init /\ [][Next]_vars

-----------------------------------------------------------------------------
(***************************************************************************)
(* When the step returns, every flux - Godunov, diffusive, subgrid - is in *)
(* the registers with the coefficient it has in the new state, however     *)
(* many iterations ran.                                                    *)
(***************************************************************************)
RefluxMatchesUpdate ==
  pc = "finish" =>
    \A k \in FluxKinds, m \in Sweeps : reg[<<k, m>>] = S[<<k, m>>]

(***************************************************************************)
(* The accepted state is the SDC quadrature of its last iterate: each      *)
(* source half at the old time and half at the last sweep, the Godunov     *)
(* source of the last sweep once, nothing left of earlier sweeps.          *)
(***************************************************************************)
SdcQuadrature ==
  pc = "finish" =>
    /\ par.flux => IsTrapezoid(S, "flux", par.sdc_iters)
    /\ par.les => IsTrapezoid(S, "les", par.sdc_iters)
    /\ par.ext => IsTrapezoid(S, "ext", par.sdc_iters)
    /\ par.do_hydro => IsAll(S, "hydro", par.sdc_iters)

(***************************************************************************)
(* Before its first reaction update, a reacting step works with the rate   *)
(* of the step just before, which the swap would otherwise have put out of *)
(* reach; and the old data still hold it when the step returns.            *)
(***************************************************************************)
StartsFromPreviousRate ==
  pc # "swap" /\ par.do_react => inherited = step /\ Reactions.old = step
=============================================================================

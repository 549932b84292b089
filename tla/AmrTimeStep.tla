----------------------------- MODULE AmrTimeStep -----------------------------
(***************************************************************************)
(* The subcycled time step of the level hierarchy: PeleC::advance and      *)
(* post_timestep of every level, with the flux registers, refluxing,       *)
(* average-down, the FillPatcher caches and the regridding callbacks       *)
(* init(old) and init().  The recursion itself is amrex::Amr::timeStep.    *)
(*                                                                         *)
(* One conserved quantity is followed.  Level l holds it outside (U[l])    *)
(* and underneath (C[l]) level l+1, and exchanges it with level l+1 over   *)
(* one coarse-fine face with fluxes that differ between the two levels.    *)
(* A level's own update and its registers agree on its fluxes              *)
(* (RefluxMatchesUpdate of MolAdvance and SdcAdvance).                     *)
(***************************************************************************)
EXTENDS Integers

CONSTANTS
  MaxLevel,     \* amr.max_level
  NCycles,      \* the subcycling patterns considered: n_cycle of levels 1, 2..
  MaxSteps,     \* bound on the coarse steps
  MaxRegrids,   \* bound on the regrids
  Fluxes        \* the fluxes over a face, and the contents a regrid covers

ASSUME AmrAssumption ==
  /\ MaxLevel \in Nat /\ MaxSteps \in Nat /\ MaxRegrids \in Nat
  /\ NCycles \subseteq [1 .. MaxLevel -> Nat \ {0}]
  /\ Fluxes \subseteq Int

VARIABLES
  do_reflux, n_cycle,  \* parameters
  finest_level,
  active, phase,       \* the level whose timeStep runs, and what it does next
  iteration,           \* amr_iteration of every level
  step, regrids,       \* coarse steps and regrids done
  U, C,
  flux_reg,            \* flux_reg[l]: coarse minus fine exchange of l-1 and l
  data,                \* the version of the State_Type data a level holds
  fillPatcher          \* fillPatcher[l]: level l-1 data cached to fill level l

parameters == <<do_reflux, n_cycle>>
control    == <<active, phase, iteration, step>>
content    == <<U, C, flux_reg>>
vars == <<parameters, finest_level, control, regrids, content, data,
          fillPatcher>>

Levels == 0 .. MaxLevel
Never  == -1

\* Steps of the finest level in one of level l.
cyclesBelow[l \in Levels] ==
  IF l = MaxLevel THEN 1 ELSE n_cycle[l + 1] * cyclesBelow[l + 1]

\* The step of level l, in units of the smallest one: computeNewDt gives every
\* level dt_0 / n_factor.
dtLevel(l) == cyclesBelow[l]

\* A version of a level's data: its time, and how often it was changed after
\* advance (by post_timestep, then by the coarser level's Reflux).
Version(t, n) == [time |-> t, syncs |-> n]
NoData == Version(Never, 0)
curTime(l) == data[l].new.time

-----------------------------------------------------------------------------
\* initialInit and post_init average the levels down.
Init ==
  /\ do_reflux \in BOOLEAN
  /\ n_cycle \in NCycles
  /\ finest_level \in Levels
  /\ active = 0 /\ phase = "start" /\ step = 0 /\ regrids = 0
  /\ iteration = [l \in Levels |-> 1]
  /\ U = [l \in Levels |-> 0] /\ C = [l \in Levels |-> 0]
  /\ flux_reg = [l \in Levels |-> 0]
  /\ data = [l \in Levels |-> [new |-> Version(0, 0), old |-> NoData]]
  /\ fillPatcher = [l \in Levels |-> {}]

-----------------------------------------------------------------------------
(***************************************************************************)
(* Amr::regrid(lbase): every level above lbase is replaced, filled from    *)
(* the old one and from the coarser level by a conservative interpolation, *)
(* which keeps the content of level lbase.  covers[l] is the content that  *)
(* ends up under level l+1.                                                *)
(***************************************************************************)
RegridFrom(lbase, new_finest, covers) ==
  LET rebuilt(l) == lbase < l /\ l <= new_finest
      whole(l)   == IF l = lbase THEN U[l] + C[l] ELSE covers[l - 1]
      covered(l) == IF l = new_finest THEN 0 ELSE covers[l]
      touched(l) == l = lbase \/ rebuilt(l)
  IN  /\ U' = [l \in Levels |-> IF touched(l) THEN whole(l) - covered(l)
                                ELSE IF l > new_finest THEN 0 ELSE U[l]]
      /\ C' = [l \in Levels |-> IF touched(l) THEN covered(l)
                                ELSE IF l > new_finest THEN 0 ELSE C[l]]
      /\ data' = [l \in Levels |->
                    IF rebuilt(l)
                    THEN [new |-> Version(curTime(lbase), 0), old |-> NoData]
                    ELSE data[l]]
      /\ flux_reg' = [l \in Levels |-> IF l > lbase THEN 0 ELSE flux_reg[l]]
      /\ fillPatcher' = [l \in Levels |-> IF l > lbase THEN {} ELSE fillPatcher[l]]

Regrid ==
  /\ phase = "start"
  /\ step < MaxSteps
  /\ regrids < MaxRegrids
  /\ \E lbase \in active .. finest_level, new_finest \in Levels :
       /\ lbase < MaxLevel
       /\ lbase <= new_finest /\ new_finest <= finest_level + 1
       /\ \E covers \in [lbase .. MaxLevel - 1 -> Fluxes] :
            RegridFrom(lbase, new_finest, covers)
       /\ finest_level' = new_finest
  /\ regrids' = regrids + 1
  /\ phase' = "advance"
  /\ UNCHANGED <<parameters, active, iteration, step>>

-----------------------------------------------------------------------------
\* FillPatcherFill looks a coarse time up in the cache and copies the coarse
\* level's data of a time it does not find.
cached(l, t) == \E v \in fillPatcher[l] : v.time = t
coarseData(l) == {data[l - 1].old, data[l - 1].new}

\* The times of the coarse data it needs at t: its old or new time, or both.
coarseTimes(l, t) ==
  LET exact == {v \in coarseData(l) : v.time = t}
  IN  IF exact # {} THEN {v.time : v \in exact} ELSE {v.time : v \in coarseData(l)}

filled(l, t) ==
  {v \in coarseData(l) : v.time \in coarseTimes(l, t) /\ ~ cached(l, v.time)}

\* Mutant: the register is not reset before a coarse step.
keptRegisters(l) == flux_reg

resetRegisters(l) ==
  IF do_reflux /\ l < finest_level THEN [flux_reg EXCEPT ![l + 1] = 0]
  ELSE flux_reg

\* update_flux_registers: CrseAdd to level l+1's register and FineAdd to its own.
update_flux_registers(reg, l, crse, fine) ==
  IF ~ do_reflux THEN reg
  ELSE [k \in Levels |->
          IF k = l + 1 /\ l < finest_level THEN reg[k] + crse
          ELSE IF k = l /\ l > 0 THEN reg[k] - fine ELSE reg[k]]

(***************************************************************************)
(* PeleC::advance: reset the finer level's register, swap the time levels, *)
(* fill the ghost cells at both times, update by the fluxes over the two   *)
(* coarse-fine faces and add them to the registers.                        *)
(***************************************************************************)
advance(l) ==
  LET t  == curTime(l)
      dt == dtLevel(l)
  IN  /\ \E fine \in (IF l > 0 THEN Fluxes ELSE {0}),
            crse \in (IF l < finest_level THEN Fluxes ELSE {0}) :
           /\ U' = [U EXCEPT ![l] = @ + dt * fine - dt * crse]
           /\ C' = [C EXCEPT ![l] = @ + dt * crse]
           /\ flux_reg' = update_flux_registers(resetRegisters(l), l,
                                                dt * crse, dt * fine)
      /\ data' = [data EXCEPT ![l] = [new |-> Version(t + dt, 0), old |-> @.new]]
      /\ IF l = 0 THEN UNCHANGED fillPatcher
         ELSE fillPatcher' =
                [fillPatcher EXCEPT ![l] = @ \cup filled(l, t) \cup filled(l, t + dt)]

\* timeStep advances the level, then its finer level n_cycle times.
Advance ==
  /\ phase \in {"start", "advance"}
  /\ step < MaxSteps
  /\ advance(active)
  /\ IF active < finest_level
     THEN /\ active' = active + 1
          /\ iteration' = [iteration EXCEPT ![active + 1] = 1]
          /\ phase' = "start"
     ELSE phase' = "post" /\ UNCHANGED <<active, iteration>>
  /\ UNCHANGED <<parameters, finest_level, step, regrids>>

-----------------------------------------------------------------------------
\* What refluxing and averaging down change.
levelContent == [outside |-> U, under |-> C]

(***************************************************************************)
(* FluxRegister::Reflux(S_crse, S_fine): the coarse exchange with level    *)
(* l+1 is replaced by the fine one.  Near embedded boundaries the part     *)
(* "shared" of the correction goes to the fine cells; what is left in the  *)
(* coarse cells beneath them, whose values are changed by "beneath", means *)
(* nothing.                                                                *)
(***************************************************************************)
Reflux(s, l, shared, beneath) ==
  [s EXCEPT !.outside[l] = @ + flux_reg[l + 1] - shared,
            !.outside[l + 1] = @ + shared,
            !.under[l] = @ + beneath]

reflux(s, l, shared, beneath) == IF do_reflux THEN Reflux(s, l, shared, beneath) ELSE s

avgDown(s, l) == [s EXCEPT !.under[l] = s.outside[l + 1] + s.under[l + 1]]

\* Mutant: the average is taken before refluxing.
averageThenReflux(s, l, shared, beneath) == reflux(avgDown(s, l), l, shared, beneath)

refluxThenAverage(s, l, shared, beneath) == avgDown(reflux(s, l, shared, beneath), l)

\* Mutant: the finer level's cache is kept.
keepFillPatcher(l) == fillPatcher

resetFillPatcher(l) == [fillPatcher EXCEPT ![l + 1] = {}]

(***************************************************************************)
(* PeleC::post_timestep: reflux, average down, reset the finer level's     *)
(* FillPatcher, recompute the temperature.                                 *)
(***************************************************************************)
post_timestep(l) ==
  IF l < finest_level
  THEN /\ \E shared, beneath \in Fluxes :
            LET s == refluxThenAverage(levelContent, l, shared, beneath)
            IN  U' = s.outside /\ C' = s.under
       /\ fillPatcher' = resetFillPatcher(l)
       /\ data' = [data EXCEPT ![l].new.syncs = @ + 1,
                               ![l + 1].new.syncs = IF do_reflux THEN @ + 1 ELSE @]
  ELSE /\ data' = [data EXCEPT ![l].new.syncs = @ + 1]
       /\ UNCHANGED <<U, C, fillPatcher>>

moreCycles(l) == iteration[l] < n_cycle[l]

\* timeStep ends: the next cycle of this level, or the coarser level's end.
PostTimestep ==
  /\ phase = "post"
  /\ post_timestep(active)
  /\ \/ /\ active = 0
        /\ phase' = "start" /\ step' = step + 1
        /\ UNCHANGED <<active, iteration>>
     \/ /\ active > 0 /\ moreCycles(active)
        /\ phase' = "start"
        /\ iteration' = [iteration EXCEPT ![active] = @ + 1]
        /\ UNCHANGED <<active, step>>
     \/ /\ active > 0 /\ ~ moreCycles(active)
        /\ phase' = "post" /\ active' = active - 1
        /\ UNCHANGED <<iteration, step>>
  /\ UNCHANGED <<parameters, finest_level, regrids, flux_reg>>

Done == phase = "start" /\ step = MaxSteps /\ UNCHANGED vars

Next == Regrid \/ Advance \/ PostTimestep \/ Done

Spec == Init /\ [][Next]_vars

-----------------------------------------------------------------------------
\* build_fine_mask: a level counts where no finer one lies, the finest as a whole.
volWgtSum(l) == IF l < finest_level THEN U[l] ELSE U[l] + C[l]

\* A loop over the levels: sumUpTo(f)[l] is f[0] + ... + f[l].
sumUpTo(f) ==
  LET sum[l \in Levels] == IF l = 0 THEN f[0] ELSE sum[l - 1] + f[l]
  IN  sum

\* What post_timestep and post_init of level 0 report.
sum_integrated_quantities ==
  sumUpTo([l \in Levels |-> volWgtSum(l)])[finest_level]

\* The active level starts a step; all finer ones have caught up with it.
synchronized == phase = "start"

(***************************************************************************)
(* Conservation: whenever level 0 has finished a step, with however many   *)
(* levels, subcycles and regrids in between, the content of the hierarchy  *)
(* that is reported is what it was.                                        *)
(***************************************************************************)
Conserved ==
  synchronized /\ active = 0 /\ do_reflux =>
    sum_integrated_quantities = 0

(***************************************************************************)
(* Whenever a level starts a step, the coarse data underneath every finer  *)
(* level is its average and is of the same time ("refluxing changes the    *)
(* values of coarse cells underneath fine grids with the assumption        *)
(* they'll be over-written by averaging down", post_timestep).             *)
(***************************************************************************)
CoarseIsAverageOfFine ==
  synchronized =>
    \A l \in active .. finest_level - 1 :
      C[l] = U[l + 1] + C[l + 1] /\ curTime(l) = curTime(l + 1)

(***************************************************************************)
(* A cached coarse time never hides data that the coarse level has changed *)
(* since ("fillpatcher on level+1 needs to be reset because data on this   *)
(* level have changed", post_timestep).                                    *)
(***************************************************************************)
FillPatcherFresh ==
  \A l \in 1 .. finest_level : \A v \in fillPatcher[l], w \in coarseData(l) :
    v.time = w.time => v = w
=============================================================================

# A TLA+ model of PeleC

PeleC is a compressible reacting-flow solver on AMReX's adaptive meshes. Much of
what can go wrong in it is not the numerical method but its book-keeping: in
which order a step evaluates, combines and forgets its right-hand sides; what
reaches the flux registers; how levels that step at different rates are brought
together; how the time step is chosen; what survives a crash; on which boxes
kernels run; which of two stored energies is corrected from which. Those are
modelled as state machines. The formulas themselves, where they are decisions
or exact arithmetic (limiters, stencils, stresses, wave patterns), are modelled
as operators and compared with what they are meant to compute over small values.

Paths without a directory are in `src/Source/`.

## 1. The system

| Component | State | Operations | Talks to |
|---|---|---|---|
| Method-of-lines step (`Advance.cpp`) | `S_new`, `S_old`, `molSrc`, `molSrc_old`, `Reactions_Type` | `do_mol_advance`: predictor, average, reaction, `mol_iter` loop | `getMOLSrcTerm`, source terms, `react_state`, flux registers |
| SDC step (`Advance.cpp`, `Sources.cpp`) | the above, `old_sources`, `new_sources`, `hydro_source` | `do_sdc_advance`, `do_sdc_iteration` | Godunov, diffusion, sources, `react_state`, flux registers |
| Reactions (`React.cpp`) | `Reactions_Type` | `react_state` | PelePhysics integrators |
| Level hierarchy (`PeleC.cpp`) | the levels' data and times, flux registers, FillPatcher caches | `advance`, `post_timestep`, `reflux`, `avgDown`, `init(old)`, `init()` | `amrex::Amr::timeStep`, which calls it recursively |
| Run control (`main.cpp`, `PeleC.cpp`, `PeleCAmr.cpp`, `IO.cpp`) | step count, time, dt of every level, checkpoint and plotfile bookkeeping | `computeInitialDt`, `computeNewDt`, `okToContinue`, `checkPoint`, `restart`, `writePlotFile` | `amrex::Amr::coarseTimeStep`, the file system |
| Energies and rotating frame (`PeleCUtilities.H`, `PeleC.cpp`, `React.cpp`, `RotSource.cpp`) | `UEINT`, `UEDEN`, `UTEMP` of a cell | `initData`, `reset_internal_energy`, `computeTemp`, `pc_ctoprim`, rotating-frame source | every routine that needs a temperature |
| Godunov hydrodynamics (`Hydro.*`, `Godunov.*`, `PLM.H`, `PPM.*`, `WENO.H`, `Riemann.H`) | arrays of one tile | `construct_hydro_source`, `pc_umeth_*`, `pc_umdrv*` | primitive variables, cut-cell redistribution |
| Method-of-lines fluxes and diffusion (`Diffusion.*`, `MOL.*`, `Diffterm.H`, `GradUtil.H`) | arrays of one tile | `getMOLSrcTerm` | transport coefficients, cut-cell stencils |
| Embedded boundaries (`EB.*`, `InitEB.cpp`) | stencils of the cut cells | stencil construction, wall fluxes, divergences, clean-up after redistribution | AMReX-Hydro |
| LES closures (`LES.*`, `Filter.*`) | arrays of one tile | `getLESTerm`, four closures, explicit filter | flux registers |
| Derived fields and tagging (`Derive.*`, `Tagging.*`, `PeleC.cpp`) | none | `derive`, `errorEst` | `AmrLevel::derive`, regridding |
| ODT line (`ODTLES/ODTStepper`, `ODTTripletMap`, `ODTEventSampler`) | the cells of one line, internal time, counters | `advanceOneLESTimestep`, `applyPermutation` | the ODT manager |
| ODT line's content (`ODTLES/ODTReconcile`, `ODTLineState`, `ODTDiffusion`, `ODTMomentExtractor`) | conserved state of every segment | initialise, reconcile, diffuse, extract moments | the ODT manager |
| ODT level (`LES.cpp`, `ODTLES/ODTManager`, `ODTLineGeometry`, `ODTRuntimeLESBridge.H`) | the map of lines, one manager per level and rank | `getODTLESTerm`, `collectSupportData` | MPI exchange (`FillBoundary`), LES source terms |
| Boundary fill, other sources, sprays, soot, set-up, in-situ, cases | none that outlives a call, or in packages outside the repository | | |

What is hard, and in which module it is looked at:

- **Iterated linear combinations.** A step adds halves of right-hand sides,
  takes them out again, and hands part of the fluxes to the registers at each
  stage; a branch not taken leaves a weight wrong (`MolAdvance`, `SdcAdvance`).
- **Two time levels and their exceptions.** `Reactions_Type` is swapped or not
  depending on the integrator (`MolAdvance`, `SdcAdvance`).
- **Interleaving of levels.** Subcycles, refluxing, average-down, cached coarse
  data and regrids at any level (`AmrTimeStep`).
- **Time limits.** Several levels, growth, regridding and `stop_time` each
  change the step that the others have limited (`RunControl`).
- **Crash and restart** between any two actions (`RunControl`).
- **Two copies of one energy**, corrected from one another with limits, in and
  out of a rotating frame (`CellEnergy`).
- **Boxes.** Every kernel runs on a box grown by hand over arrays on other
  boxes, with another recipe for every scheme and option (`GhostCells`).
- **Formulas written out** per direction, face, octant and closure
  (`Reconstruction`, `Stress`, `CutCells`, `Riemann`, `CtuHydro`).
- **Events at random times within a step**, with a rounding tolerance and an
  iteration budget (`OdtStepper`).
- **A nonlinear search that must not lose conservation**, and diffusions and eddies
  between two searches that can undo what it has ensured (`OdtLine`).
- **Ranks and boxes** decide what memory a line sees (`OdtLevel`).

`PROJECT.json` lists every component with its status, and every hazard at its
line with the properties that catch it.

## 2. The modules

```
Increments --> MolAdvance --> MCMolAdvance                    MolAdvanceProofs
          \--> SdcAdvance --> MCSdcAdvance                    SdcAdvanceProofs
AmrTimeStep --> MCAmrTimeStep                                 AmrTimeStepProofs
SimulationRun (abstract) <== RunControl --> MCRunControl     RunControlProofs
LineAdvance   (abstract) <== OdtStepper                      OdtStepperProofs
TripletMap --> OdtStepper
          \--> OdtLine, LineTransport --> MCOdtLine          LocalProofs
OdtLevel --> MCOdtLevel                                       OdtLevelProofs
Boxes --> Kernels --> GodunovKernels --> MolKernels --> LesKernels
      --> DeriveKernels --> GhostCells --> MCGhostCells
Reconstruction --> Stencils \                                 HydroProofs
Stress, CellEnergy            --> MCPointwise                 LocalProofs
Residues --> CutCells, Riemann/                               HydroProofs (CutCells)
Reconstruction, Boxes --> CtuHydro --> MCCtuHydro
```

`-->` is EXTENDS (INSTANCE for `Residues`), `<==` a refinement
(`INSTANCE ... WITH`). The modules meet at assumptions one checks for the other.

- `AmrTimeStep` lets a level change its content by exactly the fluxes it gives to
  the registers: `RefluxMatchesUpdate` of `MolAdvance` and `SdcAdvance`.
- `RunControl` sees a coarse step as one action: `AmrTimeStep` with every level
  at level 0's time again.
- `MolAdvance` and `SdcAdvance` see an evaluation of a term as one symbol that
  depends on the state only: `ResultsComplete` of `GhostCells`, by which it does
  not depend on the tiles.
- `CtuHydro` gives the fluxes of a cell for arrays that hold what the scheme asks
  for: `AccessesAllocated` and `ResultsComplete`, for the same kernels. It takes
  the upwind state for Riemann's answer: `RiemannUpwinds`.
- `OdtLevel` sees the advance of a line as one action that ends with the host's
  step: `TimeLedger` of `OdtStepper`; and a reconciliation as setting the line to
  the owner's state: `OwnerMeanIsLes` of `OdtLine`.

Definitions that mutate others (`latestForcing`, `keptRegisters`, ...) stand
next to what they mutate, are marked as mutants, and belong to no specification.

### MolAdvance, SdcAdvance (with Increments)

Variables are named as in the code. A MultiFab that holds a right-hand side is
an *increment*: a function from evaluations (kind of term, sweep) to the
coefficient with which the evaluation enters. `Plus`, `Minus`, `Half`, `Only`
are `LinComb`, `Saxpy`, `Subtract` and `Copy`. So the model computes what a step
is made of, whatever the values are. Coefficients count halves: every
coefficient the code forms is a whole number of halves, and `Half` is applied to
even coefficients only. `reg` holds what the step gave to
`update_flux_registers`. One action is one block of the function, between two
evaluations. Parameters (`mol_iters`, `sdc_iters`, `do_react`, which sources are
active) are read once, in `Init`; `mol_iters` and `sdc_iters` are one at least.

### AmrTimeStep

Each level has content outside (`U`) and underneath (`C`) the next finer level
and exchanges one conserved quantity with its neighbours over one coarse-fine
face per pair of levels, with fluxes that differ between them. `flux_reg[l]` is
the accumulated difference. Data carry a version (time, and how often they were
changed after `advance`), so that a FillPatcher cache can be recognised as old.
`active`, `phase`, `iteration` are the stack of the recursion in
`amrex::Amr::timeStep`. A regrid at the start of a level's step may rebuild,
create or remove any finer level; its interpolation is conservative, as the one
registered in `Setup.cpp`. `post_timestep` refluxes and then averages down
(`refluxThenAverage`), as the code does. `Reflux`, AMReX's register, corrects the
cells outside the finer grid, changes those beneath it by anything (`beneath`),
and near embedded boundaries gives any part of the correction to the fine cells
(`shared`), hence the version of level l+1 changes too; that corrections and
their parts sum up is AMReX's promise. The sums of
`sum_integrated_quantities` are taken over `U` of every level (`sumUpTo` is the
loop over the levels).

### RunControl, SimulationRun

`RunControl` follows main's loop. Times are integers and `change_max` and
`1/init_shrink` whole numbers; the thousandth (`dt_eps`) is kept exactly by
multiplying both sides by 1000. The estimates of the levels are a table indexed
by the step: a restart computes the same estimates from the same state, as the
code does. `dt_level[i]` is always `dt_0 / n_factor`, so `dt_0` alone is kept. A
crash may happen in every state of a running process, and a restart picks any
checkpoint that was completed. `SimulationRun` is what a user is promised: time
moves on by steps and never past the end, a broken run falls back to a saved
point, and a run that ends has saved the point at which it ended.

### OdtStepper, TripletMap, LineAdvance

`OdtStepper` is one call of `advanceOneLESTimestep`; one action is one way
through its loop. Time is counted in ticks, `Tol` of which are the tolerance
`64 * epsilon * max(1, dt_les)`. The random numbers are nondeterministic: any
waiting time, any interval, either answer of the acceptance test. A cell holds
the label of the parcel that was in it at the start, and `applyImplicitUniform`
is recorded by its duration. `adjustIntervalForCompatibility` and the rejection
of incompatible intervals are not reached: the sampler draws only sizes
divisible by three that lie in the line (`ProposalsCompatible`, proved).
`LineAdvance` states the contract (`ODTLES/ODTContract.md`): the line diffuses
for exactly the host's time and otherwise only rearranges its cells, each time
within one interval.

### OdtLine, LineTransport

`OdtLine` is the conserved state along a line over its life: density, momentum
along the line, total energy and one partial density of each segment.
`initializeLineState` begins it from the averages of the three support cells: the
owner's average inside the owner, outside it a straight line kept between the
averages (`Reconstructed`). During a step `diffuse` and `applyPermutation`
(eddies, with `TripletMap`) alternate in any order. A diffusion first recovers a
temperature in every segment and aborts the program if it cannot (`failed`);
otherwise momenta cross the faces between segments (`exchanged`), each from the
segment that is faster in the end to the slower one (`followsVelocity`), which is
what the implicit solve of `applyImplicitUniform` with non-negative coefficients
gives; energy and densities stay. `reconcile` takes a new average of the owner
and the line's deviations from its old mean (`make_trial`), scaled by an alpha
that is halved until every segment is admissible (`accepted`), and otherwise the
uniform line (`flattened`). Values are integers over the variable `unit`, so
every half and third is exact. `LineTransport` has two kernels on three segments:
the implicit diffusion of momentum itself, the solution of which is written with
the determinants of the tridiagonal matrix, and the density-weighted moments
returned to the owner's fluxes.

### OdtLevel

`getODTLESTerm` and `accumulateRuntimeODTMomentumLESTerm` along one direction.
A value of the LES state is the number of the state it belongs to, or `Unset`
for memory that was never written; a line is the state it was last reconciled to
(`anchor`) and how often it was advanced. Each rank goes through its own cells
in order, at its own pace; all meet in `FillBoundary`. Regrids happen between
steps and give every level object a new, empty manager. Boxes have two cells at
least (AMReX's blocking factor). Two provenances of the code do not occur, for
the reasons stated at `Provenance`.

### CellEnergy

One cell from its initial data on: `pc_initdata` (that of the rotating case
EB-Rotor4Blade), `initData` (with `enforce_consistent_e`),
updates that change both stored energies as they like, `react_state`,
`reset_internal_energy` with its options, `computeTemp`. The frame turns about
an axis along a coordinate; the cell is on it or off it. Energies count halves
and the density is one, so all of it is exact. `vel_if`, `wallVelocity` and
`fill_rot_source` are the other places that know the frame.

### GhostCells (Boxes, Kernels, GodunovKernels, MolKernels, LesKernels, DeriveKernels)

A tile's computation is a *program*: allocations on boxes and launches of
kernels over boxes, each with the offsets at which it reads. `GodunovKernels` is
`construct_hydro_source`, `MolKernels` `getMOLSrcTerm`, `LesKernels`
`getLESTerm`, `DeriveKernels` `derive` and `errorEst`, in the order of the code,
with the boxes the code builds. Kept of an array are the box it is allocated on
and the box `known` where it holds what the scheme asks for; a kernel makes known
what it can compute from known inputs. One action runs one stage. The values are
in the modules below.

### Reconstruction, Stencils

`Reconstruction` has the slopes and limiters of PLM (with and without cut
cells) and of the method of lines, the parabolas of PPM and their integrals, the
candidates, ideal weights and smoothness indicators of WENO 3, 5 and 7, and the
characteristic tracing of PLM and PPM: sound waves, contact and shear about a
gas of given density, velocity and sound speed, without the floors under density
and pressure. Stencil values are multiples of 384, which makes every fraction of
the code exact. `Stencils` feeds it with a sliding
window over arbitrary values, or with cell averages of a polynomial.

### Stress

Viscous stress at a face, its four written-out copies, the gradients where
neighbours are covered, the tensors of the four closures and their
eddy viscosities up to a square root, vorticity and divergence as derived fields,
all as functions of the velocity gradient.

### CutCells, Riemann (with Residues)

Fractions in the wall stencils, the wall's stress and `Riemann` are residues
modulo the prime 46337: an equation between fractions implies the one between
residues. At cut faces and in `clean_massfrac` values are integers with a common
denominator. `CutCells` has the quadratic and the
least-squares wall-gradient stencils with the sorting, mirroring and sliding,
the wall's stress, the interpolation at cut faces of both schemes, the
divergences with the wall's part, and `clean_massfrac` after redistribution.
`Riemann` has the choice of the face state and the flux of the approximate
solver, Lax-Friedrichs, and the mirrored gas behind a wall (`behindWall`). Gases have the energy twice the pressure (any
function of it does); the square root of the speed of sound between the waves is
a choice of `StarSpeeds`.

### CtuHydro

One step of one cell: trace, first fluxes, corrections by one other direction,
corrections by both, final fluxes, conservative update; in two and in three
dimensions, in the order of the launches in `pc_umeth_3D` and `pc_umeth_2D`. The
flow has uniform velocity and pressure, and what moves is the density or a
species and a linear passive variable.

## 3. What is checked

Every property of a passing run has a mutant in `PROJECT.json`: the code with a
plausible mistake, for which TLC finds the property violated.

| Run | States | Shows |
|---|---|---|
| MolAdvance | 232 | up to 3 sweeps and 3 steps: fluxes are trapezoidal, registers match the update, the rate is counted once |
| SdcAdvance | 2,976 | 1 to 3 SDC iterations and every setting: the quadrature of the last iterate, registers that match the update, the start from the previous rate |
| AmrTimeStep | 565,129 | 3 levels, cycles (2,2), (1,2), (1,1), 2 coarse steps, 2 regrids anywhere, refluxing that changes covered and fine cells: conservation, averages, fresh caches |
| RunControl | 62,656 | two levels, two crashes: limits of the step, landing on `stop_time`, repeated steps, termination, refinement of `SimulationRun` |
| OdtStepper | 2,579 | lines of 2, 3 and 9 cells, steps shorter and longer than the tolerance, 4 iterations: time ledger, parcels, refinement of `LineAdvance` |
| OdtLevel | 34,986 | six cells in every cut into one, two or three boxes on two ranks, walls, periodic or inside a coarser level, regrids between all of them |
| OdtLine | 164,993 | lines over every profile of three LES states, three diffusions or eddies, one reconciliation anywhere between them; three segments of every small density, momentum and viscosity |
| Pointwise | 241,194 | all windows of seven cells over four values and polynomials up to degree six; velocity gradients of up to four entries; the life of a cell's energies; walls, faces and gases at cut cells; pairs of gases |
| CtuHydro | 2,152 | a cell that stands out, and constant gradients, in two and three dimensions and all directions of flow |
| GhostCells | 35,958 | every scheme, dimension and option of six programs, and every derived field and tag |
| Weno3Order | | ends with a counterexample, see 4 |
| RotatingStart | | ends with a counterexample, see 4 |

**Why the bounds are enough.**
A step forgets everything but the state and the rate, so two or three steps show
every carry-over; with three sweeps there is a first, a middle and a last
correction. Three levels are the first hierarchy with a level that is fine and
coarse at once, and two cycles the first in which a register accumulates; one
regrid at each of two coarse steps lets a level vanish and come back. In
`RunControl` the estimates are chosen so that each limit (the coarse level's, the
fine level's, growth, `max_dt`, `fixed_dt`, `stop_time`) decides some step, the
stop times lie in a step and within a thousandth on either side of an end of one,
and two crashes suffice to restart from a checkpoint a restarted process wrote.
`MaxSteps = 16` is above what any of those runs needs, so it cuts none of them
off (`Terminates` would fail). Nine cells hold overlapping eddies of three sizes,
six owner cells have an interior, and three boxes have one with neighbours on
both sides.

`OdtLine`: `Nsub = 3` is the smallest odd number of segments with a middle one
between two others; three events (`MaxEvents`) are a diffusion that takes a
segment's internal energy, an eddy that moves the segment, and the diffusion that
aborts, before or after the reconciliation; `Crossings` are over faces inside and
at either end of the owner, `Speeds` such that some lines can afford one and
others none; `Halvings = 2` reaches
the admissible trial, one that needs halving, and the fallback (the code halves
until `alpha_min`, which changes only how often). `Pointwise`: the limiters
compare at most three differences, and four values (`Values`) in seven cells give
all orders and ties of them, and different sizes; coefficients -1, 0, 1 of
degrees 0 to 6 span every polynomial the schemes are exact for, and the claims
are linear in them; a stress is bilinear in the gradient and its closures at most
quartic, so four entries (`MaxSlopes`) reach every product; tracing is linear in
the profile, so one wave of strength one at a time says what it does to each; normals with equal,
different and vanishing components of either sign (`Normals`) reach every
ordering and octant. `Internals` and `Totals` lie on both sides of every
threshold of `pc_rst_int_e`. `Gases` are sub- and supersonic in either
direction, with equal and different composition. `GhostCells`: the boxes are
relative to the tile, so one tile of two cells stands for all. Its options leave
out those for which the code's result does depend on the tile (`Sufficient`,
listed in 4).

**Fairness.** Safety needs none. `RunControl` states `WF_vars(Run)`: a process
that runs goes on to its next call, and one that broke off is started again; the
driver is a sequential loop, so some action of `Run` is enabled until the end.
Nothing is assumed of `Crash`, which happens at most `MaxCrashes` times.
`Terminates` is then about arithmetic: the steps that remain to `stop_time`
neither vanish nor stay behind it.

**Deadlock** is checked where the specification says when it has ended (`Done`,
`Stop`). It is not checked in OdtStepper, OdtLevel, OdtLine and the pointwise
runs: a call returns, the last host step is taken, a bound is reached or one case
has been looked at.

## 4. Where the code does not do what is said of it

Two runs end with a counterexample; `findings` in `PROJECT.json` quotes what is
said in full.

| Run | What happens |
|---|---|
| Weno3Order | The ideal weights of WENO-3Z are those of the opposite faces, so the scheme is of second order (`WENO.H:273` against `Algorithms.rst:103`). |
| RotatingStart | With `do_rf`, `enforce_consistent_e` drops the kinetic energy it has just added (`PeleC.cpp:1430` against `React.cpp:201`). |

The following were met while the models were written. The models of the code
contain them; the properties or the settings that leave them out say so.

*Time step.* With `mol_iters > 1` and reactions the corrective iterations lose the
new-time half of external, forcing and LES sources (`Advance.cpp:182` against
`React.cpp:84`). `RefluxMatchesUpdate` fails for MOL with an LES model, whose new
fluxes never reach the registers (`sub_iteration = sub_ncycle = 0`,
`Advance.cpp:139`), and with `mol_iters > 1` without reactions, where the
predictor leaves its half to corrections that do not come; `MatchedConfigs` and
the theorem exclude both. `sdc_iters = 0` makes no sweep at all (`Advance.cpp:217`).
A level that a regrid creates starts with a zero reaction rate (`PeleC::init()`
against `Algorithms.rst:38`). `hydro_source` gets no ghost cells after a restart
(`IO.cpp:138`).

*Run control.* With `max_step` or `stop_time` unset, "regrid only" runs although
steps follow (`main.cpp:154-159`). With HDF5 the last plotfile is written twice
(`PeleCAmr.cpp:284-291`). A last step that `stop_time` cuts below `dt_cutoff`
makes a finished run end with "Simulation stopped early" (`PeleC.cpp:1270`).

*Energies.* With its defaults `pc_rst_int_e` ignores `dual_energy_eta2`
(`PeleCUtilities.H:219-231` against `Params/_cpp_parameters:120-122`); with `dual_energy_update_E_from_e` off it still
changes `UEDEN` at the floor (`_cpp_parameters:115-117`), by the floor minus the
internal energy before the correction; a negative internal energy is left
unsynchronised, and a second reset may change what the first left. `pc_dereint1`
subtracts the potential that `pc_ctoprim` adds (`Derive.cpp:163`), and
`clean_massfrac` leaves it out (`Utilities.cpp:136-145`). The forcing source does
no work on the energy (`Forcing.cpp`). In two dimensions nothing sets the wall's
velocity in a rotating frame (`InitEB.cpp:162-212`).

*Tiles and ghost cells.* `Sufficient` in `MCGhostCells` excludes: `weno7`, which
reads outside its arrays; and, where the result depends on the tiling, cut cells
in two dimensions (`Godunov.cpp:1407-1410`), cut cells with flattening or at
domain boundaries, diffusion with state redistribution, method of lines with cut
cells and a filter of two cells, LES with an explicit filter, whose term is
filtered over ghost cells that are zero (`LES.cpp:59`). One exclusion (method of
lines with walls and a filter) is due to the abstraction: saved and combined flux
cancel there and boxes do not show it. Filtered updates are added into a shared
array from overlapping tiles. `vfrac` with ghost cells leaves them zero
(`PeleC.cpp:2091`).

*Fluxes.* The transverse correction of a linear passive variable multiplies by
the density (`Godunov.H:56`, `:168` against `Equations.rst:67`); `CtuHydro`
therefore claims it for unit density only. Near vacuum all states between the
waves are clipped to zero and divided (`Riemann.H:98-112`; `RiemannNext` takes
gases without vacuum); a contact at rest at the face is not mirror-symmetric
(`RiemannUpwinds` excludes `ustar = 0`); the speed of Lax-Friedrichs is not an
upper bound of both gases' waves. WALE and Vreman divide zero by zero for uniform
flow (`LES.H:488`, `:630`), which `StressDissipates` excludes. The harmonic mean
of the dynamic model zeroes stresses of opposite signs (`LES.cpp:1022-1037`).
The option `mol_iorder` is validated, `plm_iorder` is passed (`Diffusion.cpp:368`).

*Cut cells.* The least-squares stencil counts its points and not their rank
(`solvable` in `CutCells`); `pc_fill_flux_interp_stencil` is called on a box of
cells and so leaves out the highest faces; the method of lines adds redistributed
fluxes to the registers in every sweep (`Diffusion.cpp:602`).

*ODT.* With the default `odt_max_local_substeps = 1` the first event within a step
aborts the program (`ODTStepper.cpp:367` against `ODTContract.md:40`). Each line
is advanced over the whole step for the old and again for the new source
(`LES.cpp:94` against `ODTStepper.H:90`). The initial profile limits every
component alone (`ODTReconcile.cpp:408-441`), so its segments need not be
admissible before the first reconciliation. The diffusion changes momentum and not
the total energy (`ODTDiffusion.cpp:347-351`), so it may leave a segment without
internal energy; the next diffusion then finds no temperature and aborts the
program (`ODTDiffusion.cpp:250`), as may the first one of a line just begun.
`RecoveryFailsLate` says when at the earliest and for which lines. The two images of a periodic face
are not averaged, and one next to a coarser level takes half a moment
(`LES.cpp:626`, `:635`); owners at the ends of a periodic domain have a line only
if the other end is on their rank (`ODTManager.cpp:355`); next to a coarser level
a line may take memory that nobody filled (`ODTManager.cpp:365`). Lines and
seeds are not in the checkpoint (`ODTManager.cpp:228`).

## 5. What is proved

`tlapm` checks every proof; a theorem holds for all values of the constants that
the named assumptions of its module allow.

**MolAdvanceProofs** (any settings, any number of sweeps and steps).
`FluxIsTrapezoidal` and its companions speak of the end of a step only and are
not inductive. `IInv` adds, for each block of `do_mol_advance`, the closed form
of the state built so far (`StateInv`: `Predicted`, `Averaged`, `Reacted`,
`Corrected(n)`), where the sweep counter stands (`SweepInv`) and which step's
rate is in use (`RateInv`). `RegInv` is the same for the registers. At "finish"
the coefficients are read off the closed forms, with
`Coefficients` on the algebra of increments. Proved: `TypeOK`,
`FluxIsTrapezoidal`, `ReactionCountedOnce`, `PredictorUsesPreviousRate`, and
`RefluxMatchesUpdate` under the assumption named above (no LES, corrections
only with reactions).

**RunControlProofs** (any settings the program accepts, any estimates, any number
of levels and crashes). The heart is a determinism argument: `PathInv` says that
every point any process has reached is the beginning or the step after another
point reached, taken with the one length `nextDt` gives there. From it follow
`RestartTransparent` (a repeated step is the same step), and with the lemmas on
the arithmetic of `longest`, `limitByChange` and `limitByStopTime` also
`LandsOnStopTime`, `EveryLevelWithinLimit` and `GrowthLimited`; `LimitTwice`
shows that a regrid that chooses again does not add a second thousandth.
`SaveInv` relates the checkpoint bookkeeping to what is on disk in each place of
the loop and gives `FinalCheckpoint`. The refinement theorem maps every action to
one of `SimulationRun` or to a stutter.

**OdtStepperProofs** (any step, tolerance, line and budget).
`SourceIsBijective`: the triplet map is a bijection of the cells of every
interval of size 3m, by an explicit inverse of each of the three branches.
`EddyPermutes` lifts it to the line. `IInv` is the type invariant, the time
ledger, the line as a permutation, the budget and the conditions of the loop
(in the loop nothing has closed the step; on leaving it the rest is within the
tolerance or already diffused). Proved: both invariants of the run, the
refinement of `LineAdvance`, and that only events spend the budget.

**SdcAdvanceProofs** (any configuration, any number of iterations and steps).
An iteration forgets all earlier ones but for the two source buffers, so `IInv`
says of each block which sweep the buffers are from (`SourceInv`), what the
registers hold so far (`RegInv`: the old fluxes from the first iteration on, the
running iteration's only if it is the last), and of an accepted state its
coefficients (`StateInv`). All three properties of the run follow, the
registers' without an exception: the SDC step hands on the subgrid fluxes that
the method of lines loses.

**AmrTimeStepProofs** (any number of levels, any subcycling, fluxes, regrids).
The properties speak of the instants at which a level starts a step; `IInv`
carries the recursion in between. A step's end is `refluxThenAverage`, whatever
refluxing did to the cells beneath the finer grid and to its own: the average,
taken last, replaces the former and counts the latter. `TimeInv`: where a level stands within the
step of the next coarser one. `AverageInv`: which levels have left their average.
`PatcherInv`: a cache is empty before the coarser level changes its data.
`BalanceInv`: what the levels hold plus what the registers owe them, summed from
level 0 to the one that runs, is zero. The sum is over a variable number of
levels, so the proof needs induction; without an operator as parameter it is
stated for a set of numbers, whose complement would have a least element
(`IntervalInduction`, from `WellFoundedInduction`), and existence and linearity
of the recursive sums are derived from it. Proved: all three properties of the
run.

**OdtLevelProofs** (any set of layouts `LayoutAssumption` allows, any moments).
A level has lines only where their support can be reached (`LinesInv`), and a
call comes to every such cell (`DoneInv`): hence none stays behind. Proved:
`LinesFollowLes`; `ConservativeReturn`, since the flux of a face is a function of
the face for boxes of one level; and `EveryOwnerHasLine` under `WideAtWalls`,
boxes at a wall have two cells at least. The run's layouts satisfy it, and so
does every grid with `amr.blocking_factor` of two or more (as in every input file); with a single cell at a wall the property is false.

**LocalProofs** (any values).
*Energies*: `EnergiesAgree` is inductive together with types, since each routine
that is followed by a promise builds the energies anew; `TotalEnergyKept` and
`FrameIndependent` follow, the latter from the algebra of cross products with a
spin along one axis.
*Lines* (any odd number of segments, either kind of support): `OwnerMeanIsLes`
rests on the linearity of the sums over the owner's segments (a trial is an affine
image of the line, whose mean `make_trial` takes out),
`OdtRecoveryFailsLate` on a maximum principle: a speed that no segment exceeds
stays one under any exchange that follows the velocities, since of the segments
above it none could have taken the momentum (`NoneFaster`), so a segment that
could afford it still has internal energy. `LineIInv` has this as `ReserveInv`,
for every speed of `reserve`, and as `FailInv` that a line is admissible from a
reconciliation to the next diffusion, eddies only moving its segments. It also
says that the unit is positive and that states have integers, and mentions the
mean only while nothing has happened to the line since it was prepared.
*Transport* (any densities above zero, momenta, viscosities of zero or more):
the determinant of the tridiagonal matrix is positive and its cofactors are not
negative; its columns have one sum, so the momentum of the line is kept, and the
densities themselves solve the system, so a new velocity is an average of the old
ones (`DiffusionSound`); the returned stress is a sum of
squares by Lagrange's identity (`MomentRealizable`). Both are for lines of three
segments, as is the module.
*Stresses* (any velocity gradient): every written-out copy of the face's gradient
is the same matrix `FaceG`, four times the gradient; every stress depends on its
symmetric part only; the work of a stress is
`2((a-b)^2 + (a-c)^2 + (b-c)^2)` of the normal strains plus three times the
squares of the shears; Vreman's `bbeta` is a sum of squares by Lagrange's identity
for each minor, and WALE's divisor vanishes only if strain and squared rotation
do, hence the gradient.

**HydroProofs** (any integer cell averages, any polynomial, any cut faces, any
partial densities).
*Reconstructions*: `StencilInv` says that a stencil holds integers and, once a
polynomial is fitted, its averages; that is all the properties need, which are
then facts about the formulas. Everything exact about them comes from the scaling:
an average is `384 x`, a slope a multiple of 8 (PLM) or 192 (van Leer), an edge of
a parabola a multiple of 32, so each division of the code has no remainder, and
one lemma per step hands its multiple to the next (`PlmSlopeMultiple`,
`ReconstructedMultiple`, ...). `ProfilesBounded`: the limiter as a function of
three numbers (`Limited`, with the lemmas on `Lesser` and `Greater`), the
parabola's monotonicity after `QuadraticLimit`, and for the swept average that it
is an average of the parabola with weights that sum up to one. For the tracing,
`Strengths` is the inverse of `Superposed`: of a profile of one family only that
wave's strength is left (`SweptTimes`, `TracedGasOf`), for PLM on either side and
for PPM, in the twenty-five combinations of flow and family. `MirrorSymmetric`:
each operator's value on the reversed stencil, from the innermost one out.
`PolynomialsExact`: the averages are written out as linear forms in the
coefficients (`PolynomialAveragesOf`, `AveragesOnLine`), and every candidate, weight and
indicator is an identity between such forms.
*Cut faces*: an interpolation's weights are products of shares along the two
directions of a face, so a sum of nine is a product of two sums of three
(`Interpolated`); shares sum up to two and have their centre at the centroid
(`ShareSums`). `CutFluxesBalance` follows for both schemes.
*Cleaning*: clipping partial densities of positive sum to that sum never
loses mass (`ClippedSum`), and the common denominator cancels from momentum and
energies (`CleanedFractions`). Hence `CleanedStatesConsistent`.

**Assumptions.** `LayoutAssumption`, `EnergyAssumption` (a frame turns about one
axis), `BoundsAssumption`, `SupportsAssumption` (a support is central or
one-sided), `HostCellsAssumption` (LES averages are admissible: `reconcile` aborts
otherwise), `TransportAssumption`, `SlopeAssumption`, `StencilAssumption` (integer
averages and coefficients) and `CutAssumption` (a centroid lies in its face) say what the code
requires of, or guarantees for, the values the runs choose; TLC evaluates each.

**Only model-checked**, of the properties of the passing runs:

- `Terminates`: liveness and ENABLED are beyond the prover.
- `WallFluxesExact`, `RiemannUpwinds`: they compute with residues modulo a prime.
  For every value of the constants they are false, since a denominator may be
  divisible by the prime; over fractions TLC's integers would overflow.
- `CtuMovesTheCorner`, `ContactKeepsComposition`: divisions of transverse fluxes by
  four and six are exact for the fields of the run, not for every integer, and
  densities are positive there. A theorem would have to assume both.
- `AccessesAllocated`, `ResultsComplete`: the options are a finite set that TLC
  enumerates completely, boxes being relative to the tile.

What a recursively defined function computes cannot be proved by the induction
theorems of the library (they take an operator as parameter); where it mattered
(sums over levels and segments) the set-based induction above took their place.

## 6. What is not modelled

- AMReX, AMReX-Hydro and PelePhysics: modelled from their use and marked external
  (the recursion of `timeStep`, the order of `coarseTimeStep`, checkpoint files,
  FillPatcher, reach of the redistribution), or abstract (equations of state,
  integrators, transport coefficients).
- Rounding: every value is an integer or an exact fraction, except the tolerance
  of the ODT stepper and `dt_eps`, which are parts of the models.
- Godunov: the values of flattening and of artificial viscosity, the transverse
  energy and pressure terms; `CtuHydro` has uniform velocity and pressure. Tracing
  is checked on one wave family at a time, not on a superposition.
- Enthalpy and species diffusion; the dynamic closure's coefficients.
- Embedded boundaries: the redistribution itself, shapes and signed distance.
- Boundary fill, forcing and manufactured-solution sources (pointwise copies or
  formulas without cases), set-up, generated parameter code.
- Sprays and soot, whose sources are not in the repository; in-situ
  visualisation; the case directories but for the initial data of EB-Rotor4Blade;
  the ODT unit tests and validation documents.
- The content of plot and checkpoint files beyond the point they hold.
- ODT: acceptance probabilities, random streams, thermodynamics of segments, the
  velocity kernel (disabled in every call), and the two momenta across a line.

## 7. Plan

Built, in this order: the two time steps, the hierarchy, run control, ODT lines
and levels; then lines' content, reconstruction, stresses, energies, cut cells,
Riemann, the corner-transport-upwind step, and the boxes of every kernel.
Next, most important first:

1. Proofs: the corner-transport step (`ContactKeepsComposition`) over fractions
   instead of scaled integers, and `DiffusionSound` for a line of any length.
2. Pressure, energy and sound waves in the transverse corrections of `CtuHydro`.
3. Boundary fill: what ghost cells hold at walls, in- and outflow.
4. The ledger of what redistribution gives to the registers at cut cells.
5. Set-up: layout of the state (`IndexDefines.H`), order of the active sources,
   checkpoint contents.

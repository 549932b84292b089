------------------------------ MODULE RunControl -------------------------------
(***************************************************************************)
(* The driver: main's time loop, the choice of the time step by            *)
(* PeleC::computeInitialDt, computeNewDt and okToContinue, the output      *)
(* files, and a crash followed by a restart from a checkpoint.  Order of   *)
(* the calls inside Amr::init and Amr::coarseTimeStep is AMReX's.          *)
(*                                                                         *)
(* Times are integers.  dtLevel(i) = dt_0 / n_factor(i) always, so only    *)
(* dt_0 is kept and a limit on level i is compared as n_factor(i) * limit. *)
(***************************************************************************)
EXTENDS Integers, Sequences, FiniteSetsExt, Functions

CONSTANTS
  Settings,     \* the inputs files considered
  n_factor,     \* n_factor[i]: steps of level i (1 = the coarsest) in one of level 1
  InitDivisor,  \* 1 / init_shrink
  ChangeMax,    \* change_max, a whole number here
  MaxSteps,     \* bound on the steps, for runs that only time ends
  MaxCrashes    \* bound on the crashes

(***************************************************************************)
(* A setting: the parameters, and the estimates the solution leads to:     *)
(* est[k] is that of every level at step k (k taken modulo its length),    *)
(* cfl times the smallest hydro or diffusion limit over the cells.         *)
(***************************************************************************)
SettingFields ==
  {"max_step", "strt_time", "stop_time", "wall_time", "fixed_dt", "initial_dt",
   "max_dt", "dt_cutoff", "check_int", "plot_int", "hdf5",
   "regrid_on_restart", "dt_on_regrid", "may_fail", "est"}

\* main.cpp and read_params refuse any other setting.
Accepted(s) ==
  /\ s.strt_time >= 0
  /\ s.max_step >= 0 \/ s.stop_time >= 0 \/ s.wall_time
  /\ s.max_dt >= s.fixed_dt

ASSUME RunAssumption ==
  /\ n_factor \in Seq(Nat \ {0}) /\ n_factor # <<>> /\ n_factor[1] = 1
  /\ InitDivisor \in Nat \ {0} /\ ChangeMax \in Nat \ {0}
  /\ MaxSteps \in Nat /\ MaxCrashes \in Nat
  /\ \A s \in Settings :
       /\ DOMAIN s = SettingFields
       /\ {s.max_step, s.strt_time, s.stop_time, s.fixed_dt, s.initial_dt,
           s.max_dt, s.dt_cutoff, s.check_int, s.plot_int} \subseteq Int
       /\ s.max_dt >= InitDivisor
       /\ s.fixed_dt > 0 => s.fixed_dt >= InitDivisor
       /\ {s.wall_time, s.hdf5, s.regrid_on_restart, s.dt_on_regrid, s.may_fail}
            \subseteq BOOLEAN
       /\ s.est \in Seq(Seq(Nat)) /\ s.est # <<>>
       /\ \A k \in DOMAIN s.est :
            /\ Len(s.est[k]) \in 1 .. Len(n_factor)
            /\ \A i \in DOMAIN s.est[k] : s.est[k][i] >= InitDivisor

VARIABLES
  par,                        \* the inputs
  pc,
  level_steps, cumtime, dt_0,
  failing,                    \* stopJob was called, or the solution holds NaN
  wall_time_over,
  checkpoints,                \* the complete checkpoints on disk
  last_checkpoint, last_plotfile,
  plots,                      \* plots[n]: plotfiles of step n this process wrote
  regridOnly,                 \* RegridOnly was called by this process
  firstStep,                  \* level_steps when this process entered the loop
  raise_failure,
  reached,                    \* every step and time reached, and the step's dt_0,
                              \* over all processes
  crashes

solution == <<level_steps, cumtime, dt_0, failing, reached>>
output   == <<checkpoints, last_checkpoint, last_plotfile, plots>>
process  == <<wall_time_over, regridOnly, firstStep, raise_failure, crashes>>
vars     == <<par, pc, solution, output, process>>

Unset == 0   \* dtLevel before computeInitialDt or restart: nothing reads it

Point(n, t, dt) == [step |-> n, time |-> t, dt |-> dt]
here == Point(level_steps, cumtime, dt_0)

-----------------------------------------------------------------------------
\* The estimates of the levels that exist at step n.
estimates(s, n) == s.est[(n % Len(s.est)) + 1]

smaller(a, b) == IF b < a THEN b ELSE a

estTimeStep(s, e) == IF s.fixed_dt > 0 THEN s.fixed_dt ELSE smaller(s.max_dt, e)

initialTimeStep(s, e) ==
  IF s.initial_dt > 0 THEN s.initial_dt ELSE estTimeStep(s, e) \div InitDivisor

\* Mutant of longest: the finest level is left out.
longestButFinest(limit) ==
  Min({n_factor[i] * limit[i] : i \in 1 .. Max({1, Len(limit) - 1})})

\* The longest step of level 0 with which every level keeps its own limit.
longest(limit) == Min({n_factor[i] * limit[i] : i \in DOMAIN limit})

\* Mutant: no thousandth.
landsWithoutEps(s, dt, t) ==
  IF s.stop_time >= 0 /\ t + dt > s.stop_time THEN s.stop_time - t ELSE dt

\* Shortened to end at stop_time, or lengthened by up to a thousandth.
limitByStopTime(s, dt, t) ==
  IF s.stop_time >= 0 /\ 1000 * (t + dt) + dt > 1000 * s.stop_time
  THEN s.stop_time - t
  ELSE dt

computeInitialDt(s, es, t) ==
  limitByStopTime(s, longest([i \in DOMAIN es |-> initialTimeStep(s, es[i])]), t)

\* Mutant: the first step of a process is not limited.
limitButFirst(s, dt, old, post_regrid_flag) ==
  IF s.fixed_dt > 0 \/ level_steps = firstStep THEN dt
  ELSE smaller(dt, IF post_regrid_flag THEN old ELSE ChangeMax * old)

limitByChange(s, dt, old, post_regrid_flag) ==
  IF s.fixed_dt > 0 THEN dt
  ELSE smaller(dt, IF post_regrid_flag THEN old ELSE ChangeMax * old)

computeNewDt(s, es, t, old, post_regrid_flag) ==
  limitByStopTime(s,
    limitByChange(s, longest([i \in DOMAIN es |-> estTimeStep(s, es[i])]),
                  old, post_regrid_flag), t)

okToContinue == ~failing /\ dt_0 >= par.dt_cutoff

\* Mutant: one more step at stop_time.
stepsUpToStop ==
  /\ level_steps < par.max_step \/ par.max_step < 0
  /\ cumtime <= par.stop_time \/ par.stop_time < 0
  /\ ~wall_time_over

moreSteps ==
  /\ level_steps < par.max_step \/ par.max_step < 0
  /\ cumtime < par.stop_time \/ par.stop_time < 0
  /\ ~wall_time_over

-----------------------------------------------------------------------------
Init ==
  /\ par \in {s \in Settings : Accepted(s)}
  /\ pc = "down"
  /\ level_steps = 0 /\ cumtime = par.strt_time /\ dt_0 = Unset
  /\ failing = FALSE /\ wall_time_over = FALSE
  /\ checkpoints = {} /\ last_checkpoint = 0 /\ last_plotfile = 0
  /\ plots = [n \in 0 .. MaxSteps |-> 0]
  /\ regridOnly = FALSE /\ firstStep = 0 /\ raise_failure = FALSE
  /\ reached = {} /\ crashes = 0

\* Amr::checkPoint and PeleC::checkPoint.  The directory gets its name when it
\* is complete.
writeCheckPoint ==
  /\ checkpoints' = {c \in checkpoints : c.point.step # level_steps} \cup
                      {[point |-> here, failing |-> failing]}
  /\ last_checkpoint' = level_steps

\* PeleCAmr::writePlotFile and writePlotFileDoit.
writePlotFile ==
  /\ plots' = [plots EXCEPT ![level_steps] = @ + 1]
  /\ last_plotfile' = IF par.hdf5 THEN last_plotfile ELSE level_steps

\* Amr::initialInit; the first checkpoint and plotfile are the next step.
StartFresh ==
  /\ pc = "down"
  /\ checkpoints = {}   \* otherwise amr.restart is set
  /\ level_steps' = 0 /\ cumtime' = par.strt_time
  /\ dt_0' = computeInitialDt(par, estimates(par, 0), par.strt_time)
  /\ failing' = FALSE
  /\ last_checkpoint' = 0 /\ last_plotfile' = 0
  /\ plots' = [n \in DOMAIN plots |-> 0]
  /\ wall_time_over' = FALSE /\ regridOnly' = FALSE
  /\ firstStep' = 0
  /\ reached' = reached \cup {here'}
  /\ pc' = "firstOutput"
  /\ UNCHANGED <<par, checkpoints, raise_failure, crashes>>

FirstOutput ==
  /\ pc = "firstOutput"
  /\ writeCheckPoint
  /\ IF par.plot_int > 0 THEN writePlotFile ELSE UNCHANGED <<plots, last_plotfile>>
  /\ pc' = "enterLoop"
  /\ UNCHANGED <<par, solution, process>>

\* Amr::restart and PeleC::restart, from the checkpoint amr.restart names.  A NaN
\* comes back with the state, a call of stopJob does not.
Restart ==
  /\ pc = "down"
  /\ \E c \in checkpoints :
       /\ level_steps' = c.point.step
       /\ cumtime' = c.point.time
       /\ dt_0' = c.point.dt
       /\ failing' \in {FALSE, c.failing}
       /\ firstStep' = c.point.step
       /\ last_checkpoint' \in {0, c.point.step}
       /\ last_plotfile' \in {0, c.point.step}
  /\ plots' = [n \in DOMAIN plots |-> 0]
  /\ wall_time_over' = FALSE /\ regridOnly' = FALSE
  /\ pc' = "enterLoop"
  /\ UNCHANGED <<par, checkpoints, raise_failure, reached, crashes>>

\* The "Regrid only!" branch of main.
EnterLoop ==
  /\ pc = "enterLoop"
  /\ regridOnly' = (/\ par.regrid_on_restart
                    /\ level_steps >= par.max_step \/ cumtime >= par.stop_time)
  /\ pc' = "loop"
  /\ UNCHANGED <<par, solution, output, wall_time_over, firstStep,
                 raise_failure, crashes>>

-----------------------------------------------------------------------------
\* coarseTimeStep: the time step is chosen from the state at its start; a
\* regrid at its start may choose again, from the regridded state.
chosenDt(s, p) ==
  IF p.step > 0 THEN computeNewDt(s, estimates(s, p.step), p.time, p.dt, FALSE)
  ELSE computeInitialDt(s, estimates(s, p.step), p.time)

nextDt(s, p) ==
  IF s.dt_on_regrid
  THEN computeNewDt(s, estimates(s, p.step + 1), p.time, chosenDt(s, p), TRUE)
  ELSE chosenDt(s, p)

CoarseTimeStep ==
  /\ pc = "loop"
  /\ level_steps < MaxSteps
  /\ okToContinue /\ moreSteps
  /\ dt_0' = nextDt(par, here)
  /\ cumtime' = cumtime + dt_0'
  /\ level_steps' = level_steps + 1
  /\ failing' \in {FALSE, par.may_fail}
  /\ wall_time_over' \in {FALSE, par.wall_time}
  /\ reached' = reached \cup {here'}
  /\ pc' = "output"
  /\ UNCHANGED <<par, output, regridOnly, firstStep, raise_failure, crashes>>

every(interval) == interval > 0 /\ level_steps % interval = 0

Output ==
  /\ pc = "output"
  /\ IF every(par.check_int) THEN writeCheckPoint
     ELSE UNCHANGED <<checkpoints, last_checkpoint>>
  /\ IF every(par.plot_int) THEN writePlotFile
     ELSE UNCHANGED <<plots, last_plotfile>>
  /\ pc' = "loop"
  /\ UNCHANGED <<par, solution, process>>

leavesLoop == ~okToContinue \/ ~moreSteps

\* Mutant: one step off.
checkPointIsLate == last_checkpoint + 1 < level_steps

checkPointIsDue == last_checkpoint < level_steps

FinalCheckPoint ==
  /\ pc = "loop"
  /\ leavesLoop
  /\ IF checkPointIsDue THEN writeCheckPoint
     ELSE UNCHANGED <<checkpoints, last_checkpoint>>
  /\ pc' = "finalPlot"
  /\ UNCHANGED <<par, solution, last_plotfile, plots, process>>

FinalPlotFile ==
  /\ pc = "finalPlot"
  /\ IF last_plotfile < level_steps THEN writePlotFile
     ELSE UNCHANGED <<plots, last_plotfile>>
  /\ raise_failure' = ~okToContinue
  /\ pc' = "ended"
  /\ UNCHANGED <<par, solution, checkpoints, last_checkpoint, wall_time_over,
                 regridOnly, firstStep, crashes>>

\* The process dies, at any point.
Crash ==
  /\ pc \notin {"down", "ended"}
  /\ crashes < MaxCrashes
  /\ crashes' = crashes + 1
  /\ pc' = "down"
  /\ UNCHANGED <<par, solution, output, wall_time_over, regridOnly, firstStep,
                 raise_failure>>

\* The bound of the model, or the end.
Stop ==
  /\ pc = "ended" \/ (pc = "loop" /\ level_steps = MaxSteps /\ ~leavesLoop)
  /\ UNCHANGED vars

Run == \/ StartFresh \/ FirstOutput \/ Restart \/ EnterLoop \/ CoarseTimeStep
       \/ Output \/ FinalCheckPoint \/ FinalPlotFile

Next == Run \/ Crash \/ Stop

\* A running process goes on; whoever runs PeleC starts it again.
Spec == Init /\ [][Next]_vars /\ WF_vars(Run)

-----------------------------------------------------------------------------
Points == [step : 0 .. MaxSteps, time : Nat, dt : Int]

\* The types of the driver's variables.
TypeOK ==
  /\ par \in Settings
  /\ pc \in {"down", "firstOutput", "enterLoop", "loop", "output", "finalPlot",
             "ended"}
  /\ level_steps \in 0 .. MaxSteps /\ firstStep \in 0 .. MaxSteps
  /\ cumtime \in Nat /\ dt_0 \in Int
  /\ {failing, wall_time_over, regridOnly, raise_failure} \subseteq BOOLEAN
  /\ reached \subseteq Points
  /\ checkpoints \subseteq [point : Points, failing : BOOLEAN]
  /\ last_checkpoint \in 0 .. MaxSteps /\ last_plotfile \in 0 .. MaxSteps
  /\ plots \in [0 .. MaxSteps -> Nat]
  /\ crashes \in 0 .. MaxCrashes

\* No step carries the solution, or a checkpoint, past stop_time, whichever
\* estimate, growth limit, regrid or restart chose its length (computeNewDt,
\* computeInitialDt and main's loop).
StopTimeNotPassed ==
  par.stop_time >= par.strt_time =>
    \A p \in reached : p.time <= par.stop_time

\* The step that was just taken is within the estimate of every level that
\* existed when it was chosen, up to the thousandth computeNewDt may add.
EveryLevelWithinLimit ==
  pc = "output" /\ par.initial_dt <= 0 =>
    \A i \in DOMAIN estimates(par, level_steps - 1) :
      1000 * dt_0 <=
        1001 * n_factor[i] * estTimeStep(par, estimates(par, level_steps - 1)[i])

\* What is left to stop_time after a step is nothing or more than a thousandth
\* of that step: the run does not end with a sliver (dt_eps of computeNewDt).
NoSliverStep ==
  pc = "output" /\ par.stop_time >= 0 =>
    \/ cumtime = par.stop_time
    \/ 1000 * (par.stop_time - cumtime) >= dt_0

\* The steps land on stop_time: none passes it, and none leaves a sliver before
\* it, so that the last step is a step like the others (computeNewDt).
LandsOnStopTime == StopTimeNotPassed /\ NoSliverStep

\* From one step to the next, also over a restart, the time step grows at most
\* by change_max and the thousandth (computeNewDt).
GrowthLimited ==
  [][ CoarseTimeStep /\ level_steps > 0 /\ par.fixed_dt <= 0
        => 1000 * dt_0' <= 1001 * ChangeMax * dt_0 ]_vars

\* A step repeated after a restart is the step it was the first time
\* (checkPoint, restart and computeNewDt).
RestartTransparent ==
  \A p, q \in reached : p.step = q.step => p = q

\* A run that ended has a checkpoint of the point it ended at, whatever
\* crashes, restarts and interval checkpoints came before (end of main).
FinalCheckpoint ==
  pc = "ended" => \E c \in checkpoints : c.point = here

\* A run that stop_time or max_step bounds comes to its end.
Terminates == <>(pc = "ended")

\* The detailed run implements the run its user sees.
Promise == INSTANCE SimulationRun WITH
  end   <- par.stop_time,
  point <- [step |-> level_steps, time |-> cumtime],
  saved <- {[step |-> c.point.step, time |-> c.point.time] : c \in checkpoints}
             \cup {[step |-> 0, time |-> par.strt_time]},
  ended <- pc = "ended"

ImplementsPromise == Promise!Spec
================================================================================

----------------------------- MODULE OdtStepper -----------------------------
(* ODTStepper::advanceOneLESTimestep: one ODT line is advanced over one host   *)
(* step.  The loop draws a waiting time, diffuses the line for that long,      *)
(* draws an interval and, when the state model accepts it, applies the         *)
(* triplet map; the last piece of the step is diffusion only.  One action is   *)
(* one way through the body of the loop.                                       *)
(*                                                                             *)
(* Time is counted in ticks, Tol of which are the rounding tolerance of the    *)
(* code.  The random draws are nondeterministic: a waiting time of dt or more  *)
(* behaves as dt does, and the test of the acceptance probability may go       *)
(* either way.  A cell holds the label of the parcel that was there at the     *)
(* start; diffusion is recorded by how long it acted.                          *)
EXTENDS Integers, TripletMap

CONSTANTS Steps,     \* values of dt_les, in ticks
          Sizes,     \* numbers of cells a line may have
          Tol,       \* the tolerance 64 * epsilon * max(1, dt_les), in ticks
          MinSize,   \* sampler_controls.min_interval_size
          MaxIter    \* max_internal_iterations (pelec.odt_max_local_substeps)

ASSUME TolAssumption == Tol \in Nat
ASSUME MinSizeAssumption == MinSize \in Int
ASSUME MaxIterAssumption == MaxIter \in Nat \ {0}
ASSUME StepsAssumption == Steps \subseteq Nat
ASSUME SizesAssumption == Sizes \subseteq Nat \ {0}

VARIABLES call,      \* the arguments: the step dt, the cells of the line and
                     \* whether sampler_controls.event_rate is above zero
          pc,        \* "loop", "closing", "done" or "aborted" (a failed assertion)
          t,         \* internal time
          iter,      \* iterations of the loop
          line,      \* the label of the parcel in each cell
          diffused,  \* total time given to applyImplicitUniform
          report     \* the counters of StepReport

vars == <<call, pc, t, iter, line, diffused, report>>

Init ==
    /\ call \in [dt : Steps, cells : Sizes, rate : BOOLEAN]
    /\ pc = "loop"
    /\ t = 0
    /\ iter = 0
    /\ line = [i \in 0..call.cells-1 |-> i]
    /\ diffused = 0
    /\ report = [attempted |-> 0, applied |-> 0, rejected |-> 0,
                 substeps |-> 0, catchup |-> FALSE]

-----------------------------------------------------------------------------
(* The loop *)

(* The assertion at the head of the body. *)
InBudget == iter < MaxIter

Looping == pc = "loop" /\ t < call.dt - Tol

Remaining == call.dt - t

ExceedIterations ==
    /\ Looping
    /\ ~InBudget
    /\ pc' = "aborted"
    /\ UNCHANGED <<call, t, iter, line, diffused, report>>

(* The rest of the step is diffused and the loop is left. *)
Catchup(waited, rest) ==
    /\ pc' = "closing"
    /\ t' = call.dt
    /\ iter' = iter + 1
    /\ diffused' = diffused + waited + rest
    /\ report' = [report EXCEPT
                    !.substeps = @ + (IF waited > 0 THEN 2 ELSE 1),
                    !.catchup = TRUE]
    /\ UNCHANGED <<call, line>>

(* The next event lies beyond the end of the step, or never happens. *)
CloseByWaiting ==
    /\ Looping /\ InBudget
    /\ ~call.rate \/ \E wait \in 0..call.dt : wait >= Remaining - Tol
    /\ Catchup(0, Remaining)

(* A waiting time that ends within the step; the diffusion that fills it. *)
EventAfter(wait) == call.rate /\ wait < Remaining - Tol

(* Mutant of NoProposal: the rest of the step as it was before the wait. *)
StaleRemaining(wait) == Proposals(call.cells, MinSize) = {} /\ Catchup(wait, Remaining)

(* The line offers no interval the sampler may draw. *)
NoProposal(wait) == Proposals(call.cells, MinSize) = {} /\ Catchup(wait, Remaining - wait)

(* The counters after an event that was attempted. *)
Attempted(wait, applied) ==
    [report EXCEPT !.attempted = @ + 1,
                   !.applied  = @ + (IF applied THEN 1 ELSE 0),
                   !.rejected = @ + (IF applied THEN 0 ELSE 1),
                   !.substeps = @ + (IF wait > 0 THEN 1 ELSE 0)]

Waited(wait) ==
    /\ t' = t + wait
    /\ iter' = iter + 1
    /\ diffused' = diffused + wait
    /\ UNCHANGED <<call, pc>>

(* The state model refuses the interval that was drawn. *)
Reject(wait) ==
    /\ Proposals(call.cells, MinSize) # {}
    /\ Waited(wait)
    /\ report' = Attempted(wait, FALSE)
    /\ UNCHANGED line

(* The eddy is applied.  Every interval the sampler draws passes              *)
(* canApplyPermutation (ProposalsCompatible in OdtStepperProofs), so the       *)
(* branches that adjust or reject an incompatible interval are not reached.    *)
Apply(wait) ==
    \E iv \in Proposals(call.cells, MinSize) :
        /\ Waited(wait)
        /\ report' = Attempted(wait, TRUE)
        /\ line' = ApplyPermutation(line, iv)

Event ==
    /\ Looping /\ InBudget
    /\ \E wait \in 0..call.dt :
        /\ EventAfter(wait)
        /\ NoProposal(wait) \/ Reject(wait) \/ Apply(wait)

(* After the loop: what the tolerance left open is diffused. *)
Finish ==
    /\ pc \in {"loop", "closing"}
    /\ ~(pc = "loop" /\ t < call.dt - Tol)
    /\ pc' = "done"
    /\ t' = call.dt
    /\ diffused' = diffused + Remaining
    /\ report' = [report EXCEPT !.substeps = @ + (IF Remaining > 0 THEN 1 ELSE 0)]
    /\ UNCHANGED <<call, iter, line>>

Next == ExceedIterations \/ CloseByWaiting \/ Event \/ Finish

Spec == Init /\ [][Next]_vars

-----------------------------------------------------------------------------
(* Properties *)

StepReport == [attempted : Nat, applied : Nat, rejected : Nat, substeps : Nat,
               catchup : BOOLEAN]

(* The counters stay in their ranges and internal time within the host's step. *)
TypeOK ==
    /\ pc \in {"loop", "closing", "done", "aborted"}
    /\ call \in [dt : Steps, cells : Sizes, rate : BOOLEAN]
    /\ t \in 0..call.dt
    /\ iter \in 0..MaxIter
    /\ line \in [0..call.cells-1 -> 0..call.cells-1]
    /\ diffused \in Nat
    /\ report \in StepReport

(* The line has diffused for exactly the internal time that has passed, never  *)
(* beyond the host's step, and for all of it when the function returns:        *)
(* however waits, rejected events and the three ways of closing the step mix.  *)
TimeLedger ==
    /\ diffused = t
    /\ t <= call.dt
    /\ pc \in {"closing", "done"} => t = call.dt

(* However the eddies of a step overlap, the line still holds every parcel of  *)
(* the start exactly once: the map is measure preserving.                      *)
ParcelsKept ==
    /\ \A i, k \in DOMAIN line : line[i] = line[k] => i = k
    /\ \A parcel \in DOMAIN line : \E i \in DOMAIN line : line[i] = parcel

(* The budget of iterations is spent on events alone: each iteration attempts  *)
(* one event or closes the step, every attempted event is applied or rejected, *)
(* and the assertion fails only after MaxIter attempted events.                *)
BudgetGoesToEvents ==
    /\ report.attempted = report.applied + report.rejected
    /\ iter = report.attempted + (IF report.catchup THEN 1 ELSE 0)
    /\ pc = "aborted" => report.attempted = MaxIter

(* A step longer than the tolerance always ends with a piece of diffusion      *)
(* alone: an event never falls on the end of the step.                         *)
LastPieceDiffuses == pc = "done" /\ call.dt > Tol => report.catchup

(* The step promised by the contract: see LineAdvance. *)
Contract == INSTANCE LineAdvance
    WITH dt <- call.dt,
         ended <- CASE pc = "done"    -> "closed"
                    [] pc = "aborted" -> "aborted"
                    [] OTHER          -> "no"

ImplementsContract == Contract!Spec
=============================================================================

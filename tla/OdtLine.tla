------------------------------- MODULE OdtLine -------------------------------
(* The conserved state of one line of the one-dimensional turbulence model     *)
(* (Source/ODTLES: ODTLineGeometry, ODTLineState, ODTReconcile, ODTTripletMap, *)
(* ODTDiffusion, ODTMomentExtractor).  A line is laid out through its owner    *)
(* cell and two more cells of the LES grid, Nsub segments in each; it is begun *)
(* from their averages, diffused and stirred by eddies during a step of the    *)
(* host, and pulled back to the owner's new average before the next one.       *)
(*                                                                             *)
(* A state q is the tuple of density, momentum along the line, total energy    *)
(* and one partial density; the line moves in its own direction only.  The     *)
(* values on the line are integers over the common denominator unit; the width *)
(* of a host cell is 1.                                                        *)
EXTENDS TripletMap, FiniteSets, SequencesExt, FiniteSetsExt

CONSTANTS HostCells,    \* admissible cell averages of the LES solution
          Supports,     \* offsets of the three support cells from the owner
          Nsub,         \* pelec.odt_subsegments_per_host_cell
          Halvings,     \* halvings of alpha before it falls below alpha_min
          Crossings,    \* momenta crossing the faces of a line in a diffusion
          Speeds,       \* speeds at which a line's energy is looked at
          MaxEvents,    \* bound: diffusions and eddies of a line's life
          MaxCalls      \* bound: reconciliations

ASSUME NsubAssumption == Nsub \in Nat /\ Nsub >= 3 /\ Nsub % 2 = 1

ASSUME BoundsAssumption == {Halvings, MaxEvents, MaxCalls} \subseteq Nat

ASSUME SpeedsAssumption == Speeds \subseteq Nat

(* Every face of a line lies between two segments; its ends let nothing pass.  *)
ASSUME CrossingsAssumption == Crossings \subseteq [0 .. 3 * Nsub - 2 -> Int]

(* Inside the domain, and at either end of it. *)
ASSUME SupportsAssumption == Supports \subseteq {<<-1, 0, 1>>, <<0, 1, 2>>, <<-2, -1, 0>>}

VARIABLES offsets,      \* offsets of the support cells, in the order of the line
          target,       \* the owner's average in the LES solution
          line,         \* states of the segments 0, 1, ..., empty before the start
          unit,         \* the denominator of the line's values
          since,        \* the kinds of events since the line was last prepared
          failed,       \* a diffusion has aborted the program
          reserve,      \* history: the speeds the line could afford when prepared
          events, calls \* counters of the bounds

vars == <<offsets, target, line, unit, since, failed, reserve, events, calls>>

Components == 1..4

-----------------------------------------------------------------------------
(* ODTLineGeometry::define *)

Segments == 0..(Len(offsets) * Nsub - 1)

relative_offset(i) == offsets[(i \div Nsub) + 1]

(* The centre of a segment, in segment widths from the owner's centre. *)
s_center(i) == Nsub * relative_offset(i) + (i % Nsub) - ((Nsub - 1) \div 2)

(* The segments that ownerIntervalOverlapWeights gives a weight, 1/Nsub each. *)
OwnerSegments == {i \in Segments : relative_offset(i) = 0}

(* A sum over the segments, taken in their order. *)
sumSegments(f) ==
    LET sum[i \in 0..(Len(offsets) * Nsub)] == IF i = 0 THEN 0 ELSE sum[i - 1] + f[i - 1]
    IN  sum[Len(offsets) * Nsub]

sumOwner(f) == sumSegments([i \in Segments |-> IF relative_offset(i) = 0 THEN f[i] ELSE 0])
sumSide(f) == sumSegments([i \in Segments |-> IF relative_offset(i) = 0 THEN 0 ELSE f[i]])

-----------------------------------------------------------------------------
(* Admissibility *)

(* recoverCellThermoState finds a temperature; floors are zero.  Twice density *)
(* times internal energy is compared.  A negative partial density is clipped;  *)
(* that some other one is positive is taken for granted.                       *)
recoverable(q) == q[1] > 0 /\ 2 * q[1] * q[3] > q[2] * q[2]

(* isAdmissible asks for the partial densities too. *)
isAdmissible(q) == recoverable(q) /\ q[4] >= 0

(* No segment is faster than s, and each could afford that speed.              *)
CanAfford(f, s) ==
    \A i \in DOMAIN f :
        /\ f[i][1] > 0
        /\ f[i][2] <= s * f[i][1] /\ - f[i][2] <= s * f[i][1]
        /\ 2 * f[i][3] > s * s * f[i][1]

affordable(f) == {s \in Speeds : CanAfford(f, s)}

ASSUME HostCellsAssumption ==
    HostCells \subseteq [Components -> Int] /\ \A q \in HostCells : isAdmissible(q)

-----------------------------------------------------------------------------
(* initializeLineStateFromLESSupportAverages *)

abs(x) == IF x < 0 THEN -x ELSE x

clamp(x, lo, hi) == IF x < lo THEN lo ELSE IF x > hi THEN hi ELSE x

(* Twice computeLimitedSlope over a host cell: the central slope, or where it  *)
(* vanishes between unequal neighbours the steeper side.                       *)
computeLimitedSlope(ql, qc, qr) ==
    IF qr # ql THEN qr - ql
    ELSE 2 * (IF abs(qr - qc) >= abs(qc - ql) THEN qr - qc ELSE qc - ql)

(* The slope per segment fitted to a one-sided support by least squares, or    *)
(* the steepest segment's where the sum of products vanishes, as a numerator   *)
(* and a denominator; side maps segments to values less the owner's.           *)
OneSidedSlope(side) ==
    LET sum_s_dq == sumSide([i \in DOMAIN side |-> s_center(i) * side[i]])
        sum_s2   == sumSide([i \in DOMAIN side |-> s_center(i) * s_center(i)])
        steepest == CHOOSE i \in DOMAIN side : \A j \in DOMAIN side :
                        abs(side[i] * s_center(j)) >= abs(side[j] * s_center(i))
    IN  IF sum_s_dq # 0 THEN <<sum_s_dq, sum_s2>>
        ELSE <<side[steepest] * s_center(steepest), s_center(steepest) * s_center(steepest)>>

(* The slope per segment of one component, from its values at the offsets. *)
slopes(at) ==
    IF {-1, 1} \subseteq DOMAIN at
    THEN <<computeLimitedSlope(at[-1], at[0], at[1]), 2 * Nsub>>
    ELSE OneSidedSlope([i \in Segments \ OwnerSegments |-> at[relative_offset(i)] - at[0]])

(* A common denominator of the values reconstructed on this line (Nsub = 3). *)
InitialUnit ==
    IF {-1, 1} \subseteq ToSet(offsets) THEN 2 * Nsub
    ELSE sumSide([i \in Segments |-> s_center(i) * s_center(i)])

(* One component of the segments: the owner's average inside the owner, and a  *)
(* straight line through it outside, kept between the averages of the support. *)
Reconstructed(at) ==
    LET slope == slopes(at)
        qmin == Min(Range(at)) * InitialUnit
        qmax == Max(Range(at)) * InitialUnit
        q0 == at[0] * InitialUnit
    IN  [i \in Segments |->
            IF i \in OwnerSegments THEN q0
            ELSE clamp(q0 + ((InitialUnit * slope[1] * s_center(i)) \div slope[2]), qmin, qmax)]

-----------------------------------------------------------------------------
(* reconcileExistingLineStateToOwnerAverage *)

(* The mean over the owner, times Nsub. *)
ownerMean(f) == [n \in Components |-> sumOwner([i \in Segments |-> f[i][n]])]

(* Mutant of make_trial: the deviations are taken from the new average. *)
FromTheTarget(average, k) ==
    [i \in Segments |-> [n \in Components |->
        average[n] * unit * Nsub * (2^k - 1) + Nsub * line[i][n]]]

(* make_trial with alpha = 1/2^k: the average plus the scaled deviations from  *)
(* the old mean, over the denominator unit * Nsub * 2^k.  The mean of the      *)
(* owner's deviations, which the code subtracts again, is zero but for rounding.*)
make_trial(average, k) ==
    LET mean == ownerMean(line)
    IN  [i \in Segments |-> [n \in Components |->
            average[n] * unit * Nsub * 2^k + Nsub * line[i][n] - mean[n]]]

(* alpha = 0: every segment takes the average. *)
flattened(average) == [i \in Segments |-> [n \in Components |-> average[n] * unit]]

AllAdmissible(f) == \A i \in DOMAIN f : isAdmissible(f[i])

(* The halvings of alpha that leave every segment admissible. *)
accepted(average) == {k \in 0..Halvings : AllAdmissible(make_trial(average, k))}

-----------------------------------------------------------------------------
(* applyImplicitUniform on a momentum component.  A row of the system says     *)
(* that a segment gains what crosses its faces, and that what crosses a face   *)
(* is a coefficient, never negative, times the difference of the velocities    *)
(* the step ends with (LineTransport has the matrix).  The coefficients follow *)
(* the viscosities of the segments and are left open.                          *)

Faces == 0 .. (Len(offsets) * Nsub - 2)

crossing(F, f) == IF f \in Faces THEN F[f] ELSE 0

(* The line after F[f] has crossed from segment f to segment f + 1; energy and *)
(* densities are not diffused.                                                 *)
exchanged(F) ==
    [i \in Segments |-> [line[i] EXCEPT ![2] = @ + crossing(F, i - 1) - crossing(F, i)]]

faster(q, r) == q[2] * r[1] > r[2] * q[1]

(* Mutant of followsVelocity: the momentum itself is diffused.                 *)
followsMomentum(F, f) ==
    \A i \in Faces :
        /\ F[i] > 0 => f[i][2] > f[i + 1][2]
        /\ F[i] < 0 => f[i + 1][2] > f[i][2]

followsVelocity(F, f) ==
    \A i \in Faces :
        /\ F[i] > 0 => faster(f[i], f[i + 1])
        /\ F[i] < 0 => faster(f[i + 1], f[i])

-----------------------------------------------------------------------------
(* Actions *)

Init ==
    /\ offsets \in Supports
    /\ target \in HostCells
    /\ line = <<>>
    /\ unit = 1
    /\ since = {} /\ failed = FALSE /\ reserve = {}
    /\ events = 0 /\ calls = 0

(* A line is begun from the averages of its support; host maps offsets to them. *)
initializeLineState ==
    /\ line = <<>>
    /\ \E host \in [ToSet(offsets) -> HostCells] :
         /\ host[0] = target
         /\ LET q == [n \in Components |-> Reconstructed([o \in DOMAIN host |-> host[o][n]])]
            IN  line' = [i \in Segments |-> [n \in Components |-> q[n][i]]]
    /\ unit' = InitialUnit
    /\ reserve' = affordable(line')
    /\ UNCHANGED <<offsets, target, since, failed, events, calls>>

running == line # <<>> /\ ~ failed

(* The stepper lets the line diffuse: over the time to the next event, or what *)
(* is left of the host's step.  It first recovers a temperature, and from it   *)
(* the viscosity, in every segment; if it cannot, the program aborts.          *)
diffuse ==
    /\ running /\ events < MaxEvents
    /\ IF \A i \in Segments : recoverable(line[i])
       THEN /\ \E F \in Crossings :
                 followsVelocity(F, exchanged(F)) /\ line' = exchanged(F)
            /\ since' = since \cup {"diffusion"}
            /\ UNCHANGED failed
       ELSE failed' = TRUE /\ UNCHANGED <<line, since>>
    /\ events' = events + 1
    /\ UNCHANGED <<offsets, target, unit, reserve, calls>>

(* The stepper accepts an eddy. *)
applyPermutation ==
    /\ running /\ events < MaxEvents
    /\ \E iv \in Proposals(Cardinality(Segments), 3) : line' = ApplyPermutation(line, iv)
    /\ since' = since \cup {"eddy"}
    /\ events' = events + 1
    /\ UNCHANGED <<offsets, target, unit, failed, reserve, calls>>

(* The next call of the manager: the host has advanced the owner's average,    *)
(* and alpha is halved until every segment is admissible, or becomes zero.     *)
reconcile ==
    /\ running /\ calls < MaxCalls
    /\ target' \in HostCells
    /\ IF accepted(target') # {}
       THEN LET k == Min(accepted(target'))
            IN  line' = make_trial(target', k) /\ unit' = unit * Nsub * 2^k
       ELSE line' = flattened(target') /\ UNCHANGED unit
    /\ since' = {}
    /\ reserve' = affordable(line')
    /\ calls' = calls + 1
    /\ UNCHANGED <<offsets, failed, events>>

Next == initializeLineState \/ diffuse \/ applyPermutation \/ reconcile

Spec == Init /\ [][Next]_vars

-----------------------------------------------------------------------------
(* Properties *)

(* Whatever eddies and diffusion carried across the ends of the owner's cell,  *)
(* the line has exactly the average of the LES cell when it is used next: for  *)
(* every alpha the search may end with, and for one-sided supports.            *)
OwnerMeanIsLes ==
    line # <<>> /\ since = {} =>
        \A n \in Components : ownerMean(line)[n] = target[n] * unit * Nsub

(* Diffusion moves momentum but no energy, so it can take a segment's internal *)
(* energy away and abort the program when it next looks for a temperature.     *)
(* That needs a diffusion since the last reconciliation, which leaves no such  *)
(* segment for any eddies to move; or a line that was just begun, whose        *)
(* reconstruction limits every component by itself.  And it needs a segment    *)
(* that could not afford the greatest speed on the line when the line was      *)
(* prepared: no sequence of diffusions and eddies accelerates one further.     *)
RecoveryFailsLate ==
    failed => /\ calls > 0 => "diffusion" \in since
              /\ reserve = {}
=============================================================================

-------------------------- MODULE OdtStepperProofs --------------------------
(* Proofs about the triplet map and the subcycling of an ODT line, for lines,  *)
(* steps and budgets of every size.                                            *)
EXTENDS OdtStepper, TLAPS

-----------------------------------------------------------------------------
(* The triplet map *)

(* Where cell k of the old interval goes: the inverse of MappedSource. *)
MappedTarget(k, n) ==
    LET m == n \div 3
    IN  CASE k % 3 = 0 -> k \div 3
          [] k % 3 = 1 -> m + (m - 1 - k \div 3)
          [] OTHER     -> 2 * m + k \div 3

(* Every cell of an interval of 3m cells is the source of exactly one cell: no *)
(* parcel is lost or doubled by mappedSourceLocalIndex.                        *)
THEOREM SourceIsBijective ==
    ASSUME NEW m \in Nat, m > 0
    PROVE  /\ \A j \in 0..3*m-1 : MappedSource(j, 3*m) \in 0..3*m-1
           /\ \A j, k \in 0..3*m-1 :
                MappedSource(j, 3*m) = MappedSource(k, 3*m) => j = k
           /\ \A k \in 0..3*m-1 :
                /\ MappedTarget(k, 3*m) \in 0..3*m-1
                /\ MappedSource(MappedTarget(k, 3*m), 3*m) = k
<1>1. (3 * m) \div 3 = m
  OBVIOUS
<1>2. ASSUME NEW j \in 0..3*m-1
      PROVE  MappedSource(j, 3*m) =
               IF j < m THEN 3 * j
               ELSE IF j < 2 * m THEN 3 * (m - 1 - (j - m)) + 1
               ELSE 3 * (j - 2 * m) + 2
  BY <1>1 DEF MappedSource
<1>3. \A j \in 0..3*m-1 : MappedSource(j, 3*m) \in 0..3*m-1
  BY <1>2
<1>4. \A j, k \in 0..3*m-1 : MappedSource(j, 3*m) = MappedSource(k, 3*m) => j = k
  BY <1>2
<1>5. ASSUME NEW k \in 0..3*m-1
      PROVE  /\ MappedTarget(k, 3*m) \in 0..3*m-1
             /\ MappedSource(MappedTarget(k, 3*m), 3*m) = k
  <2>1. PICK q \in 0..m-1, r \in 0..2 : k = 3 * q + r
    <3>1. \A x \in Int : 3 * (x \div 3) <= x /\ x < 3 * (x \div 3) + 3
      BY SMT
    <3>2. \A x \in Int : x \div 3 \in Int
      BY SMT
    <3>3. k \div 3 \in 0..m-1 /\ k - 3 * (k \div 3) \in 0..2
      BY <3>1, <3>2
    <3> QED BY <3>3
  <2>2. k \div 3 = q /\ k % 3 = r
    BY <2>1
  <2>3. MappedTarget(k, 3*m) =
          IF r = 0 THEN q ELSE IF r = 1 THEN m + (m - 1 - q) ELSE 2 * m + q
    BY <1>1, <2>2 DEF MappedTarget
  <2>4. MappedTarget(k, 3*m) \in 0..3*m-1
    BY <2>3
  <2> QED BY <1>2, <2>1, <2>3, <2>4
<1> QED BY <1>3, <1>4, <1>5

(* Every interval the sampler draws passes canApplyPermutation, so the         *)
(* branches of the stepper for an incompatible interval are not reached.       *)
LEMMA ProposalsCompatible ==
    ASSUME NEW n \in Nat, NEW minSize \in Int, NEW iv \in Proposals(n, minSize)
    PROVE  CanApply(n, iv) /\ iv.lo \in 0..n-1 /\ iv.hi \in 0..n-1
BY DEF Proposals, CanApply, ValidInterval, IntervalSize

(* The cell of the line that an eddy moves into cell i. *)
Source(iv, i) ==
    IF i \in iv.lo..iv.hi
    THEN iv.lo + MappedSource(i - iv.lo, IntervalSize(iv))
    ELSE i

(* The cell an eddy moves the parcel of cell k into. *)
Target(iv, k) ==
    IF k \in iv.lo..iv.hi
    THEN iv.lo + MappedTarget(k - iv.lo, IntervalSize(iv))
    ELSE k

(* An eddy permutes the cells of its interval and leaves the others alone.     *)
LEMMA EddyPermutes ==
    ASSUME NEW n \in Nat, NEW iv \in [lo : 0..n-1, hi : 0..n-1], CanApply(n, iv)
    PROVE  /\ \A i \in 0..n-1 : Source(iv, i) \in 0..n-1
           /\ \A i \in iv.lo..iv.hi : Source(iv, i) \in iv.lo..iv.hi
           /\ \A i, j \in 0..n-1 : Source(iv, i) = Source(iv, j) => i = j
           /\ \A k \in 0..n-1 : /\ Target(iv, k) \in 0..n-1
                               /\ Source(iv, Target(iv, k)) = k
           /\ \A k \in iv.lo..iv.hi : Target(iv, k) \in iv.lo..iv.hi
<1> DEFINE size == IntervalSize(iv)
<1>1. /\ iv.lo \in Nat /\ iv.hi \in Nat /\ iv.lo <= iv.hi /\ iv.hi < n
      /\ size = iv.hi - iv.lo + 1 /\ size >= 3
  BY DEF CanApply, ValidInterval, IntervalSize
<1>2. PICK m \in Nat : m > 0 /\ size = 3 * m
  <2>1. size % 3 = 0
    BY DEF CanApply
  <2>2. \A x \in Int : x \div 3 \in Int /\ x % 3 = x - 3 * (x \div 3)
    BY SMT
  <2>3. size \in Int
    BY <1>1
  <2>4. size \div 3 \in Int /\ size = 3 * (size \div 3)
    BY <2>1, <2>2, <2>3
  <2>5. size \div 3 \in Nat /\ size \div 3 > 0
    BY <2>3, <2>4, <1>1
  <2> QED BY <2>4, <2>5
<1> HIDE DEF size
<1>3. \A j \in 0..size-1 : MappedSource(j, size) \in 0..size-1
  BY <1>2, SourceIsBijective
<1>4. \A j, k \in 0..size-1 : MappedSource(j, size) = MappedSource(k, size) => j = k
  BY <1>2, SourceIsBijective
<1>5. \A k \in 0..size-1 : /\ MappedTarget(k, size) \in 0..size-1
                          /\ MappedSource(MappedTarget(k, size), size) = k
  BY <1>2, SourceIsBijective
<1>6. \A i : Source(iv, i) = IF i \in iv.lo..iv.hi
                            THEN iv.lo + MappedSource(i - iv.lo, size) ELSE i
  BY DEF Source, size
<1>7. \A k : Target(iv, k) = IF k \in iv.lo..iv.hi
                            THEN iv.lo + MappedTarget(k - iv.lo, size) ELSE k
  BY DEF Target, size
<1>8. \A i \in iv.lo..iv.hi : i - iv.lo \in 0..size-1
  BY <1>1
<1>9. \A i \in iv.lo..iv.hi : Source(iv, i) \in iv.lo..iv.hi
  BY <1>1, <1>3, <1>6, <1>8
<1>10. \A k \in iv.lo..iv.hi : Target(iv, k) \in iv.lo..iv.hi
  BY <1>1, <1>5, <1>7, <1>8
<1>11. \A i \in 0..n-1 : Source(iv, i) \in 0..n-1
  BY <1>1, <1>6, <1>9
<1>12. ASSUME NEW i \in 0..n-1, NEW j \in 0..n-1, Source(iv, i) = Source(iv, j)
       PROVE  i = j
  <2>1. CASE i \in iv.lo..iv.hi /\ j \in iv.lo..iv.hi
    <3>1. MappedSource(i - iv.lo, size) \in Int /\ MappedSource(j - iv.lo, size) \in Int
      BY <2>1, <1>3, <1>8
    <3>2. iv.lo + MappedSource(i - iv.lo, size) = iv.lo + MappedSource(j - iv.lo, size)
      BY <2>1, <1>6, <1>12
    <3>3. MappedSource(i - iv.lo, size) = MappedSource(j - iv.lo, size)
      BY <3>1, <3>2, <1>1
    <3>4. i - iv.lo = j - iv.lo
      BY <3>3, <2>1, <1>4, <1>8
    <3> QED BY <3>4, <1>1
  <2>2. CASE i \notin iv.lo..iv.hi /\ j \notin iv.lo..iv.hi
    BY <2>2, <1>6, <1>12
  <2>3. CASE i \in iv.lo..iv.hi /\ j \notin iv.lo..iv.hi
    BY <2>3, <1>6, <1>9, <1>12
  <2>4. CASE i \notin iv.lo..iv.hi /\ j \in iv.lo..iv.hi
    BY <2>4, <1>6, <1>9, <1>12
  <2> QED BY <2>1, <2>2, <2>3, <2>4
<1>13. ASSUME NEW k \in 0..n-1
       PROVE  Target(iv, k) \in 0..n-1 /\ Source(iv, Target(iv, k)) = k
  <2>1. CASE k \in iv.lo..iv.hi
    <3>1. Target(iv, k) \in iv.lo..iv.hi
      BY <2>1, <1>10
    <3>2. Target(iv, k) = iv.lo + MappedTarget(k - iv.lo, size)
      BY <2>1, <1>7
    <3>3. MappedTarget(k - iv.lo, size) \in Int
      BY <2>1, <1>5, <1>8
    <3>4. Target(iv, k) - iv.lo = MappedTarget(k - iv.lo, size)
      BY <3>2, <3>3, <1>1
    <3>5. Source(iv, Target(iv, k)) = iv.lo + MappedSource(MappedTarget(k - iv.lo, size), size)
      BY <3>1, <3>4, <1>6
    <3>6. Source(iv, Target(iv, k)) = iv.lo + (k - iv.lo)
      BY <3>5, <2>1, <1>5, <1>8
    <3> QED BY <3>1, <3>6, <1>1
  <2>2. CASE k \notin iv.lo..iv.hi
    BY <2>2, <1>6, <1>7
  <2> QED BY <2>1, <2>2
<1> QED BY <1>9, <1>10, <1>11, <1>12, <1>13

(* A line that holds every parcel once. *)
Complete(ln, n) ==
    /\ ln \in [0..n-1 -> 0..n-1]
    /\ \A i, k \in 0..n-1 : ln[i] = ln[k] => i = k
    /\ \A parcel \in 0..n-1 : \E i \in 0..n-1 : ln[i] = parcel

(* The parcels of an interval changed places, and the others did not move. *)
Rearranged(new, old, n, iv) ==
    /\ \A i \in 0..n-1 \ (iv.lo..iv.hi) : new[i] = old[i]
    /\ {new[i] : i \in iv.lo..iv.hi} = {old[i] : i \in iv.lo..iv.hi}

LEMMA EddyKeepsParcels ==
    ASSUME NEW n \in Nat, NEW iv \in [lo : 0..n-1, hi : 0..n-1], CanApply(n, iv),
           NEW ln, Complete(ln, n)
    PROVE  /\ Complete(ApplyPermutation(ln, iv), n)
           /\ Rearranged(ApplyPermutation(ln, iv), ln, n, iv)
<1> DEFINE new == ApplyPermutation(ln, iv)
<1>1. DOMAIN ln = 0..n-1 /\ \A i \in 0..n-1 : ln[i] \in 0..n-1
  BY DEF Complete
<1>2. new = [i \in 0..n-1 |-> ln[Source(iv, i)]]
  <2>1. \A i \in 0..n-1 : (IF i \in iv.lo..iv.hi
                           THEN ln[iv.lo + MappedSource(i - iv.lo, IntervalSize(iv))]
                           ELSE ln[i]) = ln[Source(iv, i)]
    BY Zenon DEF Source
  <2> QED BY <1>1, <2>1 DEF ApplyPermutation
<1> HIDE DEF new
<1>3. \A i \in 0..n-1 : Source(iv, i) \in 0..n-1
  BY EddyPermutes
<1>4. \A i, j \in 0..n-1 : Source(iv, i) = Source(iv, j) => i = j
  BY EddyPermutes
<1>5. \A k \in 0..n-1 : Target(iv, k) \in 0..n-1 /\ Source(iv, Target(iv, k)) = k
  BY EddyPermutes
<1>6. new \in [0..n-1 -> 0..n-1]
  BY <1>1, <1>2, <1>3
<1>7. \A i \in 0..n-1 : new[i] = ln[Source(iv, i)]
  BY <1>2
<1>8. ASSUME NEW i \in 0..n-1, NEW k \in 0..n-1, new[i] = new[k]
      PROVE  i = k
  <2>1. ln[Source(iv, i)] = ln[Source(iv, k)]
    BY <1>7, <1>8
  <2>2. Source(iv, i) = Source(iv, k)
    BY <2>1, <1>3 DEF Complete
  <2> QED BY <2>2, <1>4
<1>9. ASSUME NEW parcel \in 0..n-1
      PROVE  \E i \in 0..n-1 : new[i] = parcel
  <2>1. PICK k \in 0..n-1 : ln[k] = parcel
    BY DEF Complete
  <2>2. new[Target(iv, k)] = parcel /\ Target(iv, k) \in 0..n-1
    BY <2>1, <1>5, <1>7
  <2> QED BY <2>2
<1>10. Complete(new, n)
  BY <1>6, <1>8, <1>9 DEF Complete
<1>11. \A i \in 0..n-1 \ (iv.lo..iv.hi) : new[i] = ln[i]
  BY <1>7 DEF Source
<1>12. \A i \in iv.lo..iv.hi : i \in 0..n-1
  <2>1. iv.lo \in 0..n-1 /\ iv.hi \in 0..n-1
    OBVIOUS
  <2> QED BY <2>1
<1>13. \A i \in iv.lo..iv.hi : /\ Source(iv, i) \in iv.lo..iv.hi
                             /\ Target(iv, i) \in iv.lo..iv.hi
  BY EddyPermutes
<1>14. ASSUME NEW i \in iv.lo..iv.hi
       PROVE  \E j \in iv.lo..iv.hi : new[i] = ln[j]
  BY <1>7, <1>12, <1>13
<1>15. ASSUME NEW i \in iv.lo..iv.hi
       PROVE  \E j \in iv.lo..iv.hi : ln[i] = new[j]
  <2>1. i \in 0..n-1 /\ Target(iv, i) \in iv.lo..iv.hi
    BY <1>12, <1>13
  <2>2. new[Target(iv, i)] = ln[Source(iv, Target(iv, i))]
    BY <2>1, <1>7, <1>12
  <2>3. Source(iv, Target(iv, i)) = i
    BY <2>1, <1>5
  <2> QED BY <2>1, <2>2, <2>3
<1>16. {new[i] : i \in iv.lo..iv.hi} = {ln[i] : i \in iv.lo..iv.hi}
  BY <1>14, <1>15
<1> QED BY <1>10, <1>11, <1>16, Zenon DEF new, Rearranged

-----------------------------------------------------------------------------
(* The subcycling *)

(* While the loop runs no catch-up has been made, and the time left is more    *)
(* than the tolerance unless the step never was.                               *)
LoopInv ==
    /\ pc = "loop" => /\ ~report.catchup
                      /\ t < call.dt - Tol \/ call.dt <= Tol
    /\ pc = "closing" => report.catchup

LineInv == Complete(line, call.cells)

IInv == TypeOK /\ TimeLedger /\ LineInv /\ BudgetGoesToEvents /\ LastPieceDiffuses /\ LoopInv

(* The counters stay counters. *)
LEMMA ReportType ==
    ASSUME NEW r \in StepReport, NEW x \in Nat
    PROVE  /\ [r EXCEPT !.substeps = x, !.catchup = TRUE] \in StepReport
           /\ [r EXCEPT !.substeps = x] \in StepReport
BY DEF StepReport

LEMMA CallType ==
    ASSUME TypeOK
    PROVE  /\ call.dt \in Nat /\ call.cells \in Nat /\ call.cells > 0
           /\ call.rate \in BOOLEAN /\ iter \in Nat /\ t \in Nat /\ MaxIter \in Nat
           /\ report.attempted \in Nat /\ report.applied \in Nat
           /\ report.rejected \in Nat /\ report.substeps \in Nat
           /\ report.catchup \in BOOLEAN /\ Tol \in Nat
           /\ Remaining \in Int /\ Remaining = call.dt - t
<1>1. call \in [dt : Steps, cells : Sizes, rate : BOOLEAN]
  BY DEF TypeOK
<1>2. call.dt \in Steps /\ call.cells \in Sizes /\ call.rate \in BOOLEAN
  BY <1>1
<1>3. call.dt \in Nat /\ call.cells \in Nat /\ call.cells > 0 /\ MaxIter \in Nat /\ Tol \in Nat
  <2>1. call.dt \in Nat
    BY <1>2, StepsAssumption
  <2>2. call.cells \in Nat \ {0}
    BY <1>2, SizesAssumption
  <2>3. MaxIter \in Nat /\ Tol \in Nat
    BY MaxIterAssumption, TolAssumption
  <2> QED BY <2>1, <2>2, <2>3
<1>4. iter \in Nat /\ t \in Nat
  BY <1>3 DEF TypeOK
<1>5. report \in StepReport
  BY DEF TypeOK
<1>6. /\ report.attempted \in Nat /\ report.applied \in Nat
      /\ report.rejected \in Nat /\ report.substeps \in Nat
      /\ report.catchup \in BOOLEAN
  BY <1>5 DEF StepReport
<1>7. Remaining \in Int /\ Remaining = call.dt - t
  BY <1>3, <1>4 DEF Remaining
<1> QED BY <1>2, <1>3, <1>4, <1>6, <1>7

LEMMA InitInv == Init => IInv
<1> SUFFICES ASSUME Init PROVE IInv
  OBVIOUS
<1>1. call.dt \in Nat /\ call.cells \in Nat /\ call.cells > 0
  <2>1. call \in [dt : Steps, cells : Sizes, rate : BOOLEAN]
    BY DEF Init
  <2>2. call.dt \in Steps /\ call.cells \in Sizes
    BY <2>1
  <2>3. call.dt \in Nat
    BY <2>2, StepsAssumption
  <2>4. call.cells \in Nat \ {0}
    BY <2>2, SizesAssumption
  <2> QED BY <2>3, <2>4
<1>2. TypeOK
  BY <1>1, MaxIterAssumption DEF Init, TypeOK, StepReport
<1>3. LineInv
  <2>1. line = [i \in 0..call.cells-1 |-> i]
    BY DEF Init
  <2> QED BY <2>1, <1>1 DEF LineInv, Complete
<1>4. TimeLedger /\ BudgetGoesToEvents /\ LastPieceDiffuses /\ LoopInv
  BY <1>1, TolAssumption DEF Init, TimeLedger, BudgetGoesToEvents, LastPieceDiffuses, LoopInv
<1> QED BY <1>2, <1>3, <1>4 DEF IInv

(* What an event leaves behind, whether or not it was applied. *)
LEMMA WaitedKeeps ==
    ASSUME IInv, Looping, InBudget, NEW wait \in 0..call.dt, EventAfter(wait),
           Waited(wait), NEW applied \in BOOLEAN, report' = Attempted(wait, applied),
           LineInv'
    PROVE  IInv'
<1>1. /\ call.dt \in Nat /\ wait \in Nat /\ t \in Nat /\ Tol \in Nat /\ iter \in Nat
      /\ MaxIter \in Nat /\ wait < call.dt - t - Tol
  BY CallType DEF IInv, EventAfter
<1>2. /\ call' = call /\ pc' = "loop" /\ t' = t + wait /\ iter' = iter + 1
      /\ diffused' = diffused + wait /\ iter < MaxIter /\ pc = "loop"
  BY DEF Waited, Looping, InBudget
<1>3. /\ report.attempted \in Nat /\ report.applied \in Nat
      /\ report.rejected \in Nat /\ report.substeps \in Nat
  BY CallType DEF IInv
<1>4. /\ report' \in StepReport
      /\ report'.attempted = report.attempted + 1
      /\ report'.applied + report'.rejected = report.applied + report.rejected + 1
      /\ report'.catchup = report.catchup
  <2>1. report \in StepReport
    BY DEF IInv, TypeOK
  <2>2. report' = [report EXCEPT !.attempted = @ + 1,
                     !.applied  = @ + (IF applied THEN 1 ELSE 0),
                     !.rejected = @ + (IF applied THEN 0 ELSE 1),
                     !.substeps = @ + (IF wait > 0 THEN 1 ELSE 0)]
    BY DEF Attempted
  <2> DEFINE more == IF applied THEN 1 ELSE 0
             refused == IF applied THEN 0 ELSE 1
             sub == report.substeps + (IF wait > 0 THEN 1 ELSE 0)
  <2>3. more \in Nat /\ refused \in Nat /\ more + refused = 1
    <3>1. CASE applied
      BY <3>1
    <3>2. CASE ~applied
      BY <3>2
    <3> QED BY <3>1, <3>2
  <2>4. sub \in Nat
    BY <1>1, <1>3
  <2>5. report' = [report EXCEPT !.attempted = report.attempted + 1,
                     !.applied  = report.applied + more,
                     !.rejected = report.rejected + refused,
                     !.substeps = sub]
    BY <2>2, Zenon
  <2> HIDE DEF more, refused, sub
  <2>6. report' \in StepReport
    <3>1. /\ report.attempted + 1 \in Nat
          /\ report.applied + more \in Nat
          /\ report.rejected + refused \in Nat
      BY <1>3, <2>3
    <3> DEFINE x == report.attempted + 1
               y == report.applied + more
               z == report.rejected + refused
    <3>2. report' = [report EXCEPT !.attempted = x, !.applied = y, !.rejected = z,
                                   !.substeps = sub]
      BY <2>5, Zenon
    <3>3. x \in Nat /\ y \in Nat /\ z \in Nat
      BY <3>1, Zenon
    <3> HIDE DEF x, y, z
    <3>4. [report EXCEPT !.attempted = x, !.applied = y, !.rejected = z,
                         !.substeps = sub] \in StepReport
      BY <3>3, <2>1, <2>4 DEF StepReport
    <3> QED BY <3>2, <3>4, Zenon
  <2>7. /\ report'.attempted = report.attempted + 1
        /\ report'.applied = report.applied + more
        /\ report'.rejected = report.rejected + refused
        /\ report'.catchup = report.catchup
    BY <2>1, <2>5 DEF StepReport
  <2>8. report'.applied + report'.rejected = report.applied + report.rejected + 1
    BY <1>3, <2>3, <2>7
  <2> QED BY <2>6, <2>7, <2>8
<1>5. TypeOK'
  <2>1. t' \in 0..call'.dt /\ iter' \in 0..MaxIter /\ pc' = "loop"
    BY <1>1, <1>2
  <2>2. diffused' \in Nat /\ call' \in [dt : Steps, cells : Sizes, rate : BOOLEAN]
    BY <1>1, <1>2 DEF IInv, TypeOK
  <2>3. line' \in [0..call'.cells-1 -> 0..call'.cells-1]
    BY DEF LineInv, Complete
  <2> QED BY <2>1, <2>2, <2>3, <1>4 DEF TypeOK
<1>6. TimeLedger'
  BY <1>1, <1>2 DEF TimeLedger, IInv
<1>7. BudgetGoesToEvents'
  BY <1>2, <1>3, <1>4, <1>1 DEF BudgetGoesToEvents, IInv
<1>8. LastPieceDiffuses' /\ LoopInv'
  BY <1>1, <1>2, <1>4 DEF LastPieceDiffuses, LoopInv, IInv
<1> QED BY <1>5, <1>6, <1>7, <1>8 DEF IInv

(* What closing the step leaves behind. *)
LEMMA CatchupKeeps ==
    ASSUME IInv, Looping, InBudget, NEW waited \in Nat, NEW rest \in Nat,
           waited + rest = Remaining, Catchup(waited, rest)
    PROVE  IInv'
<1>1. /\ call.dt \in Nat /\ t \in Nat /\ Tol \in Nat /\ iter \in Nat
      /\ MaxIter \in Nat /\ waited + rest = call.dt - t
  BY CallType DEF IInv
<1>2. /\ call' = call /\ line' = line /\ pc' = "closing" /\ t' = call.dt
      /\ iter' = iter + 1 /\ diffused' = diffused + waited + rest
      /\ iter < MaxIter /\ pc = "loop"
  BY DEF Catchup, Looping, InBudget
<1>3. /\ report' \in StepReport
      /\ report'.attempted = report.attempted
      /\ report'.applied = report.applied /\ report'.rejected = report.rejected
      /\ report'.catchup
  <2>1. report \in StepReport
    BY DEF IInv, TypeOK
  <2>2. report' = [report EXCEPT
                     !.substeps = @ + (IF waited > 0 THEN 2 ELSE 1),
                     !.catchup = TRUE]
    BY DEF Catchup
  <2> DEFINE sub == report.substeps + (IF waited > 0 THEN 2 ELSE 1)
  <2>3. sub \in Nat
    BY CallType DEF IInv
  <2>4. report' = [report EXCEPT !.substeps = sub, !.catchup = TRUE]
    BY <2>2, Zenon
  <2> HIDE DEF sub
  <2>5. report' \in StepReport
    BY <2>1, <2>3, <2>4, ReportType
  <2> QED BY <2>1, <2>4, <2>5 DEF StepReport
<1>4. diffused' = call.dt
  <2>1. diffused = t
    BY DEF IInv, TimeLedger
  <2> QED BY <2>1, <1>1, <1>2
<1>5. TimeLedger'
  BY <1>1, <1>2, <1>4 DEF TimeLedger
<1>8. TypeOK'
  <2>1. t' \in 0..call'.dt /\ iter' \in 0..MaxIter /\ diffused' \in Nat
    BY <1>1, <1>2, <1>4
  <2> QED BY <2>1, <1>2, <1>3 DEF TypeOK, IInv
<1>6. BudgetGoesToEvents'
  BY <1>1, <1>2, <1>3, CallType DEF BudgetGoesToEvents, IInv, LoopInv
<1>7. LastPieceDiffuses' /\ LoopInv' /\ LineInv'
  BY <1>2, <1>3 DEF LastPieceDiffuses, LoopInv, LineInv, IInv
<1> QED BY <1>5, <1>6, <1>7, <1>8 DEF IInv

LEMMA NextInv == IInv /\ [Next]_vars => IInv'
<1> SUFFICES ASSUME IInv, [Next]_vars PROVE IInv'
  OBVIOUS
<1> USE CallType DEF IInv
<1>1. CASE ExceedIterations
  BY <1>1 DEF ExceedIterations, TypeOK, TimeLedger, LineInv, BudgetGoesToEvents,
     LastPieceDiffuses, LoopInv, InBudget, Looping
<1>2. CASE CloseByWaiting
  <2>1. Looping /\ InBudget /\ Catchup(0, Remaining)
    BY <1>2 DEF CloseByWaiting
  <2>2. Remaining \in Nat /\ 0 + Remaining = Remaining
    BY <2>1 DEF Looping
  <2> QED BY <2>1, <2>2, CatchupKeeps
<1>3. CASE Event
  <2>1. PICK wait \in 0..call.dt :
          /\ EventAfter(wait)
          /\ NoProposal(wait) \/ Reject(wait) \/ Apply(wait)
    BY <1>3 DEF Event
  <2>2. Looping /\ InBudget
    BY <1>3 DEF Event
  <2>3. CASE NoProposal(wait)
    <3>1. Catchup(wait, Remaining - wait)
      BY <2>3 DEF NoProposal
    <3>2. wait \in Nat /\ Remaining - wait \in Nat /\ wait + (Remaining - wait) = Remaining
      <4>1. wait < Remaining - Tol
        BY <2>1 DEF EventAfter
      <4>2. call.dt \in Nat /\ Remaining \in Int /\ Tol \in Nat
        OBVIOUS
      <4> QED BY <4>1, <4>2
    <3> QED BY <3>1, <3>2, <2>2, CatchupKeeps
  <2>4. CASE Reject(wait)
    <3>1. LineInv'
      BY <2>4 DEF Reject, Waited, LineInv
    <3>2. EventAfter(wait) /\ Waited(wait) /\ report' = Attempted(wait, FALSE)
      BY <2>1, <2>4 DEF Reject
    <3>3. IInv
      OBVIOUS
    <3> HIDE DEF IInv
    <3> QED BY <3>1, <3>2, <3>3, <2>2, WaitedKeeps, Zenon
  <2>5. CASE Apply(wait)
    <3>1. PICK iv \in Proposals(call.cells, MinSize) :
            /\ Waited(wait)
            /\ report' = Attempted(wait, TRUE)
            /\ line' = ApplyPermutation(line, iv)
      BY <2>5 DEF Apply
    <3>2. CanApply(call.cells, iv) /\ iv \in [lo : 0..call.cells-1, hi : 0..call.cells-1]
      BY ProposalsCompatible, MinSizeAssumption DEF Proposals
    <3>3. Complete(line', call.cells)
      BY <3>1, <3>2, EddyKeepsParcels DEF LineInv
    <3>4. LineInv'
      BY <3>1, <3>3 DEF LineInv, Waited
    <3>5. IInv
      OBVIOUS
    <3> HIDE DEF IInv
    <3> QED BY <3>1, <3>4, <3>5, <2>1, <2>2, WaitedKeeps, Zenon
  <2> QED BY <2>1, <2>3, <2>4, <2>5
<1>4. CASE Finish
  <2>1. /\ call' = call /\ line' = line /\ iter' = iter /\ pc' = "done" /\ t' = call.dt
        /\ diffused' = diffused + Remaining /\ pc \in {"loop", "closing"}
        /\ ~(pc = "loop" /\ t < call.dt - Tol)
    BY <1>4 DEF Finish
  <2>2. Remaining \in Nat
    BY DEF TimeLedger
  <2>3. /\ report' \in StepReport
        /\ report'.attempted = report.attempted
        /\ report'.applied = report.applied /\ report'.rejected = report.rejected
        /\ report'.catchup = report.catchup
    <3>1. report \in StepReport
      BY DEF TypeOK
    <3>2. report' = [report EXCEPT !.substeps = @ + (IF Remaining > 0 THEN 1 ELSE 0)]
      BY <1>4 DEF Finish
    <3> DEFINE sub == report.substeps + (IF Remaining > 0 THEN 1 ELSE 0)
    <3>3. sub \in Nat
      BY <2>2
    <3>4. report' = [report EXCEPT !.substeps = sub]
      BY <3>2, Zenon
    <3> HIDE DEF sub
    <3>5. report' \in StepReport
      BY <3>1, <3>3, <3>4, ReportType
    <3> QED BY <3>1, <3>4, <3>5 DEF StepReport
  <2>7. diffused' = call.dt /\ call.dt \in Nat
    BY <2>1 DEF TimeLedger
  <2>4. TypeOK' /\ TimeLedger'
    BY <2>1, <2>7, <2>3 DEF TypeOK, TimeLedger
  <2>5. BudgetGoesToEvents'
    BY <2>1, <2>3 DEF BudgetGoesToEvents
  <2>6. LineInv' /\ LoopInv' /\ LastPieceDiffuses'
    BY <2>1, <2>3 DEF LineInv, LoopInv, LastPieceDiffuses
  <2> QED BY <2>4, <2>5, <2>6
<1>5. CASE UNCHANGED vars
  BY <1>5 DEF vars, TypeOK, TimeLedger, LineInv, BudgetGoesToEvents, LastPieceDiffuses,
     LoopInv
<1> QED BY <1>1, <1>2, <1>3, <1>4, <1>5 DEF Next

LEMMA InvHolds == Spec => []IInv
BY InitInv, NextInv, PTL DEF Spec

(* Type correctness: no counter leaves its range, and internal time stays      *)
(* within the host's step.                                                     *)
THEOREM TypeCorrect == Spec => []TypeOK
<1>1. IInv => TypeOK
  BY DEF IInv
<1> QED BY <1>1, InvHolds, PTL

(* The line diffuses for exactly the time that has passed, and for all of the  *)
(* host's step when advanceOneLESTimestep returns.                             *)
THEOREM StepIsClosedExactly == Spec => []TimeLedger
<1>1. IInv => TimeLedger
  BY DEF IInv
<1> QED BY <1>1, InvHolds, PTL

(* No sequence of eddies loses or doubles a parcel.                            *)
THEOREM EddiesKeepParcels == Spec => []ParcelsKept
<1>1. IInv => ParcelsKept
  BY DEF IInv, LineInv, Complete, ParcelsKept
<1> QED BY <1>1, InvHolds, PTL

(* The budget of iterations is spent on events, and giving up means that       *)
(* MaxIter events were attempted.                                              *)
THEOREM BudgetIsEvents == Spec => []BudgetGoesToEvents
<1>1. IInv => BudgetGoesToEvents
  BY DEF IInv
<1> QED BY <1>1, InvHolds, PTL

(* A step longer than the tolerance ends with diffusion alone.                 *)
THEOREM StepEndsInDiffusion == Spec => []LastPieceDiffuses
<1>1. IInv => LastPieceDiffuses
  BY DEF IInv
<1> QED BY <1>1, InvHolds, PTL

-----------------------------------------------------------------------------
(* The stepper implements the contract *)

LEMMA ContractInit == Init => Contract!Init
<1> SUFFICES ASSUME Init PROVE Contract!Init
  OBVIOUS
<1>1. call.dt \in Steps /\ call.cells \in Sizes
  <2>1. call \in [dt : Steps, cells : Sizes, rate : BOOLEAN]
    BY DEF Init
  <2> QED BY <2>1
<1> QED BY <1>1 DEF Init, Contract!Init

LEMMA ContractStep ==
    ASSUME IInv, IInv', [Next]_vars
    PROVE  [Contract!Next]_(Contract!vars)
<1>1. /\ call.dt \in Nat /\ call.cells \in Nat /\ t \in Nat
      /\ DOMAIN line = 0..call.cells-1
  BY CallType DEF IInv, LineInv, Complete
<1>2. /\ diffused = t /\ t <= call.dt /\ diffused' = t' /\ t' <= call'.dt
  BY DEF IInv, TimeLedger
<1>3. CASE ExceedIterations
  <2>1. pc = "loop" /\ pc' = "aborted" /\ UNCHANGED <<call, line, diffused>>
    BY <1>3 DEF ExceedIterations, Looping
  <2>2. Contract!Abort
    BY <2>1 DEF Contract!Abort
  <2> QED BY <2>2 DEF Contract!Next
<1>4. ASSUME NEW waited \in Nat, NEW rest \in Nat, waited + rest = Remaining,
             Looping, Catchup(waited, rest)
      PROVE  Contract!Next
  <2>1. /\ pc = "loop" /\ pc' = "closing" /\ call' = call /\ line' = line
        /\ diffused' = diffused + waited + rest
    BY <1>4 DEF Catchup, Looping
  <2>2. waited + rest = call.dt - diffused
    BY <1>2, <1>4 DEF Remaining
  <2>3. Contract!Diffuse
    <3>1. waited + rest \in 0..(call.dt - diffused) /\ diffused' = diffused + (waited + rest)
      BY <2>1, <2>2, <1>1, <1>2
    <3> QED BY <3>1 DEF Contract!Diffuse
  <2>4. Contract!Advance
    BY <2>1, <2>3 DEF Contract!Advance
  <2> QED BY <2>4 DEF Contract!Next
<1>5. CASE CloseByWaiting
  <2>1. Looping /\ Catchup(0, Remaining)
    BY <1>5 DEF CloseByWaiting
  <2>2. Remaining \in Nat /\ 0 + Remaining = Remaining
    BY <1>1, <1>2 DEF Remaining
  <2> QED BY <2>1, <2>2, <1>4
<1>6. CASE Event
  <2>1. PICK wait \in 0..call.dt :
          /\ EventAfter(wait)
          /\ NoProposal(wait) \/ Reject(wait) \/ Apply(wait)
    BY <1>6 DEF Event
  <2>2. Looping /\ Remaining = call.dt - t
    BY <1>6 DEF Event, Remaining
  <2>3. wait \in Nat /\ wait <= Remaining
    BY <2>1, <2>2, <1>1, TolAssumption DEF EventAfter
  <2>4. ASSUME Waited(wait), line' = line \/ Contract!Rearrange
        PROVE  Contract!Next
    <3>1. pc = "loop" /\ pc' = "loop" /\ call' = call /\ diffused' = diffused + wait
      BY <2>2, <2>4 DEF Waited, Looping
    <3>2. wait \in 0..(call.dt - diffused)
      BY <2>2, <2>3, <1>1, <1>2
    <3>3. Contract!Diffuse
      BY <3>1, <3>2 DEF Contract!Diffuse
    <3>4. Contract!Advance
      BY <3>1, <3>3, <2>4 DEF Contract!Advance
    <3> QED BY <3>4 DEF Contract!Next
  <2>5. CASE NoProposal(wait)
    <3>1. Catchup(wait, Remaining - wait)
      BY <2>5 DEF NoProposal
    <3>2. Remaining - wait \in Nat /\ wait + (Remaining - wait) = Remaining
      BY <2>2, <2>3, <1>1
    <3> QED BY <3>1, <3>2, <2>2, <2>3, <1>4
  <2>6. CASE Reject(wait)
    BY <2>6, <2>4 DEF Reject
  <2>7. CASE Apply(wait)
    <3>1. PICK iv \in Proposals(call.cells, MinSize) :
            Waited(wait) /\ line' = ApplyPermutation(line, iv)
      BY <2>7 DEF Apply
    <3>2. CanApply(call.cells, iv) /\ iv \in [lo : 0..call.cells-1, hi : 0..call.cells-1]
      BY <1>1, ProposalsCompatible, MinSizeAssumption DEF Proposals
    <3>3. /\ \A i \in 0..call.cells-1 \ (iv.lo..iv.hi) : line'[i] = line[i]
          /\ {line'[i] : i \in iv.lo..iv.hi} = {line[i] : i \in iv.lo..iv.hi}
      <4>1. Complete(line, call.cells)
        BY DEF IInv, LineInv
      <4>2. Rearranged(ApplyPermutation(line, iv), line, call.cells, iv)
        BY <1>1, <3>2, <4>1, EddyKeepsParcels
      <4> QED BY <3>1, <4>2, Zenon DEF Rearranged
    <3>4. iv.lo \in DOMAIN line /\ iv.hi \in DOMAIN line
      BY <1>1, <3>2
    <3>5. {i \in DOMAIN line : iv.lo <= i /\ i <= iv.hi} = iv.lo..iv.hi
      <4>1. iv.lo \in 0..call.cells-1 /\ iv.hi \in 0..call.cells-1
        BY <3>2
      <4> DEFINE here == {i \in DOMAIN line : iv.lo <= i /\ i <= iv.hi}
      <4>2. \A i : i \in here <=> i \in DOMAIN line /\ iv.lo <= i /\ i <= iv.hi
        OBVIOUS
      <4> HIDE DEF here
      <4>3. \A i : i \in here <=> i \in iv.lo..iv.hi
        BY <4>1, <4>2, <1>1
      <4>4. here = iv.lo..iv.hi
        BY <4>3, Zenon
      <4> QED BY <4>4 DEF here
    <3>6. DOMAIN line' = DOMAIN line
      BY <3>1 DEF ApplyPermutation
    <3>7. Contract!Rearrange
      BY <1>1, <3>3, <3>4, <3>5, <3>6, Zenon DEF Contract!Rearrange
    <3> QED BY <3>1, <3>7, <2>4
  <2> QED BY <2>1, <2>5, <2>6, <2>7
<1>7. CASE Finish
  <2>1. /\ pc \in {"loop", "closing"} /\ pc' = "done" /\ t' = call.dt
        /\ call' = call /\ line' = line
    BY <1>7 DEF Finish
  <2>2. Contract!Close
    BY <2>1, <1>2 DEF Contract!Close
  <2> QED BY <2>2 DEF Contract!Next
<1>8. CASE UNCHANGED vars
  BY <1>8 DEF vars, Contract!vars
<1> QED BY <1>3, <1>5, <1>6, <1>7, <1>8 DEF Next

(* Every run of the stepper is one the contract allows: the line diffuses for  *)
(* exactly dt_les, eddies only rearrange cells of one interval, and nothing    *)
(* else happens to it.                                                         *)
THEOREM StepperImplementsContract == Spec => ImplementsContract
<1>1. IInv /\ IInv' /\ [Next]_vars => [Contract!Next]_(Contract!vars)
  BY ContractStep
<1> QED BY <1>1, ContractInit, InvHolds, PTL DEF Spec, Contract!Spec, ImplementsContract
=============================================================================

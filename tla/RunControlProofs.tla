--------------------------- MODULE RunControlProofs ----------------------------
(***************************************************************************)
(* Proofs about RunControl, for all settings, estimates, levels and        *)
(* bounds.                                                                 *)
(***************************************************************************)
EXTENDS RunControl, WellFoundedInduction, TLAPS

-----------------------------------------------------------------------------
(* The choice of the time step.                                            *)

\* A non-empty set of natural numbers has a smallest element, and Min is it.
LEMMA MinOfNaturals ==
  ASSUME NEW S \in SUBSET Nat, S # {}
  PROVE  Min(S) \in S /\ \A y \in S : Min(S) <= y
<1>. DEFINE less == {ss \in Nat \X Nat : ss[1] < ss[2]}
<1>1. IsWellFoundedOn(less, Nat)
  BY NatLessThanWellFounded DEF OpToRel
<1>2. \A x, y \in Nat : <<y, x>> \in less <=> y < x
  OBVIOUS
<1>. HIDE DEF less
<1>3. \E x \in S : \A y \in S : ~ (<<y, x>> \in less)
  <2>1. S \subseteq Nat /\ S # {}
    OBVIOUS
  <2>2. \A R, N : IsWellFoundedOn(R, N) =>
          \A T : T \subseteq N /\ T # {}
                => \E x \in T : \A y \in T : ~ (<<y, x>> \in R)
    BY WFMin, Zenon
  <2>. QED
    BY <1>1, <2>1, <2>2, Zenon
<1>4. PICK x \in S : \A y \in S : ~ (<<y, x>> \in less)
  BY <1>3
<1>5. \A y \in S : ~ (y < x)
  BY <1>2, <1>4, S \in SUBSET Nat
<1>6. \A y \in S : x <= y
  BY <1>5
<1>. QED
  BY <1>6 DEF Min

accepted == par \in Settings /\ Accepted(par)

\* What an inputs file gives for the types of the parameters.
LEMMA Parameters ==
  ASSUME accepted
  PROVE  /\ par.max_step \in Int /\ par.strt_time \in Nat /\ par.stop_time \in Int
         /\ par.fixed_dt \in Int /\ par.initial_dt \in Int /\ par.max_dt \in Nat
         /\ par.max_dt >= InitDivisor
         /\ par.fixed_dt > 0 => par.fixed_dt >= InitDivisor
         /\ InitDivisor \in Nat \ {0} /\ ChangeMax \in Nat \ {0}
BY RunAssumption DEF accepted, Accepted

\* The estimates of a step: one for each level there is.
LEMMA Estimates ==
  ASSUME accepted, NEW n \in Nat
  PROVE  /\ DOMAIN estimates(par, n) = 1 .. Len(estimates(par, n))
         /\ Len(estimates(par, n)) \in 1 .. Len(n_factor)
         /\ \A i \in DOMAIN estimates(par, n) :
              /\ estimates(par, n)[i] \in Nat
              /\ estimates(par, n)[i] >= InitDivisor
              /\ n_factor[i] \in Nat \ {0}
<1>1. par.est \in Seq(Seq(Nat)) /\ par.est # <<>>
      /\ \A k \in DOMAIN par.est :
            /\ Len(par.est[k]) \in 1 .. Len(n_factor)
            /\ \A i \in DOMAIN par.est[k] : par.est[k][i] >= InitDivisor
  BY RunAssumption DEF accepted
<1>2. Len(par.est) \in Nat \ {0}
  BY <1>1
<1>3. n % Len(par.est) \in 0 .. Len(par.est) - 1
  <2>1. \A d \in Nat \ {0} : n % d \in 0 .. d - 1
    BY SMT
  <2>. QED
    BY <1>2, <2>1
<1>4. (n % Len(par.est)) + 1 \in DOMAIN par.est
  <2>1. DOMAIN par.est = 1 .. Len(par.est)
    BY <1>1
  <2>2. \A d \in Nat \ {0} : \A m \in 0 .. d - 1 : m + 1 \in 1 .. d
    OBVIOUS
  <2>. QED
    BY <1>2, <1>3, <2>1, <2>2
<1>5. estimates(par, n) \in Seq(Nat) /\ Len(estimates(par, n)) \in 1 .. Len(n_factor)
      /\ \A i \in DOMAIN estimates(par, n) : estimates(par, n)[i] >= InitDivisor
  BY <1>1, <1>4 DEF estimates
<1>6. n_factor \in Seq(Nat \ {0})
  BY RunAssumption
<1>. QED
  BY <1>5, <1>6

\* Level 0 always exists.
LEMMA FirstLevel ==
  ASSUME accepted, NEW n \in Nat
  PROVE  1 \in DOMAIN estimates(par, n)
<1>1. \A k \in Nat : \A m \in 1 .. k : 1 \in 1 .. m
  OBVIOUS
<1>2. Len(n_factor) \in Nat
  BY RunAssumption
<1>3. /\ DOMAIN estimates(par, n) = 1 .. Len(estimates(par, n))
      /\ Len(estimates(par, n)) \in 1 .. Len(n_factor)
  BY Estimates
<1>. QED
  BY <1>1, <1>2, <1>3

\* The longest step of level 0 is positive and within the limit of every level.
LEMMA Longest ==
  ASSUME NEW k \in 1 .. Len(n_factor), NEW limit, DOMAIN limit = 1 .. k,
         \A i \in 1 .. k : limit[i] \in Nat \ {0}
  PROVE  /\ longest(limit) \in Nat \ {0}
         /\ \A i \in 1 .. k : longest(limit) <= n_factor[i] * limit[i]
<1>. DEFINE S == {n_factor[i] * limit[i] : i \in DOMAIN limit}
<1>1. n_factor \in Seq(Nat \ {0})
  BY RunAssumption
<1>2. \A i \in 1 .. k : n_factor[i] \in Nat \ {0}
  BY <1>1
<1>3. \A a, b \in Nat \ {0} : a * b \in Nat \ {0}
  BY SMT
<1>4. \A i \in 1 .. k : n_factor[i] * limit[i] \in Nat \ {0}
  BY <1>2, <1>3
<1>5. S \in SUBSET Nat /\ S # {} /\ 0 \notin S
  BY <1>4, 1 \in 1 .. k
<1>6. Min(S) \in S /\ \A y \in S : Min(S) <= y
  BY <1>5, MinOfNaturals
<1>. QED
  BY <1>5, <1>6 DEF longest

\* The step that the estimates allow, before growth and stop_time limit it.
allowed(s, n) == longest([i \in DOMAIN estimates(s, n) |-> estTimeStep(s, estimates(s, n)[i])])

LEMMA EstTimeStep ==
  ASSUME accepted, NEW e \in Nat, e >= InitDivisor
  PROVE  estTimeStep(par, e) \in Nat \ {0} /\ estTimeStep(par, e) >= InitDivisor
BY Parameters DEF estTimeStep, smaller

LEMMA InitialTimeStep ==
  ASSUME accepted, NEW e \in Nat, e >= InitDivisor
  PROVE  /\ initialTimeStep(par, e) \in Nat \ {0}
         /\ par.initial_dt <= 0 => initialTimeStep(par, e) <= estTimeStep(par, e)
<1>1. CASE par.initial_dt > 0
  BY <1>1, Parameters DEF initialTimeStep
<1>2. CASE ~(par.initial_dt > 0)
  <2>1. \A a, d \in Nat \ {0} : a >= d => a \div d \in Nat \ {0} /\ a \div d <= a
    OBVIOUS
  <2>. QED
    BY <1>2, <2>1, Parameters, EstTimeStep DEF initialTimeStep
<1>. QED
  BY <1>1, <1>2

LEMMA Allowed ==
  ASSUME accepted, NEW n \in Nat
  PROVE  /\ allowed(par, n) \in Nat \ {0}
         /\ \A i \in DOMAIN estimates(par, n) :
              allowed(par, n) <= n_factor[i] * estTimeStep(par, estimates(par, n)[i])
<1>. DEFINE limit == [i \in DOMAIN estimates(par, n) |-> estTimeStep(par, estimates(par, n)[i])]
<1>1. \A i \in DOMAIN estimates(par, n) : limit[i] \in Nat \ {0}
  BY Estimates, EstTimeStep
<1>. HIDE DEF limit
<1>2. DOMAIN limit = 1 .. Len(estimates(par, n)) /\ Len(estimates(par, n)) \in 1 .. Len(n_factor)
  BY Estimates DEF limit
<1>3. /\ longest(limit) \in Nat \ {0}
      /\ \A i \in 1 .. Len(estimates(par, n)) : longest(limit) <= n_factor[i] * limit[i]
  BY <1>1, <1>2, Longest, Estimates
<1>. QED
  BY <1>3, Estimates DEF allowed, limit

\* A step of length new from time t, chosen where dt was wanted, lengthens dt by
\* a thousandth at most, does not pass stop_time, and leaves nothing before it
\* or at least a thousandth.
lands(s, new, dt, t) ==
  /\ new \in Nat \ {0}
  /\ 1000 * new <= 1001 * dt
  /\ s.stop_time >= 0 =>
       /\ t + new <= s.stop_time
       /\ t + new = s.stop_time \/ 1000 * (s.stop_time - (t + new)) >= new

LEMMA LimitByStopTime ==
  ASSUME accepted, NEW dt \in Nat \ {0}, NEW t \in Nat,
         par.stop_time < 0 \/ t < par.stop_time
  PROVE  lands(par, limitByStopTime(par, dt, t), dt, t)
BY Parameters DEF limitByStopTime, lands

\* Limiting twice, as after a regrid, does not lengthen a step twice.
LEMMA LimitTwice ==
  ASSUME accepted, NEW dt \in Nat \ {0}, NEW t \in Nat, NEW m \in Nat \ {0},
         m <= limitByStopTime(par, dt, t)
  PROVE  /\ 1000 * limitByStopTime(par, m, t) <= 1001 * dt
         /\ limitByStopTime(par, m, t) <= limitByStopTime(par, dt, t)
            \/ limitByStopTime(par, dt, t) = dt
BY Parameters DEF limitByStopTime

\* The growth limit.
LEMMA LimitByChange ==
  ASSUME accepted, NEW dt \in Nat \ {0}, NEW old \in Nat \ {0}, NEW f \in BOOLEAN
  PROVE  LET new == limitByChange(par, dt, old, f)
         IN  /\ new \in Nat \ {0}
             /\ new <= dt
             /\ par.fixed_dt <= 0 => new <= (IF f THEN old ELSE ChangeMax * old)
             /\ par.fixed_dt > 0 => new = dt
<1>1. ChangeMax * old \in Nat \ {0}
  <2>1. \A a, b \in Nat \ {0} : a * b \in Nat \ {0}
    BY SMT
  <2>. QED
    BY <2>1, Parameters
<1>. QED
  BY <1>1, Parameters DEF limitByChange, smaller

\* A point from which the driver takes a step, and the point it reaches.
mayStep(s, p) ==
  /\ p.step \in Nat /\ p.time \in Nat /\ p.dt \in Int
  /\ p.step > 0 => p.dt > 0
  /\ s.stop_time < 0 \/ p.time < s.stop_time

StepFrom(s, p) == Point(p.step + 1, p.time + nextDt(s, p), nextDt(s, p))

\* What chosenDt limits before it looks at stop_time.
wanted(s, p) ==
  IF p.step > 0 THEN limitByChange(s, allowed(s, p.step), p.dt, FALSE)
  ELSE longest([i \in DOMAIN estimates(s, p.step) |-> initialTimeStep(s, estimates(s, p.step)[i])])

LEMMA Wanted ==
  ASSUME accepted, NEW p, mayStep(par, p)
  PROVE  /\ chosenDt(par, p) = limitByStopTime(par, wanted(par, p), p.time)
         /\ wanted(par, p) \in Nat \ {0}
         /\ par.initial_dt <= 0 =>
              \A i \in DOMAIN estimates(par, p.step) :
                wanted(par, p) <= n_factor[i] * estTimeStep(par, estimates(par, p.step)[i])
         /\ p.step > 0 /\ par.fixed_dt <= 0 => wanted(par, p) <= ChangeMax * p.dt
<1>. p.step \in Nat /\ p.time \in Nat /\ p.dt \in Int /\ (p.step > 0 => p.dt > 0)
  BY DEF mayStep
<1>1. chosenDt(par, p) = limitByStopTime(par, wanted(par, p), p.time)
  BY DEF chosenDt, wanted, computeNewDt, computeInitialDt, allowed
<1>2. CASE p.step > 0
  <2>1. wanted(par, p) = limitByChange(par, allowed(par, p.step), p.dt, FALSE)
    BY <1>2 DEF wanted
  <2>2. /\ wanted(par, p) \in Nat \ {0}
        /\ wanted(par, p) <= allowed(par, p.step)
        /\ par.fixed_dt <= 0 => wanted(par, p) <= ChangeMax * p.dt
    <3>1. p.dt \in Nat \ {0} /\ allowed(par, p.step) \in Nat \ {0}
      BY <1>2, Allowed
    <3>2. /\ limitByChange(par, allowed(par, p.step), p.dt, FALSE) \in Nat \ {0}
          /\ limitByChange(par, allowed(par, p.step), p.dt, FALSE) <= allowed(par, p.step)
          /\ par.fixed_dt <= 0 =>
               limitByChange(par, allowed(par, p.step), p.dt, FALSE) <= ChangeMax * p.dt
      BY <3>1, LimitByChange, Zenon
    <3>. QED
      BY <2>1, <3>2
  <2>3. ASSUME NEW i \in DOMAIN estimates(par, p.step)
        PROVE  wanted(par, p) <= n_factor[i] * estTimeStep(par, estimates(par, p.step)[i])
    <3>1. allowed(par, p.step) <= n_factor[i] * estTimeStep(par, estimates(par, p.step)[i])
      BY Allowed
    <3>2. estTimeStep(par, estimates(par, p.step)[i]) \in Nat /\ n_factor[i] \in Nat
      BY Estimates, EstTimeStep
    <3>. QED
      BY <2>2, <3>1, <3>2, Allowed
  <2>. QED
    BY <1>1, <2>2, <2>3
<1>3. CASE ~(p.step > 0)
  <2>. DEFINE e     == estimates(par, p.step)
              limit == [i \in DOMAIN e |-> initialTimeStep(par, e[i])]
  <2>1. \A i \in DOMAIN e : /\ limit[i] \in Nat \ {0}
                            /\ par.initial_dt <= 0 => limit[i] <= estTimeStep(par, e[i])
                            /\ estTimeStep(par, e[i]) \in Nat
                            /\ n_factor[i] \in Nat \ {0}
    BY Estimates, InitialTimeStep, EstTimeStep
  <2>2. wanted(par, p) = longest(limit)
    BY <1>3 DEF wanted
  <2>3. DOMAIN limit = 1 .. Len(e) /\ Len(e) \in 1 .. Len(n_factor) /\ DOMAIN e = 1 .. Len(e)
    BY Estimates
  <2>. HIDE DEF limit, e
  <2>4. /\ longest(limit) \in Nat \ {0}
        /\ \A i \in 1 .. Len(e) : longest(limit) <= n_factor[i] * limit[i]
    BY <2>1, <2>3, Longest
  <2>5. ASSUME par.initial_dt <= 0, NEW i \in DOMAIN e
        PROVE  wanted(par, p) <= n_factor[i] * estTimeStep(par, e[i])
    <3>1. \A n \in Nat \ {0}, a, b \in Nat : a <= b => n * a <= n * b
      BY SMT
    <3>2. n_factor[i] * limit[i] <= n_factor[i] * estTimeStep(par, e[i])
      BY <2>1, <2>5, <3>1
    <3>3. n_factor[i] * limit[i] \in Nat /\ n_factor[i] * estTimeStep(par, e[i]) \in Nat
      BY <2>1
    <3>. QED
      BY <2>2, <2>3, <2>4, <2>5, <3>2, <3>3
  <2>. QED
    BY <1>1, <1>3, <2>2, <2>4, <2>5 DEF e
<1>. QED
  BY <1>2, <1>3

LEMMA ChosenDt ==
  ASSUME accepted, NEW p, mayStep(par, p)
  PROVE  lands(par, chosenDt(par, p), wanted(par, p), p.time)
<1>1. wanted(par, p) \in Nat \ {0} /\ p.time \in Nat
      /\ (par.stop_time < 0 \/ p.time < par.stop_time)
  BY Wanted DEF mayStep
<1>2. chosenDt(par, p) = limitByStopTime(par, wanted(par, p), p.time)
  BY Wanted
<1>. QED
  BY <1>1, <1>2, LimitByStopTime

\* A regrid that chooses the step again keeps what the first choice kept.
LEMMA NextDt ==
  ASSUME accepted, NEW p, mayStep(par, p)
  PROVE  \/ lands(par, nextDt(par, p), wanted(par, p), p.time)
         \/ par.fixed_dt > 0 /\ lands(par, nextDt(par, p), par.fixed_dt, p.time)
<1>. DEFINE again == limitByChange(par, allowed(par, p.step + 1), chosenDt(par, p), TRUE)
<1>1. CASE ~par.dt_on_regrid
  BY <1>1, ChosenDt DEF nextDt
<1>2. CASE par.dt_on_regrid
  <2>1. nextDt(par, p) = limitByStopTime(par, again, p.time)
    BY <1>2 DEF nextDt, computeNewDt, allowed
  <2>2. /\ wanted(par, p) \in Nat \ {0} /\ p.time \in Nat /\ p.step + 1 \in Nat
        /\ chosenDt(par, p) \in Nat \ {0}
        /\ chosenDt(par, p) = limitByStopTime(par, wanted(par, p), p.time)
        /\ par.stop_time < 0 \/ p.time < par.stop_time
    BY Wanted, ChosenDt DEF mayStep, lands
  <2>3. allowed(par, p.step + 1) \in Nat \ {0}
    BY <2>2, Allowed
  <2>4. /\ again \in Nat \ {0}
        /\ again <= allowed(par, p.step + 1)
        /\ par.fixed_dt <= 0 => again <= chosenDt(par, p)
    BY <2>2, <2>3, LimitByChange, Zenon
  <2>. HIDE DEF again
  <2>5. lands(par, nextDt(par, p), again, p.time)
    BY <2>1, <2>2, <2>4, LimitByStopTime
  <2>6. CASE par.fixed_dt <= 0
    <3>1. again <= limitByStopTime(par, wanted(par, p), p.time)
      BY <2>2, <2>4, <2>6
    <3>2. 1000 * nextDt(par, p) <= 1001 * wanted(par, p)
      BY <2>1, <2>2, <2>4, <3>1, LimitTwice
    <3>. QED
      BY <2>5, <3>2 DEF lands
  <2>7. CASE par.fixed_dt > 0
    <3>1. 1 \in DOMAIN estimates(par, p.step + 1)
      BY <2>2, FirstLevel
    <3>2. allowed(par, p.step + 1) <= n_factor[1] * estTimeStep(par, estimates(par, p.step + 1)[1])
      BY <2>2, <3>1, Allowed
    <3>3. again <= par.fixed_dt
      BY <2>3, <2>4, <2>7, <3>2, RunAssumption, Parameters DEF estTimeStep
    <3>. QED
      BY <2>4, <2>5, <2>7, <3>3, Parameters DEF lands
  <2>. QED
    BY <2>6, <2>7, Parameters
<1>. QED
  BY <1>1, <1>2

\* The step keeps the limit of every level that existed when it was chosen.
LEMMA StepWithinLimits ==
  ASSUME accepted, NEW p, mayStep(par, p), par.initial_dt <= 0,
         NEW i \in DOMAIN estimates(par, p.step)
  PROVE  1000 * nextDt(par, p) <= 1001 * n_factor[i] * estTimeStep(par, estimates(par, p.step)[i])
<1>. DEFINE e == estTimeStep(par, estimates(par, p.step)[i])
<1>1. e \in Nat /\ n_factor[i] \in Nat \ {0} /\ wanted(par, p) \in Nat \ {0} /\ nextDt(par, p) \in Nat
  <2>1. p.step \in Nat
    BY DEF mayStep
  <2>2. /\ estimates(par, p.step)[i] \in Nat /\ estimates(par, p.step)[i] >= InitDivisor
        /\ n_factor[i] \in Nat \ {0}
    BY <2>1, Estimates, Zenon
  <2>3. e \in Nat
    BY <2>2, EstTimeStep
  <2>. QED
    BY <2>2, <2>3, Wanted, NextDt DEF lands
<1>2. wanted(par, p) <= n_factor[i] * e
  BY Wanted
<1>3. par.fixed_dt > 0 => e = par.fixed_dt
  BY DEF estTimeStep
<1>. HIDE DEF e
<1>4. \A w, n, f, d \in Nat : w <= n * f /\ d <= 1001 * w => d <= 1001 * n * f
  BY SMT
<1>5. \A n \in Nat \ {0}, f \in Nat : f <= n * f
  BY SMT
<1>6. \E w \in Nat : w <= n_factor[i] * e /\ 1000 * nextDt(par, p) <= 1001 * w
  <2>1. CASE 1000 * nextDt(par, p) <= 1001 * wanted(par, p)
    BY <1>1, <1>2, <2>1
  <2>2. CASE par.fixed_dt > 0 /\ 1000 * nextDt(par, p) <= 1001 * par.fixed_dt
    BY <1>1, <1>3, <1>5, <2>2
  <2>. QED
    BY <2>1, <2>2, NextDt, Parameters DEF lands
<1>7. 1000 * nextDt(par, p) <= 1001 * n_factor[i] * e
  <2>1. PICK w \in Nat : w <= n_factor[i] * e /\ 1000 * nextDt(par, p) <= 1001 * w
    BY <1>6
  <2>2. 1000 * nextDt(par, p) \in Nat /\ n_factor[i] \in Nat
    BY <1>1
  <2>. QED
    BY <1>1, <1>4, <2>1, <2>2
<1>. QED
  BY <1>7 DEF e

\* The step grows by no more than change_max and a thousandth.
LEMMA StepGrowth ==
  ASSUME accepted, NEW p, mayStep(par, p), p.step > 0, par.fixed_dt <= 0
  PROVE  1000 * nextDt(par, p) <= 1001 * ChangeMax * p.dt
<1>1. p.dt \in Nat /\ ChangeMax \in Nat /\ wanted(par, p) \in Nat /\ nextDt(par, p) \in Nat
  BY Wanted, NextDt, Parameters DEF mayStep, lands
<1>2. wanted(par, p) <= ChangeMax * p.dt /\ 1000 * nextDt(par, p) <= 1001 * wanted(par, p)
  BY Wanted, NextDt, Parameters DEF lands
<1>3. \A w, n, f, d \in Nat : w <= n * f /\ d <= 1001 * w => d <= 1001 * n * f
  BY SMT
<1>4. 1000 * nextDt(par, p) \in Nat
  BY <1>1
<1>. QED
  BY <1>1, <1>2, <1>3, <1>4

\* The step does not pass stop_time and leaves no sliver before it.
LEMMA StepLands ==
  ASSUME accepted, NEW p, mayStep(par, p)
  PROVE  /\ StepFrom(par, p).step = p.step + 1
         /\ StepFrom(par, p).time \in Nat /\ StepFrom(par, p).time > p.time
         /\ StepFrom(par, p).dt \in Nat \ {0}
         /\ par.stop_time >= 0 =>
              /\ StepFrom(par, p).time <= par.stop_time
              /\ StepFrom(par, p).time = par.stop_time
                 \/ 1000 * (par.stop_time - StepFrom(par, p).time) >= StepFrom(par, p).dt
<1>1. p.time \in Nat
  BY DEF mayStep
<1>. QED
  BY <1>1, NextDt DEF StepFrom, Point, lands

-----------------------------------------------------------------------------
(* The inductive invariant.                                                *)

startPoint(s) ==
  Point(0, s.strt_time, computeInitialDt(s, estimates(s, 0), s.strt_time))

\* Every point was reached by a step from a point, or is where runs start.
PathInv ==
  \A p \in reached :
    /\ p.step > 0 => \E q \in reached : mayStep(par, q) /\ p = StepFrom(par, q)
    /\ p.step = 0 => p = startPoint(par)

savedPoints == {c.point : c \in checkpoints}

\* The running process is at a point that was reached, and so is every
\* checkpoint.
PlaceInv ==
  /\ pc # "down" => here \in reached
  /\ pc = "output" => level_steps > 0
  /\ savedPoints \subseteq reached

\* stepOfLastCheckPoint tells whether the point is saved.
SaveInv ==
  /\ pc # "down" => last_checkpoint <= level_steps
  /\ pc \in {"enterLoop", "loop"} /\ last_checkpoint = level_steps => here \in savedPoints
  /\ pc = "output" => last_checkpoint < level_steps
  /\ pc \in {"finalPlot", "ended"} => here \in savedPoints

IInv ==
  /\ accepted
  /\ TypeOK
  /\ RestartTransparent
  /\ PathInv
  /\ PlaceInv
  /\ SaveInv

\* A point that was reached has a positive step behind it.
LEMMA ReachedPoint ==
  ASSUME IInv, NEW p \in reached
  PROVE  /\ p \in Points
         /\ p.step > 0 => p.dt > 0
         /\ p.step > 0 /\ par.stop_time >= 0 => p.time <= par.stop_time
         /\ p.step = 0 => p.time = par.strt_time
<1>1. p \in Points
  BY DEF IInv, TypeOK
<1>2. CASE p.step > 0
  <2>1. PICK q \in reached : mayStep(par, q) /\ p = StepFrom(par, q)
    BY <1>2 DEF IInv, PathInv
  <2>2. p.dt \in Nat \ {0} /\ (par.stop_time >= 0 => p.time <= par.stop_time)
    BY <2>1, StepLands DEF IInv
  <2>. QED
    BY <1>1, <1>2, <2>2
<1>3. CASE p.step = 0
  BY <1>1, <1>3 DEF IInv, PathInv, startPoint, Point
<1>. QED
  BY <1>1, <1>2, <1>3 DEF Points

\* Where a step is taken, the step's lemmas apply.
LEMMA MayStepHere ==
  ASSUME IInv, pc = "loop", moreSteps
  PROVE  mayStep(par, here)
<1>1. here \in reached
  BY DEF IInv, PlaceInv
<1>2. here.step > 0 => here.dt > 0
  BY <1>1, ReachedPoint
<1>. QED
  BY <1>2, Parameters DEF IInv, TypeOK, mayStep, here, Point, moreSteps

\* The step that CoarseTimeStep takes.
LEMMA CoarseStep ==
  ASSUME IInv, CoarseTimeStep
  PROVE  /\ mayStep(par, here)
         /\ here' = StepFrom(par, here)
         /\ level_steps' = level_steps + 1
         /\ dt_0' = nextDt(par, here)
         /\ cumtime' \in Nat /\ cumtime' > cumtime
         /\ dt_0' \in Nat \ {0}
         /\ par.stop_time >= 0 => cumtime' <= par.stop_time
<1>1. mayStep(par, here)
  BY MayStepHere DEF CoarseTimeStep
<1>2. here' = StepFrom(par, here) /\ level_steps' = level_steps + 1 /\ dt_0' = nextDt(par, here)
  BY DEF CoarseTimeStep, StepFrom, here, Point
<1>3. /\ StepFrom(par, here).time \in Nat /\ StepFrom(par, here).time > here.time
      /\ StepFrom(par, here).dt \in Nat \ {0}
      /\ par.stop_time >= 0 => StepFrom(par, here).time <= par.stop_time
  BY <1>1, StepLands DEF IInv
<1>4. StepFrom(par, here).time = cumtime' /\ StepFrom(par, here).dt = dt_0' /\ here.time = cumtime
  BY <1>2 DEF here, Point
<1>. QED
  BY <1>1, <1>2, <1>3, <1>4

\* The step that Amr::init chooses is a number.
LEMMA StartDt ==
  ASSUME accepted
  PROVE  startPoint(par).dt \in Int
<1>. DEFINE e     == estimates(par, 0)
            limit == [i \in DOMAIN e |-> initialTimeStep(par, e[i])]
<1>1. \A i \in DOMAIN e : limit[i] \in Nat \ {0}
  BY Estimates, InitialTimeStep
<1>2. DOMAIN limit = 1 .. Len(e) /\ Len(e) \in 1 .. Len(n_factor) /\ DOMAIN e = 1 .. Len(e)
  BY Estimates
<1>. HIDE DEF e, limit
<1>3. longest(limit) \in Nat \ {0}
  BY <1>1, <1>2, Longest
<1>4. limitByStopTime(par, longest(limit), par.strt_time) \in Int
  BY <1>3, Parameters DEF limitByStopTime
<1>. QED
  BY <1>4 DEF startPoint, Point, computeInitialDt, e, limit

LEMMA PlotTypes ==
  ASSUME TypeOK, writePlotFile
  PROVE  plots' \in [0 .. MaxSteps -> Nat] /\ last_plotfile' \in 0 .. MaxSteps
BY DEF TypeOK, writePlotFile

LEMMA CheckPointTypes ==
  ASSUME TypeOK, writeCheckPoint
  PROVE  /\ checkpoints' \subseteq [point : Points, failing : BOOLEAN]
         /\ last_checkpoint' \in 0 .. MaxSteps
<1>1. here \in Points
  BY DEF TypeOK, here, Point, Points
<1>2. [point |-> here, failing |-> failing] \in [point : Points, failing : BOOLEAN]
  BY <1>1 DEF TypeOK
<1>. QED
  BY <1>2 DEF TypeOK, writeCheckPoint

\* The types are kept.
LEMMA TypeKept ==
  ASSUME IInv, [Next]_vars
  PROVE  TypeOK'
<1>. TypeOK /\ accepted
  BY DEF IInv
<1>1. CASE StartFresh
  <2>1. cumtime' \in Nat /\ dt_0' \in Int /\ level_steps' = 0 /\ 0 \in 0 .. MaxSteps
    BY <1>1, StartDt, Parameters, RunAssumption DEF StartFresh, startPoint, Point
  <2>2. here' \in Points
    BY <2>1 DEF here, Point, Points
  <2>3. plots' \in [0 .. MaxSteps -> Nat]
    BY <1>1 DEF StartFresh, TypeOK
  <2>. QED
    BY <1>1, <2>1, <2>2, <2>3 DEF StartFresh, TypeOK
<1>2. CASE FirstOutput
  <2>1. plots' \in [0 .. MaxSteps -> Nat] /\ last_plotfile' \in 0 .. MaxSteps
    BY <1>2, PlotTypes DEF FirstOutput, TypeOK
  <2>2. /\ checkpoints' \subseteq [point : Points, failing : BOOLEAN]
        /\ last_checkpoint' \in 0 .. MaxSteps
    BY <1>2, CheckPointTypes DEF FirstOutput
  <2>. QED
    BY <1>2, <2>1, <2>2 DEF FirstOutput, TypeOK, solution, process
<1>3. CASE Restart
  <2>1. PICK c \in checkpoints :
          /\ level_steps' = c.point.step /\ cumtime' = c.point.time
          /\ dt_0' = c.point.dt /\ failing' \in {FALSE, c.failing}
          /\ firstStep' = c.point.step
          /\ last_checkpoint' \in {0, c.point.step}
          /\ last_plotfile' \in {0, c.point.step}
    BY <1>3 DEF Restart
  <2>2. c.point \in Points /\ c.failing \in BOOLEAN
    BY DEF TypeOK
  <2>3. plots' \in [0 .. MaxSteps -> Nat]
    BY <1>3 DEF Restart, TypeOK
  <2>4. 0 \in 0 .. MaxSteps
    BY RunAssumption
  <2>. QED
    BY <1>3, <2>1, <2>2, <2>3, <2>4 DEF Restart, TypeOK, Points
<1>4. CASE EnterLoop
  BY <1>4 DEF EnterLoop, TypeOK, solution, output
<1>5. CASE CoarseTimeStep
  <2>1. cumtime' \in Nat /\ dt_0' \in Int /\ level_steps' \in 0 .. MaxSteps
    <3>1. cumtime' \in Nat /\ dt_0' \in Nat \ {0} /\ level_steps' = level_steps + 1
      BY <1>5, CoarseStep
    <3>2. level_steps \in 0 .. MaxSteps /\ level_steps < MaxSteps /\ MaxSteps \in Nat
      BY <1>5, RunAssumption DEF CoarseTimeStep, TypeOK
    <3>. QED
      BY <3>1, <3>2
  <2>2. here' \in Points
    BY <2>1 DEF here, Point, Points
  <2>3. par.may_fail \in BOOLEAN /\ par.wall_time \in BOOLEAN
    BY RunAssumption DEF accepted
  <2>4. reached' \subseteq Points
    BY <1>5, <2>2 DEF CoarseTimeStep, TypeOK
  <2>. QED
    BY <1>5, <2>1, <2>3, <2>4 DEF CoarseTimeStep, TypeOK, output
<1>6. CASE Output
  <2>1. plots' \in [0 .. MaxSteps -> Nat] /\ last_plotfile' \in 0 .. MaxSteps
    BY <1>6, PlotTypes DEF Output, TypeOK
  <2>2. /\ checkpoints' \subseteq [point : Points, failing : BOOLEAN]
        /\ last_checkpoint' \in 0 .. MaxSteps
    BY <1>6, CheckPointTypes DEF Output, TypeOK
  <2>. QED
    BY <1>6, <2>1, <2>2 DEF Output, TypeOK, solution, process
<1>7. CASE FinalCheckPoint
  <2>1. /\ checkpoints' \subseteq [point : Points, failing : BOOLEAN]
        /\ last_checkpoint' \in 0 .. MaxSteps
    BY <1>7, CheckPointTypes DEF FinalCheckPoint, TypeOK
  <2>. QED
    BY <1>7, <2>1 DEF FinalCheckPoint, TypeOK, solution, process
<1>8. CASE FinalPlotFile
  <2>1. plots' \in [0 .. MaxSteps -> Nat] /\ last_plotfile' \in 0 .. MaxSteps
    BY <1>8, PlotTypes DEF FinalPlotFile, TypeOK
  <2>2. raise_failure' \in BOOLEAN
    BY <1>8 DEF FinalPlotFile
  <2>. QED
    BY <1>8, <2>1, <2>2 DEF FinalPlotFile, TypeOK, solution
<1>9. CASE Crash
  BY <1>9, RunAssumption DEF Crash, TypeOK, solution, output
<1>10. CASE Stop \/ UNCHANGED vars
  BY <1>10 DEF Stop, TypeOK, vars, solution, output, process
<1>. QED
  BY <1>1, <1>2, <1>3, <1>4, <1>5, <1>6, <1>7, <1>8, <1>9, <1>10 DEF Next, Run

\* What is kept of the settings and of the points reached.
LEMMA ReachedSteps ==
  ASSUME IInv, [Next]_vars
  PROVE  /\ par' = par
         /\ \/ reached' = reached
            \/ StartFresh /\ here' = startPoint(par) /\ reached' = reached \cup {here'}
            \/ /\ CoarseTimeStep
               /\ here \in reached
               /\ reached' = reached \cup {here'}
<1>1. CASE StartFresh
  BY <1>1 DEF StartFresh, here, Point, startPoint
<1>2. CASE CoarseTimeStep
  BY <1>2 DEF CoarseTimeStep, IInv, PlaceInv
<1>3. CASE FirstOutput \/ Restart \/ EnterLoop \/ Output \/ FinalCheckPoint \/ FinalPlotFile
  BY <1>3 DEF FirstOutput, Restart, EnterLoop, Output, FinalCheckPoint, FinalPlotFile,
              solution
<1>4. CASE Crash \/ Stop \/ UNCHANGED vars
  BY <1>4 DEF Crash, Stop, vars, solution
<1>. QED
  BY <1>1, <1>2, <1>3, <1>4 DEF Next, Run

\* Every point reached is reached in one way only.
LEMMA PathKept ==
  ASSUME IInv, [Next]_vars
  PROVE  accepted' /\ PathInv' /\ RestartTransparent'
<1>. par' = par /\ accepted'
  BY ReachedSteps DEF IInv, accepted
<1>. PathInv /\ RestartTransparent
  BY DEF IInv
<1>1. CASE reached' = reached
  BY <1>1 DEF PathInv, RestartTransparent, mayStep
<1>2. CASE StartFresh /\ here' = startPoint(par) /\ reached' = reached \cup {here'}
  <2>1. startPoint(par).step = 0
    BY DEF startPoint, Point
  <2>2. PathInv'
    BY <1>2, <2>1 DEF PathInv, mayStep
  <2>3. RestartTransparent'
    BY <1>2, <2>1 DEF RestartTransparent, PathInv
  <2>. QED
    BY <2>2, <2>3
<1>3. CASE CoarseTimeStep /\ here \in reached /\ reached' = reached \cup {here'}
  <2>1. mayStep(par, here) /\ here' = StepFrom(par, here)
    BY <1>3, CoarseStep
  <2>2. here.step \in Nat /\ StepFrom(par, here).step = here.step + 1
    BY <2>1, StepLands DEF mayStep, IInv
  <2>3. PathInv'
    <3>1. ASSUME NEW p \in reached'
          PROVE  /\ p.step > 0 => \E q \in reached' : mayStep(par, q) /\ p = StepFrom(par, q)
                 /\ p.step = 0 => p = startPoint(par)
      <4>1. CASE p \in reached
        BY <1>3, <4>1 DEF PathInv
      <4>2. CASE p = here'
        BY <1>3, <2>1, <2>2, <4>2
      <4>. QED
        BY <1>3, <4>1, <4>2
    <3>. QED
      BY <3>1 DEF PathInv, mayStep
  <2>4. ASSUME NEW q \in reached, q.step = here.step + 1
        PROVE  q = StepFrom(par, here)
    <3>1. q.step > 0
      BY <2>2, <2>4
    <3>2. PICK p \in reached : mayStep(par, p) /\ q = StepFrom(par, p)
      BY <3>1 DEF PathInv
    <3>3. p.step \in Nat /\ q.step = p.step + 1
      BY <3>2, StepLands DEF mayStep, IInv
    <3>4. p.step = here.step
      BY <2>2, <2>4, <3>3
    <3>5. p = here
      BY <1>3, <3>4 DEF RestartTransparent
    <3>. QED
      BY <3>2, <3>5
  <2>5. RestartTransparent'
    BY <1>3, <2>1, <2>2, <2>4 DEF RestartTransparent
  <2>. QED
    BY <2>3, <2>5
<1>. QED
  BY <1>1, <1>2, <1>3, ReachedSteps

\* Saving adds a point and loses none.
LEMMA Saving ==
  ASSUME IInv, pc # "down", writeCheckPoint
  PROVE  /\ savedPoints' = savedPoints \cup {here}
         /\ last_checkpoint' = level_steps
<1>1. \A c \in checkpoints : c.point.step = level_steps => c.point = here
  <2>1. here \in reached /\ here.step = level_steps
    BY DEF IInv, PlaceInv, here, Point
  <2>2. \A c \in checkpoints : c.point \in reached
    BY DEF IInv, PlaceInv, savedPoints
  <2>. QED
    BY <2>1, <2>2 DEF IInv, RestartTransparent
<1>2. [point |-> here, failing |-> failing] \in checkpoints'
  BY DEF writeCheckPoint
<1>3. ASSUME NEW c \in checkpoints
      PROVE  \E d \in checkpoints' : d.point = c.point
  BY <1>1, <1>2 DEF writeCheckPoint
<1>4. \A d \in checkpoints' : d.point = here \/ \E c \in checkpoints : c.point = d.point
  BY DEF writeCheckPoint
<1>. DEFINE before == {c.point : c \in checkpoints}
            after  == {c.point : c \in checkpoints'}
<1>5. here \in after
  BY <1>2
<1>6. \A x \in before : x \in after
  BY <1>3
<1>7. \A x \in after : x \in before \/ x = here
  BY <1>4
<1>. HIDE DEF before, after
<1>8. after = before \cup {here}
  BY <1>5, <1>6, <1>7
<1>. QED
  BY <1>8 DEF writeCheckPoint, savedPoints, before, after

\* Where the process is and what it saved, after a quiet step: one that leaves
\* the solution alone and may write a checkpoint.
LEMMA QuietStep ==
  ASSUME IInv,
         FirstOutput \/ EnterLoop \/ Output \/ FinalCheckPoint \/ FinalPlotFile
  PROVE  /\ pc # "down" /\ pc' \notin {"down", "output"}
         /\ here' = here /\ level_steps' = level_steps /\ reached' = reached
         /\ here \in reached
         /\ \/ savedPoints' = savedPoints /\ last_checkpoint' = last_checkpoint
            \/ savedPoints' = savedPoints \cup {here} /\ last_checkpoint' = level_steps
<1>1. pc # "down" /\ pc' \notin {"down", "output"}
  BY DEF FirstOutput, EnterLoop, Output, FinalCheckPoint, FinalPlotFile
<1>2. here' = here /\ level_steps' = level_steps /\ reached' = reached
  BY DEF FirstOutput, EnterLoop, Output, FinalCheckPoint, FinalPlotFile, solution,
         here, Point
<1>3. \/ writeCheckPoint
      \/ checkpoints' = checkpoints /\ last_checkpoint' = last_checkpoint
  BY DEF FirstOutput, EnterLoop, Output, FinalCheckPoint, FinalPlotFile, output
<1>4. \/ savedPoints' = savedPoints /\ last_checkpoint' = last_checkpoint
      \/ savedPoints' = savedPoints \cup {here} /\ last_checkpoint' = level_steps
  BY <1>1, <1>3, Saving DEF savedPoints
<1>. QED
  BY <1>1, <1>2, <1>4 DEF IInv, PlaceInv

\* The point that a restart returns to.
LEMMA RestartPoint ==
  ASSUME IInv, Restart
  PROVE  /\ here' \in savedPoints /\ savedPoints' = savedPoints /\ reached' = reached
         /\ level_steps' \in Nat /\ last_checkpoint' \in {0, level_steps'}
<1>1. PICK c \in checkpoints :
        /\ level_steps' = c.point.step /\ cumtime' = c.point.time
        /\ dt_0' = c.point.dt
        /\ last_checkpoint' \in {0, c.point.step}
  BY DEF Restart
<1>2. c.point \in Points
  BY DEF IInv, TypeOK
<1>3. here' = c.point
  BY <1>1, <1>2 DEF here, Point, Points
<1>. QED
  BY <1>1, <1>2, <1>3 DEF Restart, savedPoints, Points

\* The process stays at a point that was reached, and saves only such points.
LEMMA PlaceKept ==
  ASSUME IInv, [Next]_vars
  PROVE  PlaceInv'
<1>. PlaceInv
  BY DEF IInv
<1>1. CASE StartFresh
  BY <1>1 DEF StartFresh, PlaceInv, savedPoints
<1>2. CASE FirstOutput \/ EnterLoop \/ Output \/ FinalCheckPoint \/ FinalPlotFile
  BY <1>2, QuietStep DEF PlaceInv
<1>3. CASE Restart
  BY <1>3, RestartPoint DEF PlaceInv, Restart
<1>4. CASE CoarseTimeStep
  <2>1. level_steps' > 0
    BY <1>4, CoarseStep DEF IInv, TypeOK
  <2>. QED
    BY <1>4, <2>1 DEF CoarseTimeStep, PlaceInv, savedPoints, output
<1>5. CASE Crash
  BY <1>5 DEF Crash, PlaceInv, savedPoints, solution, output
<1>6. CASE Stop \/ UNCHANGED vars
  BY <1>6 DEF Stop, PlaceInv, savedPoints, here, Point, vars, solution, output
<1>. QED
  BY <1>1, <1>2, <1>3, <1>4, <1>5, <1>6 DEF Next, Run

\* stepOfLastCheckPoint keeps telling whether the point is saved.
LEMMA SaveKept ==
  ASSUME IInv, [Next]_vars
  PROVE  SaveInv'
<1>. SaveInv /\ last_checkpoint \in Nat /\ level_steps \in Nat
  BY DEF IInv, TypeOK
<1>1. CASE StartFresh
  BY <1>1 DEF StartFresh, SaveInv
<1>2. CASE FirstOutput
  <2>1. savedPoints' = savedPoints \cup {here} /\ last_checkpoint' = level_steps
    BY <1>2, Saving DEF FirstOutput
  <2>. QED
    BY <1>2, <2>1, QuietStep DEF FirstOutput, SaveInv
<1>3. CASE Restart
  <2>1. pc' = "enterLoop"
    BY <1>3 DEF Restart
  <2>2. /\ here' \in savedPoints' /\ level_steps' \in Nat
        /\ last_checkpoint' \in {0, level_steps'}
    BY <1>3, RestartPoint
  <2>. QED
    BY <2>1, <2>2 DEF SaveInv
<1>4. CASE EnterLoop
  <2>1. savedPoints' = savedPoints /\ last_checkpoint' = last_checkpoint
    BY <1>4 DEF EnterLoop, savedPoints, output
  <2>. QED
    BY <1>4, <2>1, QuietStep DEF EnterLoop, SaveInv
<1>5. CASE CoarseTimeStep
  <2>1. level_steps' = level_steps + 1 /\ last_checkpoint' = last_checkpoint
    BY <1>5 DEF CoarseTimeStep, output
  <2>2. last_checkpoint <= level_steps /\ pc' = "output"
    BY <1>5 DEF CoarseTimeStep, SaveInv
  <2>. QED
    BY <2>1, <2>2 DEF SaveInv
<1>6. CASE Output
  <2>1. pc = "output" /\ pc' = "loop"
    BY <1>6 DEF Output
  <2>. QED
    BY <1>6, <2>1, QuietStep DEF SaveInv
<1>7. CASE FinalCheckPoint
  <2>1. pc = "loop" /\ pc' = "finalPlot"
    BY <1>7 DEF FinalCheckPoint
  <2>2. CASE checkPointIsDue
    <3>1. savedPoints' = savedPoints \cup {here} /\ last_checkpoint' = level_steps
      BY <1>7, <2>1, <2>2, Saving DEF FinalCheckPoint
    <3>. QED
      BY <1>7, <2>1, <3>1, QuietStep DEF SaveInv
  <2>3. CASE ~checkPointIsDue
    <3>1. savedPoints' = savedPoints /\ last_checkpoint' = last_checkpoint
      BY <1>7, <2>3 DEF FinalCheckPoint, savedPoints
    <3>2. last_checkpoint = level_steps
      BY <2>1, <2>3 DEF SaveInv, checkPointIsDue
    <3>. QED
      BY <1>7, <2>1, <3>1, <3>2, QuietStep DEF SaveInv
  <2>. QED
    BY <2>2, <2>3
<1>8. CASE FinalPlotFile
  <2>1. savedPoints' = savedPoints /\ last_checkpoint' = last_checkpoint
    BY <1>8 DEF FinalPlotFile, savedPoints
  <2>. QED
    BY <1>8, <2>1, QuietStep DEF FinalPlotFile, SaveInv
<1>9. CASE Crash
  BY <1>9 DEF Crash, SaveInv
<1>10. CASE Stop \/ UNCHANGED vars
  BY <1>10 DEF Stop, SaveInv, savedPoints, here, Point, vars, solution, output
<1>. QED
  BY <1>1, <1>2, <1>3, <1>4, <1>5, <1>6, <1>7, <1>8, <1>9, <1>10 DEF Next, Run

LEMMA InitIInv == Init => IInv
<1>. SUFFICES ASSUME Init PROVE IInv
  OBVIOUS
<1>1. accepted
  BY DEF Init, accepted
<1>2. TypeOK
  <2>1. cumtime \in Nat /\ dt_0 \in Int
    BY <1>1, Parameters DEF Init, Unset
  <2>2. 0 \in 0 .. MaxSteps /\ 0 \in 0 .. MaxCrashes
    BY RunAssumption
  <2>3. plots \in [0 .. MaxSteps -> Nat]
    BY DEF Init
  <2>. QED
    BY <2>1, <2>2, <2>3 DEF Init, TypeOK
<1>. QED
  BY <1>1, <1>2 DEF Init, IInv, RestartTransparent, PathInv, PlaceInv, SaveInv,
                    savedPoints

LEMMA NextIInv == IInv /\ [Next]_vars => IInv'
BY TypeKept, PathKept, PlaceKept, SaveKept DEF IInv

LEMMA SpecIInv == Spec => []IInv
BY InitIInv, NextIInv, PTL DEF Spec

-----------------------------------------------------------------------------
(* The properties of RunControl.                                           *)

\* The driver's variables keep their types.
THEOREM RunTypeCorrect == Spec => []TypeOK
<1>1. IInv => TypeOK
  BY DEF IInv
<1>. QED
  BY <1>1, SpecIInv, PTL

\* No step, first or repeated, carries a run past stop_time.
THEOREM RunStopTimeNotPassed == Spec => []StopTimeNotPassed
<1>1. ASSUME IInv, par.stop_time >= par.strt_time, NEW p \in reached
      PROVE  p.time <= par.stop_time
  <2>1. par.stop_time \in Int /\ par.strt_time \in Nat /\ par.stop_time >= 0
    BY <1>1, Parameters DEF IInv
  <2>2. p.step \in Nat
    BY ReachedPoint, <1>1 DEF Points
  <2>. QED
    BY <1>1, <2>1, <2>2, ReachedPoint
<1>2. IInv => StopTimeNotPassed
  BY <1>1 DEF StopTimeNotPassed
<1>. QED
  BY <1>2, SpecIInv, PTL

\* The step behind the state in which CoarseTimeStep leaves the process.
LEMMA StepBehind ==
  ASSUME IInv, pc = "output"
  PROVE  \E q \in reached : /\ mayStep(par, q)
                            /\ level_steps = q.step + 1
                            /\ cumtime = StepFrom(par, q).time
                            /\ dt_0 = nextDt(par, q)
<1>1. here \in reached /\ here.step > 0
  BY DEF IInv, PlaceInv, here, Point
<1>2. PICK q \in reached : mayStep(par, q) /\ here = StepFrom(par, q)
  BY <1>1 DEF IInv, PathInv
<1>. QED
  BY <1>2 DEF here, Point, StepFrom

\* Every step keeps the limit of every level.
THEOREM RunEveryLevelWithinLimit == Spec => []EveryLevelWithinLimit
<1>1. ASSUME IInv, pc = "output", par.initial_dt <= 0,
             NEW i \in DOMAIN estimates(par, level_steps - 1)
      PROVE  1000 * dt_0 <=
               1001 * n_factor[i] * estTimeStep(par, estimates(par, level_steps - 1)[i])
  <2>1. PICK q \in reached : /\ mayStep(par, q)
                             /\ level_steps = q.step + 1
                             /\ dt_0 = nextDt(par, q)
    BY <1>1, StepBehind
  <2>2. level_steps - 1 = q.step
    BY <2>1 DEF mayStep
  <2>. QED
    BY <1>1, <2>1, <2>2, StepWithinLimits DEF IInv
<1>2. IInv => EveryLevelWithinLimit
  BY <1>1 DEF EveryLevelWithinLimit
<1>. QED
  BY <1>2, SpecIInv, PTL

\* No step leaves a sliver before stop_time.
THEOREM RunNoSliverStep == Spec => []NoSliverStep
<1>1. ASSUME IInv, pc = "output", par.stop_time >= 0
      PROVE  cumtime = par.stop_time \/ 1000 * (par.stop_time - cumtime) >= dt_0
  <2>1. PICK q \in reached : /\ mayStep(par, q)
                             /\ cumtime = StepFrom(par, q).time
                             /\ dt_0 = nextDt(par, q)
    BY <1>1, StepBehind
  <2>2. StepFrom(par, q).dt = dt_0
    BY <2>1 DEF StepFrom, Point
  <2>. QED
    BY <1>1, <2>1, <2>2, StepLands DEF IInv
<1>2. IInv => NoSliverStep
  BY <1>1 DEF NoSliverStep
<1>. QED
  BY <1>2, SpecIInv, PTL

\* Steps land on stop_time: LandsOnStopTime holds.
THEOREM RunLandsOnStopTime == Spec => []LandsOnStopTime
<1>1. StopTimeNotPassed /\ NoSliverStep => LandsOnStopTime
  BY DEF LandsOnStopTime
<1>. QED
  BY <1>1, RunStopTimeNotPassed, RunNoSliverStep, PTL

\* A repeated step is the step it was.
THEOREM RunRestartTransparent == Spec => []RestartTransparent
<1>1. IInv => RestartTransparent
  BY DEF IInv
<1>. QED
  BY <1>1, SpecIInv, PTL

\* A run that ended has saved its last point.
THEOREM RunFinalCheckpoint == Spec => []FinalCheckpoint
<1>1. IInv => FinalCheckpoint
  BY DEF IInv, SaveInv, savedPoints, FinalCheckpoint
<1>. QED
  BY <1>1, SpecIInv, PTL

\* The step grows by change_max and a thousandth at most.
THEOREM RunGrowthLimited == Spec => GrowthLimited
<1>1. ASSUME IInv, CoarseTimeStep, level_steps > 0, par.fixed_dt <= 0
      PROVE  1000 * dt_0' <= 1001 * ChangeMax * dt_0
  <2>1. mayStep(par, here) /\ dt_0' = nextDt(par, here)
    BY <1>1, CoarseStep
  <2>2. here.step = level_steps /\ here.dt = dt_0
    BY DEF here, Point
  <2>. QED
    BY <1>1, <2>1, <2>2, StepGrowth DEF IInv
<1>2. IInv /\ [Next]_vars =>
        [CoarseTimeStep /\ level_steps > 0 /\ par.fixed_dt <= 0
           => 1000 * dt_0' <= 1001 * ChangeMax * dt_0]_vars
  BY <1>1
<1>. QED
  BY <1>2, SpecIInv, PTL DEF Spec, GrowthLimited

-----------------------------------------------------------------------------
(* RunControl implements SimulationRun.                                    *)

\* SimulationRun's point and saved points.
runPoint  == [step |-> level_steps, time |-> cumtime]
origin    == [step |-> 0, time |-> par.strt_time]
runSaved  == {[step |-> c.point.step, time |-> c.point.time] : c \in checkpoints}
               \cup {origin}

\* The point of a step is saved if the step is.
LEMMA SavedPoint ==
  ASSUME here \in savedPoints
  PROVE  runPoint \in runSaved
<1>1. PICK c \in checkpoints : c.point = here
  BY DEF savedPoints
<1>2. runPoint = [step |-> c.point.step, time |-> c.point.time]
  BY <1>1 DEF runPoint, here, Point
<1>. QED
  BY <1>1, <1>2 DEF runSaved

\* The saved points of SimulationRun are those of the checkpoints.
pointsOf(S) == {[step |-> p.step, time |-> p.time] : p \in S}

LEMMA PointsOf ==
  ASSUME NEW C
  PROVE  {[step |-> c.point.step, time |-> c.point.time] : c \in C}
           = pointsOf({c.point : c \in C})
<1>. DEFINE A == {[step |-> c.point.step, time |-> c.point.time] : c \in C}
            B == pointsOf({c.point : c \in C})
<1>1. \A x \in A : x \in B
  BY DEF pointsOf
<1>2. \A x \in B : x \in A
  BY DEF pointsOf
<1>. HIDE DEF A, B
<1>3. A = B
  BY <1>1, <1>2
<1>. QED
  BY <1>3 DEF A, B

LEMMA PointsOfMore ==
  ASSUME NEW S, NEW p
  PROVE  pointsOf(S \cup {p}) = pointsOf(S) \cup {[step |-> p.step, time |-> p.time]}
BY DEF pointsOf

LEMMA InitImplements == Init => Promise!Init
<1>. SUFFICES ASSUME Init PROVE Promise!Init
  OBVIOUS
<1>1. accepted
  BY DEF Init, accepted
<1>. QED
  BY <1>1, Parameters DEF Init, Promise!Init

\* A quiet step saves, ends or does nothing.
LEMMA QuietImplements ==
  ASSUME IInv,
         FirstOutput \/ EnterLoop \/ Output \/ FinalCheckPoint \/ FinalPlotFile
  PROVE  [Promise!Next]_(Promise!vars)
<1>1. /\ runPoint' = runPoint /\ par' = par /\ origin' = origin
      /\ runSaved' = runSaved \/ runSaved' = runSaved \cup {runPoint}
  <2>1. level_steps' = level_steps /\ cumtime' = cumtime /\ par' = par
    BY DEF FirstOutput, EnterLoop, Output, FinalCheckPoint, FinalPlotFile, solution
  <2>2. savedPoints' = savedPoints \/ savedPoints' = savedPoints \cup {here}
    BY QuietStep
  <2>3. runPoint = [step |-> here.step, time |-> here.time]
    BY DEF runPoint, here, Point
  <2>4. runPoint' = runPoint /\ origin' = origin
    BY <2>1 DEF runPoint, origin
  <2>5. /\ runSaved = pointsOf(savedPoints) \cup {origin}
        /\ runSaved' = pointsOf(savedPoints') \cup {origin'}
    BY PointsOf DEF runSaved, savedPoints
  <2>6. CASE savedPoints' = savedPoints
    BY <2>1, <2>4, <2>5, <2>6
  <2>7. CASE savedPoints' = savedPoints \cup {here}
    BY <2>1, <2>3, <2>4, <2>5, <2>7, PointsOfMore
  <2>. QED
    BY <2>1, <2>2, <2>4, <2>6, <2>7
<1>2. pc # "ended"
  BY DEF FirstOutput, EnterLoop, Output, FinalCheckPoint, FinalPlotFile
<1>3. CASE FinalPlotFile
  <2>1. pc = "finalPlot" /\ pc' = "ended" /\ checkpoints' = checkpoints
    BY <1>3 DEF FinalPlotFile
  <2>2. runPoint \in runSaved
    BY <2>1, SavedPoint DEF IInv, SaveInv
  <2>3. runSaved' = runSaved
    BY <1>1, <2>1 DEF runSaved
  <2>. QED
    BY <1>1, <2>1, <2>2, <2>3 DEF Promise!Next, Promise!End, runPoint, runSaved, origin
<1>4. CASE ~FinalPlotFile
  <2>1. pc' # "ended"
    BY <1>4 DEF FirstOutput, EnterLoop, Output, FinalCheckPoint
  <2>. QED
    BY <1>1, <1>2, <2>1 DEF Promise!Next, Promise!Save, Promise!vars, runPoint,
                            runSaved, origin
<1>. QED
  BY <1>3, <1>4

\* Every step of the driver is a step of SimulationRun, or none.
LEMMA NextImplements == IInv /\ [Next]_vars => [Promise!Next]_(Promise!vars)
<1>. SUFFICES ASSUME IInv, [Next]_vars PROVE [Promise!Next]_(Promise!vars)
  OBVIOUS
<1>1. CASE StartFresh
  BY <1>1 DEF StartFresh, Promise!Next, Promise!FallBack
<1>2. CASE FirstOutput \/ EnterLoop \/ Output \/ FinalCheckPoint \/ FinalPlotFile
  BY <1>2, QuietImplements
<1>3. CASE Restart
  BY <1>3 DEF Restart, Promise!Next, Promise!FallBack
<1>4. CASE CoarseTimeStep
  <2>1. /\ level_steps' = level_steps + 1 /\ cumtime' > cumtime
        /\ par.stop_time >= 0 => cumtime' <= par.stop_time
    BY <1>4, CoarseStep
  <2>. QED
    BY <1>4, <2>1 DEF CoarseTimeStep, output, Promise!Next, Promise!Advance
<1>5. CASE Crash
  BY <1>5 DEF Crash, solution, output, Promise!vars
<1>6. CASE Stop \/ UNCHANGED vars
  BY <1>6 DEF Stop, vars, solution, output, Promise!vars
<1>. QED
  BY <1>1, <1>2, <1>3, <1>4, <1>5, <1>6 DEF Next, Run

\* The driver is an implementation of SimulationRun.
THEOREM RunImplementsPromise == Spec => ImplementsPromise
<1>1. Spec => []IInv /\ [][Next]_vars /\ Init
  BY SpecIInv, PTL DEF Spec
<1>. QED
  BY <1>1, InitImplements, NextImplements, PTL DEF ImplementsPromise, Promise!Spec
================================================================================

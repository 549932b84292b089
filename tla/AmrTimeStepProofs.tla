-------------------------- MODULE AmrTimeStepProofs --------------------------
(***************************************************************************)
(* What AmrTimeStep guarantees for any number of levels, any subcycling    *)
(* pattern, any fluxes and any number of steps and regrids.                *)
(*                                                                         *)
(* The properties speak of the instants at which a level starts a step.    *)
(* IInv carries the recursion of timeStep in between: what is still owed   *)
(* to each coarser level, how far it is ahead of the level that runs, and  *)
(* which caches may hold anything.                                         *)
(***************************************************************************)
EXTENDS AmrTimeStep, TLAPS, WellFoundedInduction

Versions == [time : Int, syncs : Int]

TypeInv ==
  /\ do_reflux \in BOOLEAN
  /\ n_cycle \in NCycles
  /\ finest_level \in Levels
  /\ active \in 0 .. finest_level
  /\ phase \in {"start", "advance", "post"}
  /\ iteration \in [Levels -> Int]
  /\ step \in 0 .. MaxSteps /\ (phase # "start" => step < MaxSteps)
  /\ regrids \in 0 .. MaxRegrids
  /\ U \in [Levels -> Int] /\ C \in [Levels -> Int]
  /\ flux_reg \in [Levels -> Int]
  /\ data \in [Levels -> [new : Versions, old : Versions]]
  /\ fillPatcher \in [Levels -> SUBSET Versions]

\* Level l is in the middle of, or has just taken, a step of its own.
advanced(l) == l < active \/ (l = active /\ phase = "post")

\* The steps level l has completed in the running step of level l - 1.
completed(l) == IF advanced(l) THEN iteration[l] ELSE iteration[l] - 1

\* The time of a level that runs: its own step, and its steps within the
\* coarser level's.  The levels above it are where it is.
TimeInv ==
  /\ \A l \in Levels :
       advanced(l) => curTime(l) = data[l].old.time + dtLevel(l)
  /\ \A l \in 1 .. active :
       /\ 1 <= iteration[l] /\ iteration[l] <= n_cycle[l]
       /\ curTime(l) = data[l - 1].old.time + completed(l) * dtLevel(l)
  /\ \A l \in active .. finest_level : curTime(l) = curTime(active)

\* In the middle of a level's step the next finer level has left its average.
averaged(l) == IF phase = "post" THEN l > active ELSE l >= active

AverageInv ==
  \A l \in 0 .. finest_level - 1 : averaged(l) => C[l] = U[l + 1] + C[l + 1]

\* A level's cache is emptied before the coarser level changes its data.
PatcherInv ==
  /\ \A l \in Levels :
       (IF phase = "post" THEN l > active + 1 ELSE l > active) \/ l > finest_level
         => fillPatcher[l] = {}
  /\ FillPatcherFresh

\* What level l holds, apart from what is averaged onto it, once its register
\* is applied; and all that the running level holds.
refluxed(l) == U[l] + flux_reg[l + 1]

wholeActive ==
  IF phase = "post" /\ active < finest_level
  THEN refluxed(active) + (U[active + 1] + C[active + 1])
  ELSE U[active] + C[active]

owed == [l \in Levels |-> IF l < active THEN refluxed(l)
                          ELSE IF l = active THEN wholeActive ELSE 0]

BalanceInv == do_reflux => sumUpTo(owed)[active] = 0

IInv == TypeInv /\ TimeInv /\ AverageInv /\ PatcherInv /\ BalanceInv

-----------------------------------------------------------------------------
(***************************************************************************)
(* Induction over an interval, stated with the set S of the numbers that   *)
(* have the property: the least number outside S would be a contradiction. *)
(***************************************************************************)
LEMMA IntervalInduction ==
  ASSUME NEW S, NEW n \in Nat, 0 \in S,
         \A k \in 0 .. n - 1 : k \in S => k + 1 \in S
  PROVE  \A k \in 0 .. n : k \in S
<1> DEFINE T == {k \in 0 .. n : k \notin S}
           R == {ss \in Nat \X Nat : ss[1] < ss[2]}
<1> SUFFICES ASSUME T # {} PROVE FALSE
  OBVIOUS
<1>1. IsWellFoundedOn(R, Nat)
  <2>1. OpToRel(<, Nat) = R
    BY Zenon DEF OpToRel
  <2> QED
    BY <2>1, NatLessThanWellFounded, Zenon
<1>2. PICK x \in T : \A y \in T : <<y, x>> \notin R
  <2>1. T \subseteq Nat
    OBVIOUS
  <2> HIDE DEF T, R
  <2> QED
    BY <1>1, <2>1, WFMin, Zenon
<1>3. ASSUME NEW y \in T, y < x PROVE FALSE
  <2>1. <<y, x>> \in R
    BY <1>3
  <2> HIDE DEF R, T
  <2> QED
    BY <1>2, <2>1
<1>4. x # 0 /\ x - 1 \notin T /\ x - 1 \in 0 .. n - 1
  BY <1>3
<1> QED
  BY <1>4

LEMMA LevelsType ==
  /\ MaxLevel \in Nat
  /\ \A l : l \in Levels <=> l \in Int /\ 0 <= l /\ l <= MaxLevel
BY AmrAssumption DEF Levels

\* The loop of sum_integrated_quantities has a result: partial sums exist.
LEMMA SumExists ==
  ASSUME NEW f
  PROVE  \E s : s = [l \in Levels |-> IF l = 0 THEN f[0] ELSE s[l - 1] + f[l]]
<1> DEFINE Sums(k, s) ==
             s = [l \in 0 .. k |-> IF l = 0 THEN f[0] ELSE s[l - 1] + f[l]]
           S == {k \in Levels : \E s : Sums(k, s)}
<1>1. 0 \in S
  <2> DEFINE s0 == [l \in 0 .. 0 |-> f[0]]
  <2>1. Sums(0, s0)
    OBVIOUS
  <2>2. \E s : Sums(0, s)
    <3> HIDE DEF Sums, s0
    <3> QED
      BY <2>1
  <2> QED
    BY <2>2, LevelsType
<1>2. ASSUME NEW k \in 0 .. MaxLevel - 1, k \in S PROVE k + 1 \in S
  <2>1. PICK s : Sums(k, s)
    BY <1>2
  <2> DEFINE s1 == [l \in 0 .. (k + 1) |-> IF l = k + 1 THEN s[k] + f[k + 1] ELSE s[l]]
  <2>2. \A l \in 0 .. k : s1[l] = s[l]
    BY LevelsType
  <2>3. ASSUME NEW l \in 0 .. (k + 1)
        PROVE  s1[l] = IF l = 0 THEN f[0] ELSE s1[l - 1] + f[l]
    <3>1. CASE l = k + 1
      BY <3>1, <2>2, LevelsType
    <3>2. CASE l # k + 1
      <4>1. l \in 0 .. k /\ (l # 0 => l - 1 \in 0 .. k)
        BY <3>2, LevelsType
      <4>2. s[l] = IF l = 0 THEN f[0] ELSE s[l - 1] + f[l]
        BY <4>1, <2>1
      <4> QED
        BY <4>1, <4>2, <2>2
    <3> QED
      BY <3>1, <3>2
  <2>4. Sums(k + 1, s1)
    BY <2>3
  <2>5. k + 1 \in Levels
    BY LevelsType
  <2> QED
    BY <2>4, <2>5
<1>3. MaxLevel \in S
  <2> HIDE DEF S
  <2> QED
    BY <1>1, <1>2, LevelsType, IntervalInduction
<1> QED
  BY <1>3 DEF Levels

\* The partial sums of a function of the levels.
LEMMA SumUpToUnfolded ==
  ASSUME NEW f \in [Levels -> Int]
  PROVE  /\ sumUpTo(f) \in [Levels -> Int]
         /\ sumUpTo(f)[0] = f[0]
         /\ \A l \in 1 .. MaxLevel : sumUpTo(f)[l] = sumUpTo(f)[l - 1] + f[l]
<1> DEFINE s == sumUpTo(f)
           S == {k \in Levels : s[k] \in Int}
<1>1. s = [l \in Levels |-> IF l = 0 THEN f[0] ELSE s[l - 1] + f[l]]
  BY SumExists, Zenon DEF sumUpTo
<1> HIDE DEF s
<1>2. 0 \in Levels /\ s[0] = f[0]
  BY <1>1, LevelsType
<1>3. ASSUME NEW l \in 1 .. MaxLevel PROVE s[l] = s[l - 1] + f[l]
  BY <1>1, LevelsType
<1>4. \A l \in Levels : l \in S
  <2>1. 0 \in S
    BY <1>2
  <2>2. ASSUME NEW k \in 0 .. MaxLevel - 1, k \in S PROVE k + 1 \in S
    <3>1. k + 1 \in 1 .. MaxLevel /\ k + 1 \in Levels /\ (k + 1) - 1 = k
      BY LevelsType
    <3> QED
      BY <3>1, <2>2, <1>3
  <2> HIDE DEF S
  <2> QED
    BY <2>1, <2>2, LevelsType, IntervalInduction DEF Levels
<1>5. s \in [Levels -> Int]
  BY <1>1, <1>4
<1> QED
  BY <1>2, <1>3, <1>5 DEF s

\* Functions that agree up to level n have the same sum up to there.
LEMMA SumCongruence ==
  ASSUME NEW f \in [Levels -> Int], NEW g \in [Levels -> Int],
         NEW n \in Levels, \A l \in 0 .. n : f[l] = g[l]
  PROVE  sumUpTo(f)[n] = sumUpTo(g)[n]
<1> DEFINE S == {k \in Levels : sumUpTo(f)[k] = sumUpTo(g)[k]}
<1>1. 0 \in S
  BY SumUpToUnfolded, LevelsType
<1>2. ASSUME NEW k \in 0 .. n - 1, k \in S PROVE k + 1 \in S
  <2>1. k + 1 \in 1 .. MaxLevel /\ k + 1 \in 0 .. n /\ (k + 1) - 1 = k
    BY LevelsType
  <2>2. /\ sumUpTo(f)[k + 1] = sumUpTo(f)[k] + f[k + 1]
        /\ sumUpTo(g)[k + 1] = sumUpTo(g)[k] + g[k + 1]
    BY <2>1, SumUpToUnfolded
  <2> QED
    BY <1>2, <2>1, <2>2, LevelsType
<1>3. n \in S
  <2>1. n \in Nat /\ n \in 0 .. n
    BY LevelsType
  <2> HIDE DEF S
  <2>2. \A k \in 0 .. n : k \in S
    BY <1>1, <1>2, <2>1, IntervalInduction, Zenon
  <2> QED
    BY <2>1, <2>2
<1> QED
  BY <1>3

\* The last level's share may be split over one level more.
LEMMA SumSplit ==
  ASSUME NEW f \in [Levels -> Int], NEW g \in [Levels -> Int],
         NEW n \in Levels, n + 1 \in Levels,
         \A l \in 0 .. n - 1 : f[l] = g[l], f[n] = g[n] + g[n + 1]
  PROVE  sumUpTo(f)[n] = sumUpTo(g)[n + 1]
<1>1. sumUpTo(g)[n + 1] = sumUpTo(g)[n] + g[n + 1]
  BY SumUpToUnfolded, LevelsType
<1>2. CASE n = 0
  BY <1>1, <1>2, SumUpToUnfolded
<1>3. CASE n # 0
  <2>1. n - 1 \in Levels /\ n \in 1 .. MaxLevel
    BY <1>3, LevelsType
  <2>2. sumUpTo(f)[n - 1] = sumUpTo(g)[n - 1]
    BY <2>1, SumCongruence
  <2>3. /\ sumUpTo(f)[n] = sumUpTo(f)[n - 1] + f[n]
        /\ sumUpTo(g)[n] = sumUpTo(g)[n - 1] + g[n]
    BY <2>1, SumUpToUnfolded
  <2>4. sumUpTo(g)[n - 1] \in Int /\ g[n] \in Int /\ g[n + 1] \in Int
    BY <2>1, SumUpToUnfolded
  <2> QED
    BY <1>1, <2>2, <2>3, <2>4
<1> QED
  BY <1>2, <1>3

\* And a level may hand something over to the one above it.
LEMMA SumShift ==
  ASSUME NEW f \in [Levels -> Int], NEW g \in [Levels -> Int],
         NEW n \in Levels, n # 0,
         \A l \in 0 .. n - 2 : f[l] = g[l], f[n - 1] + f[n] = g[n - 1] + g[n]
  PROVE  sumUpTo(f)[n] = sumUpTo(g)[n]
<1> DEFINE h == [f EXCEPT ![n - 1] = f[n - 1] + f[n]]
<1>1. n - 1 \in Levels /\ (n - 1) + 1 = n /\ (n - 1) - 1 = n - 2
  BY LevelsType
<1>2. h \in [Levels -> Int] /\ h[n - 1] = f[n - 1] + f[n]
      /\ \A l \in 0 .. n - 2 : h[l] = f[l]
  BY <1>1, LevelsType
<1> HIDE DEF h
<1>3. sumUpTo(h)[n - 1] = sumUpTo(f)[(n - 1) + 1]
  BY <1>1, <1>2, SumSplit
<1>4. sumUpTo(h)[n - 1] = sumUpTo(g)[(n - 1) + 1]
  BY <1>1, <1>2, SumSplit
<1> QED
  BY <1>1, <1>3, <1>4

-----------------------------------------------------------------------------
\* The recursion for the step sizes is founded on the finest level.
LEMMA CyclesExist ==
  \E s : s = [l \in Levels |-> IF l = MaxLevel THEN 1
                               ELSE n_cycle[l + 1] * s[l + 1]]
<1> DEFINE Cycles(k, s) ==
             s = [l \in (MaxLevel - k) .. MaxLevel |->
                    IF l = MaxLevel THEN 1 ELSE n_cycle[l + 1] * s[l + 1]]
           S == {k \in Levels : \E s : Cycles(k, s)}
<1>1. 0 \in S
  <2> DEFINE s0 == [l \in MaxLevel .. MaxLevel |-> 1]
  <2>1. Cycles(0, s0)
    BY LevelsType
  <2>2. \E s : Cycles(0, s)
    <3> HIDE DEF Cycles, s0
    <3> QED
      BY <2>1
  <2> QED
    BY <2>2, LevelsType
<1>2. ASSUME NEW k \in 0 .. MaxLevel - 1, k \in S PROVE k + 1 \in S
  <2>1. PICK s : Cycles(k, s)
    BY <1>2
  <2> DEFINE b == MaxLevel - (k + 1)
             s1 == [l \in b .. MaxLevel |->
                      IF l = b THEN n_cycle[b + 1] * s[b + 1] ELSE s[l]]
  <2>2. b \in Int /\ b < MaxLevel /\ b + 1 = MaxLevel - k
    BY LevelsType
  <2>3. \A l \in (MaxLevel - k) .. MaxLevel : s1[l] = s[l]
    BY <2>2, LevelsType
  <2>4. ASSUME NEW l \in b .. MaxLevel
        PROVE  s1[l] = IF l = MaxLevel THEN 1 ELSE n_cycle[l + 1] * s1[l + 1]
    <3>1. CASE l = b
      <4>1. b + 1 \in (MaxLevel - k) .. MaxLevel
        BY <2>2, LevelsType
      <4>2. s1[l] = n_cycle[b + 1] * s[b + 1] /\ s1[b + 1] = s[b + 1]
        BY <2>2, <2>3, <3>1, <4>1, LevelsType
      <4> QED
        BY <2>2, <3>1, <4>2
    <3>2. CASE l # b
      <4>1. /\ l \in (MaxLevel - k) .. MaxLevel
            /\ l # MaxLevel => l + 1 \in (MaxLevel - k) .. MaxLevel
        BY <2>2, <3>2, LevelsType
      <4>2. s[l] = IF l = MaxLevel THEN 1 ELSE n_cycle[l + 1] * s[l + 1]
        BY <4>1, <2>1
      <4> QED
        BY <4>1, <4>2, <2>3
    <3> QED
      BY <3>1, <3>2
  <2>5. Cycles(k + 1, s1)
    BY <2>4
  <2>6. \E t : Cycles(k + 1, t)
    <3> HIDE DEF Cycles, s1
    <3> QED
      BY <2>5
  <2> QED
    BY <2>6, LevelsType
<1>3. MaxLevel \in S
  <2> HIDE DEF S
  <2> QED
    BY <1>1, <1>2, LevelsType, IntervalInduction
<1>4. \E s : Cycles(MaxLevel, s)
  BY <1>3
<1> QED
  BY <1>4, LevelsType DEF Levels

\* A level's step is n_cycle steps of the next finer level, and positive.
LEMMA StepSizes ==
  ASSUME n_cycle \in NCycles
  PROVE  /\ \A l \in Levels : dtLevel(l) \in Int /\ dtLevel(l) > 0
         /\ \A l \in 1 .. MaxLevel :
              n_cycle[l] \in Int /\ dtLevel(l - 1) = n_cycle[l] * dtLevel(l)
<1> DEFINE s == cyclesBelow
           S == {k \in Levels : s[MaxLevel - k] \in Int /\ s[MaxLevel - k] > 0}
<1>1. s = [l \in Levels |-> IF l = MaxLevel THEN 1 ELSE n_cycle[l + 1] * s[l + 1]]
  BY CyclesExist, Zenon DEF cyclesBelow
<1>2. \A l \in 1 .. MaxLevel : n_cycle[l] \in Nat \ {0}
  BY AmrAssumption
<1> HIDE DEF s
<1>3. ASSUME NEW l \in 1 .. MaxLevel PROVE s[l - 1] = n_cycle[l] * s[l]
  <2>1. l - 1 \in Levels /\ l - 1 # MaxLevel /\ (l - 1) + 1 = l
    BY LevelsType
  <2> QED
    BY <1>1, <2>1
<1>4. s[MaxLevel] = 1
  BY <1>1, LevelsType
<1>5. \A k \in Levels : k \in S
  <2>1. 0 \in S
    BY <1>4, LevelsType
  <2>2. ASSUME NEW k \in 0 .. MaxLevel - 1, k \in S PROVE k + 1 \in S
    <3> DEFINE l == MaxLevel - k
    <3>1. l \in 1 .. MaxLevel /\ MaxLevel - (k + 1) = l - 1 /\ k + 1 \in Levels
      BY LevelsType
    <3>2. s[l] \in Int /\ s[l] > 0
      BY <2>2
    <3> HIDE DEF l
    <3>3. n_cycle[l] \in Int /\ n_cycle[l] > 0
      BY <1>2, <3>1
    <3>4. n_cycle[l] * s[l] \in Int /\ n_cycle[l] * s[l] > 0
      BY <3>2, <3>3
    <3> QED
      BY <1>3, <3>1, <3>4
  <2> HIDE DEF S
  <2> QED
    BY <2>1, <2>2, LevelsType, IntervalInduction DEF Levels
<1>6. ASSUME NEW l \in Levels PROVE s[l] \in Int /\ s[l] > 0
  <2>1. MaxLevel - l \in Levels /\ MaxLevel - (MaxLevel - l) = l
    BY LevelsType
  <2> QED
    BY <1>5, <2>1
<1> QED
  BY <1>2, <1>3, <1>6 DEF s, dtLevel

\* The subcycling pattern is fixed, and the step sizes with it.
LEMMA StepSizesFixed ==
  ASSUME n_cycle' = n_cycle PROVE \A l \in Levels : dtLevel(l)' = dtLevel(l)
<1>1. cyclesBelow' = cyclesBelow
  BY Zenon DEF cyclesBelow
<1> QED
  BY <1>1 DEF dtLevel

-----------------------------------------------------------------------------
\* The level that runs is one of the levels in use.
LEMMA ActiveLevel ==
  ASSUME TypeInv
  PROVE  /\ active \in Int /\ 0 <= active /\ active <= finest_level
         /\ finest_level \in Int /\ finest_level <= MaxLevel /\ MaxLevel \in Int
         /\ active \in Levels /\ dtLevel(active) \in Int /\ dtLevel(active) > 0
         /\ \A l \in Int : 0 <= l /\ l <= finest_level => l \in Levels
<1>1. finest_level \in 0 .. MaxLevel /\ active \in 0 .. finest_level
      /\ n_cycle \in NCycles
  BY DEF TypeInv, Levels
<1>2. /\ active \in Int /\ 0 <= active /\ active <= finest_level
      /\ finest_level \in Int /\ finest_level <= MaxLevel /\ MaxLevel \in Int
  BY <1>1, AmrAssumption
<1>3. active \in Levels /\ \A l \in Int : 0 <= l /\ l <= finest_level => l \in Levels
  BY <1>2, LevelsType
<1> QED
  BY <1>1, <1>2, <1>3, StepSizes

LEMMA OwedType == TypeInv => owed \in [Levels -> Int]
<1> SUFFICES ASSUME TypeInv, NEW l \in Levels
             PROVE  (IF l < active THEN refluxed(l)
                     ELSE IF l = active THEN wholeActive ELSE 0) \in Int
  BY DEF owed
<1>1. \A k \in Levels : U[k] \in Int /\ C[k] \in Int /\ flux_reg[k] \in Int
  BY DEF TypeInv
<1>2. active \in Levels /\ (active < finest_level => active + 1 \in Levels)
      /\ (l < active => l + 1 \in Levels)
  BY LevelsType, ActiveLevel
<1> QED
  BY <1>1, <1>2 DEF refluxed, wholeActive

LEMMA InitIInv == Init => IInv
<1> SUFFICES ASSUME Init PROVE IInv
  OBVIOUS
<1>1. TypeInv
  <2>1. data \in [Levels -> [new : Versions, old : Versions]]
    BY DEF Init, Version, NoData, Never, Versions
  <2> QED
    BY <2>1, AmrAssumption, LevelsType DEF Init, TypeInv
<1>2. TimeInv
  BY LevelsType DEF Init, TimeInv, advanced, curTime, Version
<1>3. AverageInv /\ PatcherInv
  BY LevelsType DEF Init, AverageInv, PatcherInv, FillPatcherFresh
<1>4. BalanceInv
  <2>1. owed[0] = 0
    BY LevelsType DEF Init, owed, wholeActive
  <2> QED
    BY <1>1, <2>1, OwedType, SumUpToUnfolded DEF Init, BalanceInv
<1> QED
  BY <1>1, <1>2, <1>3, <1>4 DEF IInv

-----------------------------------------------------------------------------
\* What a step of the running level does to the contents and the registers:
\* it takes fine from the coarser level and leaves crse under the finer one.
LEMMA AdvancedContent ==
  ASSUME IInv, Advance
  PROVE  \E fine \in Int, crse \in Int :
           /\ active = 0 => fine = 0
           /\ active = finest_level => crse = 0
           /\ U' = [U EXCEPT ![active] = @ + (fine - crse)]
           /\ C' = [C EXCEPT ![active] = @ + crse]
           /\ flux_reg' \in [Levels -> Int]
           /\ do_reflux =>
                /\ \A l \in 0 .. active - 1 : flux_reg'[l] = flux_reg[l]
                /\ active > 0 => flux_reg'[active] = flux_reg[active] - fine
                /\ active < finest_level => flux_reg'[active + 1] = crse
<1> DEFINE a == active
           dt == dtLevel(a)
           reset == resetRegisters(a)
<1>1. /\ a \in Levels /\ a \in Int /\ a <= finest_level /\ dt \in Int
      /\ a < finest_level => a + 1 \in Levels
      /\ finest_level \in Int /\ finest_level <= MaxLevel
  BY ActiveLevel DEF IInv
<1>2. PICK fine0 \in (IF a > 0 THEN Fluxes ELSE {0}),
           crse0 \in (IF a < finest_level THEN Fluxes ELSE {0}) :
        /\ U' = [U EXCEPT ![a] = @ + dt * fine0 - dt * crse0]
        /\ C' = [C EXCEPT ![a] = @ + dt * crse0]
        /\ flux_reg' = update_flux_registers(reset, a, dt * crse0, dt * fine0)
  BY DEF Advance, advance
<1> DEFINE fine == dt * fine0
           crse == dt * crse0
<1>3. fine \in Int /\ crse \in Int
  BY <1>1, AmrAssumption
<1>4. (a = 0 => fine = 0) /\ (a = finest_level => crse = 0)
  BY <1>1
<1>5. /\ U' = [U EXCEPT ![a] = @ + (fine - crse)]
      /\ C' = [C EXCEPT ![a] = @ + crse]
      /\ flux_reg' = update_flux_registers(reset, a, crse, fine)
  BY <1>2
<1> HIDE DEF fine, crse
<1>6. /\ reset \in [Levels -> Int]
      /\ \A l \in 0 .. a : reset[l] = flux_reg[l]
      /\ do_reflux /\ a < finest_level => reset[a + 1] = 0
  BY <1>1, LevelsType DEF IInv, TypeInv, resetRegisters
<1> HIDE DEF reset
<1>7. flux_reg' \in [Levels -> Int]
  BY <1>3, <1>5, <1>6 DEF update_flux_registers
<1>8. ASSUME do_reflux
      PROVE  /\ \A l \in 0 .. a - 1 : flux_reg'[l] = flux_reg[l]
             /\ a > 0 => flux_reg'[a] = flux_reg[a] - fine
             /\ a < finest_level => flux_reg'[a + 1] = crse
  <2>1. \A k \in Levels : flux_reg'[k] =
          IF k = a + 1 /\ a < finest_level THEN reset[k] + crse
          ELSE IF k = a /\ a > 0 THEN reset[k] - fine ELSE reset[k]
    BY <1>5, <1>8 DEF update_flux_registers
  <2> QED
    BY <2>1, <1>1, <1>3, <1>6, <1>8, LevelsType
<1> QED
  BY <1>3, <1>4, <1>5, <1>7, <1>8

\* The control of a step: the next finer level starts, or this one ends.
LEMMA AdvancedControl ==
  ASSUME IInv, Advance
  PROVE  /\ n_cycle' = n_cycle /\ finest_level' = finest_level
         /\ do_reflux' = do_reflux /\ phase # "post"
         /\ \/ /\ active < finest_level
               /\ active' = active + 1 /\ phase' = "start"
               /\ iteration' = [iteration EXCEPT ![active + 1] = 1]
            \/ /\ active = finest_level /\ active' = active /\ phase' = "post"
               /\ iteration' = iteration
<1>1. /\ n_cycle' = n_cycle /\ finest_level' = finest_level
      /\ do_reflux' = do_reflux /\ phase # "post"
  BY DEF Advance, parameters
<1>2. CASE active < finest_level
  BY <1>1, <1>2 DEF Advance
<1>3. CASE ~ (active < finest_level)
  <2>1. active = finest_level
    BY <1>3, ActiveLevel DEF IInv
  <2> QED
    BY <1>1, <1>3, <2>1 DEF Advance
<1> QED
  BY <1>2, <1>3

LEMMA AdvanceTypeInv == ASSUME IInv, Advance PROVE TypeInv'
<1>1. active \in Levels /\ active + 1 \in Int /\ finest_level \in Int
      /\ (active < finest_level => active + 1 \in 0 .. finest_level)
      /\ dtLevel(active) \in Int
  BY ActiveLevel DEF IInv
<1>2. U' \in [Levels -> Int] /\ C' \in [Levels -> Int]
      /\ flux_reg' \in [Levels -> Int]
  <2>1. PICK fine \in Int, crse \in Int :
          /\ U' = [U EXCEPT ![active] = @ + (fine - crse)]
          /\ C' = [C EXCEPT ![active] = @ + crse]
          /\ flux_reg' \in [Levels -> Int]
    BY AdvancedContent
  <2> QED
    BY <2>1, <1>1 DEF IInv, TypeInv
<1>3. data' \in [Levels -> [new : Versions, old : Versions]]
  <2>1. curTime(active) \in Int
    BY <1>1 DEF IInv, TypeInv, curTime, Versions
  <2>2. Version(curTime(active) + dtLevel(active), 0) \in Versions
    BY <1>1, <2>1 DEF Version, Versions
  <2>3. data' = [data EXCEPT ![active] =
          [new |-> Version(curTime(active) + dtLevel(active), 0), old |-> @.new]]
    BY DEF Advance, advance
  <2> QED
    BY <1>1, <2>2, <2>3 DEF IInv, TypeInv
<1>4. fillPatcher' \in [Levels -> SUBSET Versions]
  <2>1. active # 0 => coarseData(active) \subseteq Versions
    <3>1. active # 0 => active - 1 \in Levels
      BY <1>1, LevelsType
    <3> QED
      BY <3>1 DEF IInv, TypeInv, coarseData
  <2>2. ASSUME NEW t PROVE active # 0 => filled(active, t) \subseteq Versions
    BY <2>1 DEF filled
  <2> QED
    BY <1>1, <2>2 DEF Advance, advance, IInv, TypeInv
<1>5. iteration' \in [Levels -> Int]
  BY AdvancedControl DEF IInv, TypeInv
<1> QED
  BY <1>1, <1>2, <1>3, <1>4, <1>5, AdvancedControl DEF Advance, IInv, TypeInv

\* The data of the level that takes a step, and of the others.
LEMMA AdvancedData ==
  ASSUME IInv, Advance
  PROVE  /\ data'[active].old = data[active].new
         /\ data'[active].new.time = curTime(active) + dtLevel(active)
         /\ \A l \in Levels : l # active => data'[l] = data[l]
BY ActiveLevel DEF Advance, advance, IInv, TypeInv, Version

LEMMA AdvanceTimeInv == ASSUME IInv, Advance PROVE TimeInv'
<1> DEFINE a == active
<1>0. /\ a \in Int /\ 0 <= a /\ a <= finest_level /\ a \in Levels
      /\ finest_level \in Int /\ finest_level <= MaxLevel /\ MaxLevel \in Int
      /\ \A l \in Levels : dtLevel(l)' = dtLevel(l) /\ dtLevel(l) \in Int
      /\ \A l \in Levels : curTime(l) \in Int /\ iteration[l] \in Int
  BY ActiveLevel, AdvancedControl, StepSizes, StepSizesFixed
  DEF IInv, TypeInv, curTime, Versions
<1>1. \A l \in Levels : advanced(l)' <=> l <= a
  BY <1>0, AdvancedControl, LevelsType DEF advanced
<1>2. /\ \A l \in Levels : l # a => curTime(l)' = curTime(l)
      /\ \A l \in Levels : l = a => curTime(l)' = curTime(l) + dtLevel(l)
  BY <1>0, AdvancedData DEF curTime
<1>3. /\ data'[a].old.time = curTime(a)
      /\ \A l \in Levels : l # a => data'[l] = data[l]
  BY <1>0, AdvancedData DEF curTime
<1>4. ASSUME NEW l \in Levels, l <= a
      PROVE  curTime(l)' = data'[l].old.time + dtLevel(l)'
  <2>1. CASE l = a
    BY <2>1, <1>0, <1>2, <1>3
  <2>2. CASE l # a
    <3>1. advanced(l)
      BY <2>2, <1>0, <1>4, LevelsType DEF advanced
    <3>2. curTime(l) = data[l].old.time + dtLevel(l)
      BY <3>1 DEF IInv, TimeInv
    <3> QED
      BY <2>2, <3>2, <1>0, <1>2, <1>3
  <2> QED
    BY <2>1, <2>2
<1>5. ASSUME NEW l \in 1 .. active'
      PROVE  /\ 1 <= iteration'[l] /\ iteration'[l] <= n_cycle[l]
             /\ curTime(l)' = data'[l - 1].old.time + completed(l)' * dtLevel(l)'
  <2>1. /\ l \in Levels /\ l - 1 \in Levels /\ l \in 1 .. MaxLevel
        /\ l <= a \/ (l = a + 1 /\ a < finest_level)
    BY <1>0, AdvancedControl, LevelsType
  <2>2. CASE l = a + 1
    <3>1. /\ iteration'[l] = 1 /\ completed(l)' = 0
      BY <2>1, <2>2, <1>0, <1>1, AdvancedControl DEF completed, IInv, TypeInv
    <3>2. curTime(l) = curTime(a)
      BY <2>1, <2>2, <1>0 DEF IInv, TimeInv
    <3>3. n_cycle[l] \in Int /\ 1 <= n_cycle[l]
      <4>1. n_cycle \in [1 .. MaxLevel -> Nat \ {0}]
        BY AmrAssumption DEF IInv, TypeInv
      <4> QED
        BY <2>1, <4>1
    <3>4. data'[l - 1].old.time = curTime(a)
      BY <2>2, <1>0, <1>3
    <3>5. completed(l)' * dtLevel(l)' = 0
      BY <3>1, <2>1, <1>0
    <3> QED
      BY <2>1, <2>2, <3>1, <3>2, <3>3, <3>4, <3>5, <1>0, <1>2
  <2>3. CASE l <= a
    <3>1. iteration'[l] = iteration[l] /\ completed(l)' = iteration[l]
      BY <2>1, <2>3, <1>0, <1>1, AdvancedControl DEF completed, IInv, TypeInv
    <3>2. /\ 1 <= iteration[l] /\ iteration[l] <= n_cycle[l]
          /\ curTime(l) = data[l - 1].old.time + completed(l) * dtLevel(l)
      BY <2>1, <2>3, <1>0 DEF IInv, TimeInv
    <3>3. data'[l - 1].old.time = data[l - 1].old.time
          /\ data[l - 1].old.time \in Int
      BY <2>1, <2>3, <1>0, <1>3 DEF IInv, TypeInv, Versions
    <3>4. CASE l = a
      <4>1. completed(l) = iteration[l] - 1
        BY <3>4, <1>0, AdvancedControl DEF completed, advanced
      <4>2. (iteration[l] - 1) * dtLevel(l) + dtLevel(l)
              = iteration[l] * dtLevel(l)
        BY <2>1, <1>0
      <4>3. (iteration[l] - 1) * dtLevel(l) \in Int
            /\ iteration[l] * dtLevel(l) \in Int /\ dtLevel(l) \in Int
        BY <2>1, <1>0
      <4>4. completed(l)' * dtLevel(l)' = iteration[l] * dtLevel(l)
        BY <2>1, <3>1, <1>0
      <4>5. curTime(l)' = curTime(l) + dtLevel(l)
        BY <2>1, <3>4, <1>2
      <4>6. curTime(l) = data[l - 1].old.time + (iteration[l] - 1) * dtLevel(l)
        BY <3>2, <4>1
      <4> HIDE DEF a
      <4>7. curTime(l)' = data'[l - 1].old.time + iteration[l] * dtLevel(l)
        BY <3>3, <4>2, <4>3, <4>5, <4>6
      <4> QED
        BY <3>1, <3>2, <4>4, <4>7
    <3>5. CASE l # a
      <4>1. completed(l) = iteration[l]
        BY <2>1, <2>3, <3>5, <1>0 DEF completed, advanced
      <4> QED
        BY <2>1, <3>1, <3>2, <3>3, <3>5, <4>1, <1>0, <1>2
    <3> QED
      BY <3>4, <3>5
  <2> QED
    BY <2>1, <2>2, <2>3
<1>6. ASSUME NEW l \in active' .. finest_level'
      PROVE  curTime(l)' = curTime(active)'
  <2>1. CASE active' = a + 1
    <3>1. /\ l \in a .. finest_level /\ l \in Levels /\ l # a
          /\ a + 1 \in a .. finest_level /\ a + 1 \in Levels /\ a + 1 # a
      BY <2>1, <1>0, AdvancedControl, LevelsType
    <3>2. curTime(l) = curTime(a) /\ curTime(a + 1) = curTime(a)
      BY <3>1 DEF IInv, TimeInv
    <3>3. curTime(l)' = curTime(l) /\ data'[a + 1] = data[a + 1]
      BY <3>1, <1>2, <1>3
    <3> QED
      BY <2>1, <3>2, <3>3 DEF curTime
  <2>2. CASE active' = a /\ a = finest_level
    BY <2>2, <1>0, AdvancedControl DEF curTime
  <2> QED
    BY <2>1, <2>2, AdvancedControl
<1> QED
  BY <1>1, <1>4, <1>5, <1>6, AdvancedControl DEF TimeInv

LEMMA AdvanceAverageInv == ASSUME IInv, Advance PROVE AverageInv'
<1>1. PICK fine \in Int, crse \in Int :
        /\ U' = [U EXCEPT ![active] = @ + (fine - crse)]
        /\ C' = [C EXCEPT ![active] = @ + crse]
  BY AdvancedContent
<1>2. ASSUME NEW l \in 0 .. finest_level' - 1, averaged(l)'
      PROVE  C'[l] = U'[l + 1] + C'[l + 1]
  <2>1. /\ l \in Levels /\ l + 1 \in Levels /\ l > active /\ averaged(l)
        /\ l \in 0 .. finest_level - 1
    BY <1>2, ActiveLevel, AdvancedControl DEF IInv, averaged
  <2>2. C[l] = U[l + 1] + C[l + 1]
    BY <2>1 DEF IInv, AverageInv
  <2>3. C'[l] = C[l] /\ U'[l + 1] = U[l + 1] /\ C'[l + 1] = C[l + 1]
    BY <1>1, <2>1, ActiveLevel DEF IInv, TypeInv
  <2> QED
    BY <2>2, <2>3
<1> QED
  BY <1>2 DEF AverageInv

LEMMA AdvancePatcherInv == ASSUME IInv, Advance PROVE PatcherInv'
<1> DEFINE a == active
<1>0. /\ a \in Int /\ 0 <= a /\ a <= finest_level /\ a \in Levels
      /\ finest_level \in Int /\ finest_level <= MaxLevel /\ MaxLevel \in Int
      /\ \A l \in Int : 0 <= l /\ l <= finest_level => l \in Levels
      /\ phase # "post" /\ finest_level' = finest_level
  BY ActiveLevel, AdvancedControl DEF IInv
<1>1. \A l \in Levels : l # a => fillPatcher'[l] = fillPatcher[l]
  BY <1>0 DEF Advance, advance, IInv, TypeInv
<1>2. ASSUME NEW l \in Levels,
             \/ IF phase' = "post" THEN l > active' + 1 ELSE l > active'
             \/ l > finest_level'
      PROVE  fillPatcher'[l] = {}
  <2>1. l > a
    BY <1>0, <1>2, LevelsType, AdvancedControl
  <2>2. fillPatcher[l] = {}
    BY <2>1, <1>0 DEF IInv, PatcherInv
  <2> QED
    BY <2>1, <2>2, <1>0, <1>1
<1>3. ASSUME NEW l \in 1 .. finest_level,
             NEW v \in fillPatcher'[l], NEW w \in coarseData(l)',
             v.time = w.time
      PROVE  v = w
  <2>1. l \in Levels /\ l - 1 \in Levels /\ l \in Int
    BY <1>0
  <2>2. l <= a
    <3>1. SUFFICES ASSUME l > a PROVE FALSE
      BY <2>1, <1>0
    <3>2. fillPatcher'[l] = {}
      BY <3>1, <2>1, <1>0, <1>1 DEF IInv, PatcherInv
    <3> QED
      BY <3>2
  <2>3. coarseData(l)' = coarseData(l)
    BY <2>1, <2>2, <1>0, AdvancedData DEF coarseData
  <2>4. CASE v \in fillPatcher[l]
    BY <2>3, <2>4, <1>3 DEF IInv, PatcherInv, FillPatcherFresh
  <2>5. CASE v \notin fillPatcher[l]
    <3>1. l = a /\ a # 0
      BY <1>1, <2>1, <2>5, <1>0
    <3>2. v \in coarseData(l)
      <4>1. fillPatcher'[a] = fillPatcher[a] \cup filled(a, curTime(a))
                              \cup filled(a, curTime(a) + dtLevel(a))
        BY <3>1, <1>0 DEF Advance, advance, IInv, TypeInv
      <4> QED
        BY <2>5, <3>1, <4>1 DEF filled
    <3>3. data[l - 1].new.time = data[l - 1].old.time + dtLevel(l - 1)
      BY <2>1, <3>1, <1>0 DEF IInv, TimeInv, advanced, curTime
    <3>4. /\ dtLevel(l - 1) \in Int /\ dtLevel(l - 1) > 0
          /\ data[l - 1].old.time \in Int
      BY <2>1, StepSizes DEF IInv, TypeInv, Versions
    <3>5. data[l - 1].new.time # data[l - 1].old.time
      BY <3>3, <3>4
    <3> QED
      BY <1>3, <2>3, <3>2, <3>5 DEF coarseData
  <2> QED
    BY <2>4, <2>5
<1>4. FillPatcherFresh'
  BY <1>0, <1>3 DEF FillPatcherFresh
<1> QED
  BY <1>2, <1>4 DEF PatcherInv

LEMMA AdvanceBalanceInv == ASSUME IInv, Advance PROVE BalanceInv'
<1> DEFINE a == active
<1> SUFFICES ASSUME do_reflux PROVE sumUpTo(owed')[active'] = 0
  BY AdvancedControl DEF BalanceInv
<1>1. /\ a \in Int /\ 0 <= a /\ a <= finest_level /\ a \in Levels
      /\ finest_level \in Int /\ finest_level <= MaxLevel /\ MaxLevel \in Int
      /\ \A l \in Int : 0 <= l /\ l <= finest_level => l \in Levels
      /\ phase # "post" /\ finest_level' = finest_level
  BY ActiveLevel, AdvancedControl DEF IInv
<1>2. PICK fine \in Int, crse \in Int :
        /\ a = 0 => fine = 0
        /\ a = finest_level => crse = 0
        /\ U' = [U EXCEPT ![a] = @ + (fine - crse)]
        /\ C' = [C EXCEPT ![a] = @ + crse]
        /\ \A l \in 0 .. a - 1 : flux_reg'[l] = flux_reg[l]
        /\ a > 0 => flux_reg'[a] = flux_reg[a] - fine
        /\ a < finest_level => flux_reg'[a + 1] = crse
  BY AdvancedContent
<1>3. owed \in [Levels -> Int] /\ owed' \in [Levels -> Int]
  <2>1. TypeInv' => (owed \in [Levels -> Int])'
    BY OwedType, PTL
  <2> QED
    BY <2>1, OwedType, AdvanceTypeInv DEF IInv
<1>4. \A l \in Levels : U[l] \in Int /\ C[l] \in Int /\ flux_reg[l] \in Int
  BY DEF IInv, TypeInv
<1>5. \A l \in 0 .. a - 2 : owed'[l] = owed[l]
  <2> SUFFICES ASSUME NEW l \in 0 .. a - 2 PROVE owed'[l] = owed[l]
    OBVIOUS
  <2>1. l \in Levels /\ l < a /\ l < active' /\ l + 1 \in 0 .. a - 1 /\ l # a
    BY <1>1, AdvancedControl
  <2>2. U'[l] = U[l] /\ flux_reg'[l + 1] = flux_reg[l + 1]
    BY <2>1, <1>2 DEF IInv, TypeInv
  <2> QED
    BY <2>1, <2>2 DEF owed, refluxed
<1>6. ASSUME a # 0
      PROVE  /\ owed[a - 1] = U[a - 1] + flux_reg[a] /\ a - 1 \in Levels
             /\ owed'[a - 1] = owed[a - 1] - fine
  <2>1. a - 1 \in Levels /\ a - 1 < a /\ a - 1 < active' /\ (a - 1) + 1 = a
    BY <1>1, <1>6, AdvancedControl
  <2>2. U'[a - 1] = U[a - 1] /\ flux_reg'[a] = flux_reg[a] - fine
    BY <2>1, <1>1, <1>2, <1>6 DEF IInv, TypeInv
  <2>3. owed[a - 1] = U[a - 1] + flux_reg[a]
    BY <2>1 DEF owed, refluxed
  <2>4. owed'[a - 1] = U'[a - 1] + flux_reg'[a]
    BY <2>1 DEF owed, refluxed
  <2> QED
    BY <2>1, <2>2, <2>3, <2>4, <1>1, <1>4
<1>7. owed[a] = U[a] + C[a] /\ sumUpTo(owed)[a] = 0
  BY <1>1 DEF owed, wholeActive, IInv, BalanceInv
\* The content of level a after the step, without what it leaves to level a + 1.
<1> DEFINE f == [l \in Levels |-> IF l = a THEN owed[a] + fine
                                 ELSE IF l = a - 1 THEN owed[l] - fine
                                 ELSE owed[l]]
<1>8. /\ f \in [Levels -> Int] /\ f[a] = owed[a] + fine
      /\ \A l \in 0 .. a - 1 : f[l] = owed'[l]
  <2>1. CASE a = 0
    BY <2>1, <1>1, <1>3
  <2>2. CASE a # 0
    <3>1. /\ f[a - 1] = owed[a - 1] - fine /\ f[a] = owed[a] + fine
          /\ \A l \in 0 .. a - 2 : f[l] = owed[l]
          /\ f \in [Levels -> Int]
      BY <2>2, <1>1, <1>3, <1>6
    <3> QED
      BY <2>2, <3>1, <1>1, <1>5, <1>6
  <2> QED
    BY <2>1, <2>2
<1> HIDE DEF f
<1>9. sumUpTo(f)[a] = 0
  <2>1. CASE a = 0
    BY <2>1, <1>1, <1>2, <1>3, <1>7, <1>8, SumUpToUnfolded
  <2>2. CASE a # 0
    <3>1. f[a - 1] + f[a] = owed[a - 1] + owed[a]
      BY <2>2, <1>1, <1>3, <1>4, <1>6, <1>8
    <3>2. \A l \in 0 .. a - 2 : f[l] = owed[l]
      BY <1>1, <1>5, <1>8
    <3> QED
      BY <2>2, <3>1, <3>2, <1>1, <1>3, <1>7, <1>8, SumShift
  <2> QED
    BY <2>1, <2>2
<1>10. CASE a = finest_level
  <2>1. active' = a /\ wholeActive' = U'[a] + C'[a]
    BY <1>1, <1>10, AdvancedControl DEF wholeActive
  <2>2. owed'[a] = U'[a] + C'[a]
    BY <2>1, <1>1 DEF owed
  <2>3. U'[a] = U[a] + (fine - crse) /\ C'[a] = C[a] + crse
    BY <1>1, <1>2 DEF IInv, TypeInv
  <2>4. owed'[a] = f[a]
    BY <2>2, <2>3, <1>1, <1>4, <1>7, <1>8
  <2> QED
    BY <2>1, <2>4, <1>1, <1>3, <1>8, <1>9, SumCongruence
<1>11. CASE a < finest_level
  <2>1. active' = a + 1 /\ phase' = "start" /\ a + 1 \in Levels
    BY <1>1, <1>11, AdvancedControl
  <2>2. owed'[a] = U'[a] + flux_reg'[a + 1] /\ owed'[a + 1] = U'[a + 1] + C'[a + 1]
    BY <2>1, <1>1 DEF owed, refluxed, wholeActive
  <2>3. /\ U'[a] = U[a] + (fine - crse) /\ flux_reg'[a + 1] = crse
        /\ U'[a + 1] = U[a + 1] /\ C'[a + 1] = C[a + 1]
    BY <2>1, <1>1, <1>2, <1>11 DEF IInv, TypeInv
  <2>4. C[a] = U[a + 1] + C[a + 1]
    BY <1>1, <1>11 DEF IInv, AverageInv, averaged
  <2>5. f[a] = owed'[a] + owed'[a + 1]
    BY <2>1, <2>2, <2>3, <2>4, <1>1, <1>4, <1>7, <1>8
  <2> QED
    BY <2>1, <2>5, <1>1, <1>3, <1>8, <1>9, SumSplit
<1> QED
  BY <1>1, <1>10, <1>11

-----------------------------------------------------------------------------
\* The end of a level's step: the next step of the level or, after its last
\* one, the end of the coarser level's step.
LEMMA PostControl ==
  ASSUME IInv, PostTimestep
  PROVE  /\ n_cycle' = n_cycle /\ finest_level' = finest_level
         /\ do_reflux' = do_reflux /\ flux_reg' = flux_reg /\ regrids' = regrids
         /\ phase = "post"
         /\ \/ /\ active = 0 /\ active' = active /\ phase' = "start"
               /\ iteration' = iteration /\ step' = step + 1
            \/ /\ active > 0 /\ iteration[active] < n_cycle[active]
               /\ active' = active /\ phase' = "start" /\ step' = step
               /\ iteration' = [iteration EXCEPT ![active] = @ + 1]
            \/ /\ active > 0 /\ ~ (iteration[active] < n_cycle[active])
               /\ active' = active - 1 /\ phase' = "post" /\ step' = step
               /\ iteration' = iteration
BY DEF PostTimestep, parameters, moreCycles

\* Counting one more change of a level's data.
LEMMA SyncedType ==
  ASSUME NEW d \in [new : Versions, old : Versions], NEW m \in Int
  PROVE  [d EXCEPT !.new.syncs = m] \in [new : Versions, old : Versions]
<1>1. d.new \in Versions /\ d.old \in Versions
  OBVIOUS
<1>2. [d.new EXCEPT !.syncs = m] \in Versions
  BY <1>1 DEF Versions
<1>3. [d EXCEPT !.new.syncs = m] = [d EXCEPT !.new = [d.new EXCEPT !.syncs = m]]
  BY <1>1
<1> QED
  BY <1>2, <1>3

\* Refluxing and averaging down, whatever share of the correction goes to the
\* fine level and whatever is left beneath it.
LEMMA RefluxedContent ==
  ASSUME U \in [Levels -> Int], C \in [Levels -> Int], flux_reg \in [Levels -> Int],
         NEW a \in Levels, a \in Int, a + 1 \in Levels,
         NEW shared \in Int, NEW beneath \in Int,
         LET s == refluxThenAverage(levelContent, a, shared, beneath)
         IN  U' = s.outside /\ C' = s.under
  PROVE  /\ U' \in [Levels -> Int] /\ C' \in [Levels -> Int]
         /\ \A l \in Levels : l # a => C'[l] = C[l]
         /\ \A l \in Levels : l # a /\ l # a + 1 => U'[l] = U[l]
         /\ C'[a] = U'[a + 1] + C'[a + 1]
         /\ do_reflux => /\ U'[a] = U[a] + flux_reg[a + 1] - shared
                         /\ U'[a + 1] = U[a + 1] + shared
<1> DEFINE r == reflux(levelContent, a, shared, beneath)
<1>1. /\ do_reflux => r = [outside |-> [[U EXCEPT ![a] = U[a] + flux_reg[a + 1] - shared]
                                          EXCEPT ![a + 1] = U[a + 1] + shared],
                            under |-> [C EXCEPT ![a] = C[a] + beneath]]
      /\ ~ do_reflux => r = [outside |-> U, under |-> C]
  BY DEF reflux, Reflux, levelContent
<1>2. /\ r.outside \in [Levels -> Int] /\ r.under \in [Levels -> Int]
      /\ \A l \in Levels : l # a => r.under[l] = C[l]
      /\ \A l \in Levels : l # a /\ l # a + 1 => r.outside[l] = U[l]
      /\ do_reflux => /\ r.outside[a] = U[a] + flux_reg[a + 1] - shared
                      /\ r.outside[a + 1] = U[a + 1] + shared
  <2>1. CASE do_reflux
    BY <1>1, <2>1
  <2>2. CASE ~ do_reflux
    BY <1>1, <2>2
  <2> QED
    BY <2>1, <2>2
<1>3. \E f, g : r = [outside |-> f, under |-> g]
  BY <1>1, Zenon
<1>4. U' = avgDown(r, a).outside /\ C' = avgDown(r, a).under
  BY DEF refluxThenAverage
<1> HIDE DEF r
<1>5. U' = r.outside /\ C' = [r.under EXCEPT ![a] = r.outside[a + 1] + r.under[a + 1]]
  BY <1>3, <1>4 DEF avgDown
<1> QED
  BY <1>2, <1>5

\* What it does to the contents, the caches and the versions of the data.
LEMMA PostContent ==
  ASSUME IInv, PostTimestep
  PROVE  /\ U' \in [Levels -> Int] /\ C' \in [Levels -> Int]
         /\ \A l \in Levels : l # active => C'[l] = C[l]
         /\ \A l \in Levels : l # active /\ l # active + 1 => U'[l] = U[l]
         /\ do_reflux => U'[active] + C'[active] = wholeActive
         /\ active < finest_level =>
              C'[active] = U'[active + 1] + C'[active + 1]
         /\ fillPatcher' \in [Levels -> SUBSET Versions]
         /\ \A l \in Levels :
              fillPatcher'[l] = IF active < finest_level /\ l = active + 1
                                THEN {} ELSE fillPatcher[l]
         /\ data' \in [Levels -> [new : Versions, old : Versions]]
         /\ \A l \in Levels : /\ data'[l].new.time = data[l].new.time
                             /\ data'[l].old = data[l].old
         /\ \A l \in Levels : l < active => data'[l] = data[l]
<1> DEFINE a == active
<1>1. /\ a \in Int /\ a <= finest_level /\ a \in Levels /\ finest_level \in Int
      /\ a < finest_level => a + 1 \in Levels
      /\ phase = "post"
  BY ActiveLevel, PostControl DEF IInv
<1>2. /\ U \in [Levels -> Int] /\ C \in [Levels -> Int]
      /\ flux_reg \in [Levels -> Int]
      /\ data \in [Levels -> [new : Versions, old : Versions]]
      /\ fillPatcher \in [Levels -> SUBSET Versions]
  BY DEF IInv, TypeInv
<1>3. CASE a < finest_level
  <2>0. /\ fillPatcher' = [fillPatcher EXCEPT ![a + 1] = {}]
        /\ data' = [data EXCEPT ![a].new.syncs = @ + 1,
                     ![a + 1].new.syncs = IF do_reflux THEN @ + 1 ELSE @]
    BY <1>3 DEF PostTimestep, post_timestep, resetFillPatcher
  <2>1. PICK shared \in Fluxes, beneath \in Fluxes :
             LET s == refluxThenAverage(levelContent, a, shared, beneath)
             IN  U' = s.outside /\ C' = s.under
    BY <1>3 DEF PostTimestep, post_timestep
  <2>2. shared \in Int /\ beneath \in Int
    BY AmrAssumption
  <2>3. /\ U' \in [Levels -> Int] /\ C' \in [Levels -> Int]
        /\ \A l \in Levels : l # a => C'[l] = C[l]
        /\ \A l \in Levels : l # a /\ l # a + 1 => U'[l] = U[l]
        /\ C'[a] = U'[a + 1] + C'[a + 1]
        /\ do_reflux => /\ U'[a] = U[a] + flux_reg[a + 1] - shared
                        /\ U'[a + 1] = U[a + 1] + shared
    BY <1>1, <1>2, <1>3, <2>1, <2>2, RefluxedContent
  <2>4. do_reflux => U'[a] + C'[a] = wholeActive
    BY <1>1, <1>2, <1>3, <2>2, <2>3 DEF wholeActive, refluxed
  <2>5. /\ fillPatcher' \in [Levels -> SUBSET Versions]
        /\ \A l \in Levels : fillPatcher'[l] =
             IF a < finest_level /\ l = a + 1 THEN {} ELSE fillPatcher[l]
    BY <1>1, <1>2, <1>3, <2>0
  <2>6. data' \in [Levels -> [new : Versions, old : Versions]]
    <3> DEFINE m0 == data[a].new.syncs + 1
               m1 == IF do_reflux THEN data[a + 1].new.syncs + 1
                     ELSE data[a + 1].new.syncs
    <3>1. /\ data[a] \in [new : Versions, old : Versions] /\ m0 \in Int
          /\ data[a + 1] \in [new : Versions, old : Versions] /\ m1 \in Int
      BY <1>1, <1>2, <1>3 DEF Versions
    <3> DEFINE d0 == [data[a] EXCEPT !.new.syncs = m0]
               d1 == [data[a + 1] EXCEPT !.new.syncs = m1]
    <3>0. data' = [[data EXCEPT ![a] = d0] EXCEPT ![a + 1] = d1]
      <4>1. [data EXCEPT ![a].new.syncs = @ + 1][a + 1] = data[a + 1]
        BY <1>1, <1>2, <1>3
      <4> QED
        BY <2>0, <4>1
    <3>2. /\ data'[a] = d0 /\ data'[a + 1] = d1
          /\ \A l \in Levels : l # a /\ l # a + 1 => data'[l] = data[l]
      <4> HIDE DEF d0, d1
      <4> QED
        BY <1>1, <1>2, <1>3, <3>0
    <3> HIDE DEF m0, m1
    <3>3. /\ data'[a] \in [new : Versions, old : Versions]
          /\ data'[a + 1] \in [new : Versions, old : Versions]
      BY <3>1, <3>2, SyncedType
    <3>4. \A l \in Levels : data'[l] \in [new : Versions, old : Versions]
      BY <1>2, <3>2, <3>3
    <3> QED
      BY <1>2, <2>0, <3>4
  <2>7. ASSUME NEW l \in Levels
        PROVE  /\ data'[l].new.time = data[l].new.time /\ data'[l].old = data[l].old
               /\ l < a => data'[l] = data[l]
    BY <1>1, <1>2, <1>3, <2>0 DEF Versions
  <2> QED
    BY <1>3, <2>3, <2>4, <2>5, <2>6, <2>7
<1>4. CASE ~ (a < finest_level)
  <2>1. /\ U' = U /\ C' = C /\ fillPatcher' = fillPatcher
        /\ data' = [data EXCEPT ![a].new.syncs = @ + 1]
    BY <1>4 DEF PostTimestep, post_timestep
  <2>2. U'[a] + C'[a] = wholeActive
    BY <1>4, <2>1 DEF wholeActive
  <2>3. data' \in [Levels -> [new : Versions, old : Versions]]
    <3>1. data[a] \in [new : Versions, old : Versions] /\ data[a].new.syncs + 1 \in Int
      BY <1>1, <1>2 DEF Versions
    <3>2. [data[a] EXCEPT !.new.syncs = @ + 1] \in [new : Versions, old : Versions]
      BY <3>1, SyncedType
    <3>3. data' = [data EXCEPT ![a] = [data[a] EXCEPT !.new.syncs = @ + 1]]
      BY <1>1, <1>2, <2>1
    <3> QED
      BY <1>1, <1>2, <3>2, <3>3
  <2>4. ASSUME NEW l \in Levels
        PROVE  /\ data'[l].new.time = data[l].new.time /\ data'[l].old = data[l].old
               /\ l < a => data'[l] = data[l]
    BY <1>1, <1>2, <2>1 DEF Versions
  <2> QED
    BY <1>2, <1>4, <2>1, <2>2, <2>3, <2>4
<1> QED
  BY <1>3, <1>4

LEMMA PostTypeInv == ASSUME IInv, PostTimestep PROVE TypeInv'
<1>1. active' \in 0 .. finest_level
  BY ActiveLevel, PostControl DEF IInv
<1>2. iteration' \in [Levels -> Int]
  BY ActiveLevel, PostControl DEF IInv, TypeInv
<1>3. step' \in 0 .. MaxSteps /\ (phase' # "start" => step' < MaxSteps)
  BY PostControl, AmrAssumption DEF IInv, TypeInv
<1>4. phase' \in {"start", "advance", "post"}
  BY PostControl
<1> QED
  BY <1>1, <1>2, <1>3, <1>4, PostControl, PostContent DEF IInv, TypeInv

LEMMA PostTimeInv == ASSUME IInv, PostTimestep PROVE TimeInv'
<1> DEFINE a == active
<1>0. /\ a \in Int /\ 0 <= a /\ a <= finest_level /\ a \in Levels
      /\ finest_level \in Int /\ finest_level <= MaxLevel /\ MaxLevel \in Int
      /\ \A l \in Levels : dtLevel(l)' = dtLevel(l) /\ dtLevel(l) \in Int
      /\ \A l \in Levels : curTime(l) \in Int /\ iteration[l] \in Int
      /\ \A l \in Int : 0 <= l /\ l <= finest_level => l \in Levels
  BY ActiveLevel, PostControl, StepSizes, StepSizesFixed
  DEF IInv, TypeInv, curTime, Versions
<1>1. \A l \in Levels : /\ curTime(l)' = curTime(l)
                      /\ data'[l].old.time = data[l].old.time
  BY PostContent DEF curTime
<1>2. \A l \in Levels : advanced(l)' <=> l < a
  BY <1>0, PostControl, LevelsType DEF advanced
<1>3. \A l \in Levels : advanced(l)' => curTime(l)' = data'[l].old.time + dtLevel(l)'
  <2> SUFFICES ASSUME NEW l \in Levels, l < a
               PROVE  curTime(l)' = data'[l].old.time + dtLevel(l)'
    BY <1>2
  <2>1. curTime(l) = data[l].old.time + dtLevel(l)
    BY DEF IInv, TimeInv, advanced
  <2> QED
    BY <2>1, <1>0, <1>1
<1>4. ASSUME NEW l \in 1 .. active'
      PROVE  /\ 1 <= iteration'[l] /\ iteration'[l] <= n_cycle[l]
             /\ curTime(l)' = data'[l - 1].old.time + completed(l)' * dtLevel(l)'
  <2>1. /\ l \in Levels /\ l - 1 \in Levels /\ l \in 1 .. a /\ l \in Int /\ l <= a
    BY <1>0, PostControl
  <2>2. /\ 1 <= iteration[l] /\ iteration[l] <= n_cycle[l]
        /\ curTime(l) = data[l - 1].old.time + completed(l) * dtLevel(l)
    BY <2>1 DEF IInv, TimeInv
  <2>3. completed(l) = iteration[l]
    BY <2>1, <1>0, PostControl DEF completed, advanced
  <2>4. completed(l)' = completed(l)
    <3>1. CASE l < a
      BY <3>1, <2>1, <2>3, <1>0, <1>2, PostControl DEF completed, IInv, TypeInv
    <3>2. CASE l = a
      <4>1. iteration'[l] = iteration[l] + 1
        BY <3>2, <2>1, <1>0, PostControl DEF IInv, TypeInv
      <4> QED
        BY <3>2, <4>1, <2>1, <2>3, <1>0, <1>2 DEF completed
    <3> QED
      BY <3>1, <3>2, <2>1, <1>0
  <2>5. 1 <= iteration'[l] /\ iteration'[l] <= n_cycle[l]
    <3>1. n_cycle[l] \in Int
      <4>1. n_cycle \in [1 .. MaxLevel -> Nat \ {0}]
        BY AmrAssumption DEF IInv, TypeInv
      <4> QED
        BY <4>1, <2>1, <1>0
    <3> QED
      BY <3>1, <2>1, <2>2, <1>0, PostControl DEF IInv, TypeInv
  <2> QED
    BY <2>1, <2>2, <2>4, <2>5, <1>0, <1>1
<1>5. ASSUME NEW l \in active' .. finest_level'
      PROVE  curTime(l)' = curTime(active)'
  <2>1. l \in Levels /\ active' \in Levels /\ l \in Int /\ l >= a - 1
    BY <1>0, PostControl
  <2>2. CASE active' = a
    <3>1. l \in a .. finest_level
      BY <2>2, PostControl
    <3>2. curTime(l) = curTime(a)
      BY <3>1 DEF IInv, TimeInv
    <3> QED
      BY <2>1, <2>2, <3>2, <1>0, PostContent DEF curTime
  <2>3. CASE active' = a - 1 /\ a > 0 /\ ~ (iteration[a] < n_cycle[a])
    <3>1. /\ a - 1 \in Levels /\ a \in 1 .. MaxLevel /\ a \in 1 .. active
          /\ a \in active .. finest_level
      BY <2>3, <1>0
    <3>2. n_cycle[a] \in Int /\ dtLevel(a - 1) = n_cycle[a] * dtLevel(a)
      BY <3>1, StepSizes DEF IInv, TypeInv
    <3>3. iteration[a] = n_cycle[a] /\ completed(a) = iteration[a]
          /\ curTime(a) = data[a - 1].old.time + completed(a) * dtLevel(a)
      <4>1. iteration[a] <= n_cycle[a]
            /\ curTime(a) = data[a - 1].old.time + completed(a) * dtLevel(a)
        BY <3>1 DEF IInv, TimeInv
      <4>2. completed(a) = iteration[a]
        BY PostControl DEF completed, advanced
      <4> QED
        BY <4>1, <4>2, <3>2, <2>3, <1>0
    <3>4. curTime(a - 1) = data[a - 1].old.time + dtLevel(a - 1)
      BY <3>1, <1>0 DEF IInv, TimeInv, advanced
    <3>5. curTime(a) = curTime(a - 1)
      BY <3>2, <3>3, <3>4
    <3>6. l # a - 1 => l \in active .. finest_level
      BY <2>1, <1>0, PostControl
    <3>7. l # a - 1 => curTime(l) = curTime(a)
      BY <3>6 DEF IInv, TimeInv
    <3>8. curTime(l) = curTime(a - 1)
      BY <3>5, <3>7
    <3> QED
      BY <2>1, <2>3, <3>1, <3>8, PostContent DEF curTime
  <2> QED
    BY <2>2, <2>3, PostControl
<1> QED
  BY <1>3, <1>4, <1>5, PostControl DEF TimeInv

LEMMA PostAverageInv == ASSUME IInv, PostTimestep PROVE AverageInv'
<1> SUFFICES ASSUME NEW l \in 0 .. finest_level - 1, averaged(l)'
             PROVE  C'[l] = U'[l + 1] + C'[l + 1]
  BY PostControl DEF AverageInv
<1>1. /\ l \in Levels /\ l + 1 \in Levels /\ l >= active /\ l + 1 # active
      /\ active \in Int /\ l \in Int /\ l < finest_level
  BY ActiveLevel, PostControl DEF IInv, averaged
<1>2. C'[l + 1] = C[l + 1]
  BY <1>1, PostContent
<1>3. CASE l = active
  BY <1>1, <1>3, PostContent
<1>4. CASE l # active
  <2>1. averaged(l)
    BY <1>1, <1>4 DEF averaged
  <2>2. C[l] = U[l + 1] + C[l + 1]
    BY <2>1 DEF IInv, AverageInv
  <2>3. U'[l + 1] = U[l + 1] /\ C'[l] = C[l]
    BY <1>1, <1>4, PostContent
  <2> QED
    BY <1>2, <2>2, <2>3
<1> QED
  BY <1>3, <1>4

LEMMA PostPatcherInv == ASSUME IInv, PostTimestep PROVE PatcherInv'
<1>0. /\ active \in Int /\ 0 <= active /\ active <= finest_level
      /\ finest_level \in Int /\ finest_level' = finest_level
      /\ \A l \in Int : 0 <= l /\ l <= finest_level => l \in Levels
  BY ActiveLevel, PostControl DEF IInv
<1>1. ASSUME NEW l \in Levels, l > active PROVE fillPatcher'[l] = {}
  <2>1. CASE active < finest_level /\ l = active + 1
    BY <2>1, PostContent
  <2>2. CASE ~ (active < finest_level /\ l = active + 1)
    <3>1. l > active + 1 \/ l > finest_level
      BY <1>0, <1>1, <2>2, LevelsType
    <3>2. fillPatcher[l] = {}
      BY <3>1, PostControl DEF IInv, PatcherInv
    <3> QED
      BY <2>2, <3>2, PostContent
  <2> QED
    BY <2>1, <2>2
<1>2. ASSUME NEW l \in Levels,
             \/ IF phase' = "post" THEN l > active' + 1 ELSE l > active'
             \/ l > finest_level'
      PROVE  fillPatcher'[l] = {}
  <2>1. l > active
    BY <1>0, <1>2, PostControl, LevelsType
  <2> QED
    BY <1>1, <2>1
<1>3. ASSUME NEW l \in 1 .. finest_level,
             NEW v \in fillPatcher'[l], NEW w \in coarseData(l)',
             v.time = w.time
      PROVE  v = w
  <2>1. l \in Levels /\ l - 1 \in Levels /\ l \in Int /\ l <= active
    BY <1>0, <1>1, <1>3
  <2>2. fillPatcher'[l] = fillPatcher[l]
    BY <2>1, <1>0, PostContent
  <2>3. coarseData(l)' = coarseData(l)
    BY <2>1, <1>0, PostContent DEF coarseData
  <2> QED
    BY <1>3, <2>2, <2>3 DEF IInv, PatcherInv, FillPatcherFresh
<1>4. FillPatcherFresh'
  BY <1>0, <1>3 DEF FillPatcherFresh
<1> QED
  BY <1>2, <1>4 DEF PatcherInv

LEMMA PostBalanceInv == ASSUME IInv, PostTimestep PROVE BalanceInv'
<1> DEFINE a == active
<1> SUFFICES ASSUME do_reflux PROVE sumUpTo(owed)'[active'] = 0
  BY PostControl DEF BalanceInv
<1>1. /\ a \in Int /\ 0 <= a /\ a <= finest_level /\ a \in Levels
      /\ finest_level \in Int /\ finest_level' = finest_level
      /\ \A l \in Int : 0 <= l /\ l <= finest_level => l \in Levels
      /\ flux_reg' = flux_reg
  BY ActiveLevel, PostControl DEF IInv
<1>2. owed \in [Levels -> Int] /\ owed' \in [Levels -> Int]
  <2>1. TypeInv' => (owed \in [Levels -> Int])'
    BY OwedType, PTL
  <2> QED
    BY <2>1, OwedType, PostTypeInv DEF IInv
<1>3. \A l \in Levels : l < a => U'[l] = U[l] /\ C'[l] = C[l]
  BY <1>1, LevelsType, PostContent
<1>4. U'[a] + C'[a] = wholeActive /\ owed[a] = wholeActive
      /\ sumUpTo(owed)[a] = 0
  BY <1>1, PostContent DEF owed, IInv, BalanceInv
<1>5. CASE active' = a /\ phase' = "start"
  <2>1. ASSUME NEW l \in 0 .. a PROVE owed'[l] = owed[l]
    <3>1. CASE l = a
      BY <3>1, <1>1, <1>4, <1>5 DEF owed, wholeActive
    <3>2. CASE l # a
      BY <3>2, <1>1, <1>3, <1>5 DEF owed, refluxed
    <3> QED
      BY <3>1, <3>2
  <2> QED
    BY <1>1, <1>2, <1>4, <1>5, <2>1, SumCongruence
<1>6. CASE a > 0 /\ active' = a - 1 /\ phase' = "post"
  <2>1. /\ a - 1 \in Levels /\ a - 1 < a /\ (a - 1) + 1 = a /\ a - 1 < finest_level
        /\ a - 1 # a
    BY <1>1, <1>6
  <2>2. ASSUME NEW l \in 0 .. (a - 1) - 1 PROVE owed'[l] = owed[l]
    <3>1. l \in Levels /\ l < a /\ l < active' /\ l # a
      BY <1>1, <1>6
    <3> QED
      BY <3>1, <1>1, <1>3 DEF owed, refluxed
  <2>3. owed'[a - 1] = owed[a - 1] + owed[(a - 1) + 1]
    <3>1. owed'[a - 1] = (U'[a - 1] + flux_reg'[(a - 1) + 1])
                         + (U'[(a - 1) + 1] + C'[(a - 1) + 1])
      BY <2>1, <1>1, <1>6 DEF owed, wholeActive, refluxed
    <3>2. owed[a - 1] = U[a - 1] + flux_reg[(a - 1) + 1]
      BY <2>1, <1>1 DEF owed, refluxed
    <3> QED
      BY <3>1, <3>2, <2>1, <1>1, <1>3, <1>4
  <2>4. sumUpTo(owed')[a - 1] = sumUpTo(owed)[(a - 1) + 1]
    BY <1>1, <1>2, <2>1, <2>2, <2>3, SumSplit
  <2> QED
    BY <1>4, <1>6, <2>1, <2>4
<1> QED
  BY <1>5, <1>6, PostControl

-----------------------------------------------------------------------------
\* What a regrid does, level by level.
LEMMA Regridded ==
  ASSUME IInv, Regrid
  PROVE  \E lbase \in active .. finest_level, covers \in [Levels -> Int] :
           /\ finest_level' \in Levels /\ lbase <= finest_level'
           /\ lbase < MaxLevel
           /\ \A l \in Levels : l < lbase =>
                /\ U'[l] = U[l] /\ C'[l] = C[l]
           /\ U'[lbase] + C'[lbase] = U[lbase] + C[lbase]
           /\ \A l \in Levels : lbase <= l /\ l < finest_level' =>
                /\ C'[l] = covers[l]
                /\ U'[l + 1] + C'[l + 1] = covers[l]
           /\ U' \in [Levels -> Int] /\ C' \in [Levels -> Int]
           /\ flux_reg' \in [Levels -> Int]
           /\ \A l \in Levels :
                flux_reg'[l] = IF l > lbase THEN 0 ELSE flux_reg[l]
           /\ fillPatcher' \in [Levels -> SUBSET Versions]
           /\ \A l \in Levels :
                fillPatcher'[l] = IF l > lbase THEN {} ELSE fillPatcher[l]
           /\ data' \in [Levels -> [new : Versions, old : Versions]]
           /\ \A l \in Levels :
                IF lbase < l /\ l <= finest_level'
                THEN curTime(l)' = curTime(lbase) ELSE data'[l] = data[l]
<1>0. PICK lbase \in active .. finest_level, new_finest \in Levels :
        /\ lbase < MaxLevel /\ lbase <= new_finest
        /\ finest_level' = new_finest
        /\ \E chosen \in [lbase .. MaxLevel - 1 -> Fluxes] :
             RegridFrom(lbase, new_finest, chosen)
  BY DEF Regrid
<1>1. PICK chosen \in [lbase .. MaxLevel - 1 -> Fluxes] :
        RegridFrom(lbase, new_finest, chosen)
  BY <1>0
<1> DEFINE covers == [l \in Levels |-> IF lbase <= l /\ l < MaxLevel
                                      THEN chosen[l] ELSE 0]
           whole(l)   == IF l = lbase THEN U[l] + C[l] ELSE covers[l - 1]
           covered(l) == IF l = new_finest THEN 0 ELSE covers[l]
<1>2. /\ lbase \in Int /\ 0 <= lbase /\ lbase <= new_finest /\ lbase \in Levels
      /\ new_finest \in Int /\ new_finest <= MaxLevel /\ MaxLevel \in Int
      /\ \A l \in Levels : l \in Int /\ 0 <= l /\ l <= MaxLevel
  BY <1>0, ActiveLevel, LevelsType DEF IInv
<1>3. /\ U \in [Levels -> Int] /\ C \in [Levels -> Int]
      /\ flux_reg \in [Levels -> Int]
      /\ data \in [Levels -> [new : Versions, old : Versions]]
      /\ fillPatcher \in [Levels -> SUBSET Versions]
  BY DEF IInv, TypeInv
<1>4. covers \in [Levels -> Int]
  <2>1. chosen \in [lbase .. MaxLevel - 1 -> Int]
    BY <1>1, AmrAssumption
  <2>2. ASSUME NEW l \in Levels, lbase <= l, l < MaxLevel PROVE chosen[l] \in Int
    BY <1>2, <2>1, <2>2
  <2> QED
    BY <2>2
<1>5. \A l \in Levels : lbase <= l /\ l < MaxLevel => covers[l] = chosen[l]
  OBVIOUS
<1> HIDE DEF covers
<1>6. ASSUME NEW l \in Levels
      PROVE  /\ U'[l] = IF l = lbase \/ (lbase < l /\ l <= new_finest)
                        THEN whole(l) - covered(l)
                        ELSE IF l > new_finest THEN 0 ELSE U[l]
             /\ C'[l] = IF l = lbase \/ (lbase < l /\ l <= new_finest)
                        THEN covered(l)
                        ELSE IF l > new_finest THEN 0 ELSE C[l]
  <2>1. /\ lbase < l /\ l <= new_finest =>
             l - 1 \in Levels /\ chosen[l - 1] = covers[l - 1]
        /\ lbase <= l /\ l < new_finest => chosen[l] = covers[l]
    BY <1>2, <1>5, LevelsType
  <2>2. /\ U'[l] = IF l = lbase \/ (lbase < l /\ l <= new_finest)
                   THEN (IF l = lbase THEN U[l] + C[l] ELSE chosen[l - 1])
                        - (IF l = new_finest THEN 0 ELSE chosen[l])
                   ELSE IF l > new_finest THEN 0 ELSE U[l]
        /\ C'[l] = IF l = lbase \/ (lbase < l /\ l <= new_finest)
                   THEN IF l = new_finest THEN 0 ELSE chosen[l]
                   ELSE IF l > new_finest THEN 0 ELSE C[l]
    BY <1>1 DEF RegridFrom
  <2> QED
    BY <1>2, <2>1, <2>2
<1>7. ASSUME NEW l \in Levels
      PROVE  /\ l = lbase \/ (lbase < l /\ l <= new_finest) => whole(l) \in Int
             /\ covered(l) \in Int
  <2>1. lbase < l => l - 1 \in Levels
    BY <1>2, LevelsType
  <2> QED
    BY <1>2, <1>3, <1>4, <2>1
<1>8. U' \in [Levels -> Int] /\ C' \in [Levels -> Int]
  <2>1. \A l \in Levels : U'[l] \in Int /\ C'[l] \in Int
    <3> HIDE DEF whole, covered
    <3> QED
      BY <1>3, <1>6, <1>7
  <2>2. U' = [l \in Levels |-> U'[l]] /\ C' = [l \in Levels |-> C'[l]]
    BY <1>1 DEF RegridFrom
  <2> QED
    BY <2>1, <2>2
<1>9. /\ \A l \in Levels : l < lbase => U'[l] = U[l] /\ C'[l] = C[l]
      /\ U'[lbase] + C'[lbase] = U[lbase] + C[lbase]
  <2>1. whole(lbase) = U[lbase] + C[lbase] /\ whole(lbase) \in Int
        /\ covered(lbase) \in Int
    BY <1>2, <1>7
  <2>2. U'[lbase] = whole(lbase) - covered(lbase) /\ C'[lbase] = covered(lbase)
    BY <1>2, <1>6
  <2>3. \A l \in Levels : l < lbase => U'[l] = U[l] /\ C'[l] = C[l]
    <3> HIDE DEF whole, covered
    <3> QED
      BY <1>2, <1>6
  <2> HIDE DEF whole, covered
  <2> QED
    BY <2>1, <2>2, <2>3
<1>10. ASSUME NEW l \in Levels, lbase <= l, l < new_finest
       PROVE  C'[l] = covers[l] /\ U'[l + 1] + C'[l + 1] = covers[l]
  <2>1. l + 1 \in Levels /\ lbase < l + 1 /\ l + 1 <= new_finest /\ l + 1 # lbase
        /\ (l + 1) - 1 = l /\ l # new_finest
    BY <1>2, <1>10, LevelsType
  <2>2. C'[l] = covered(l) /\ covered(l) = covers[l]
    BY <1>2, <1>6, <1>10, <2>1
  <2>3. U'[l + 1] = whole(l + 1) - covered(l + 1) /\ C'[l + 1] = covered(l + 1)
    BY <1>6, <2>1
  <2>4. whole(l + 1) = covers[l] /\ whole(l + 1) \in Int /\ covered(l + 1) \in Int
    BY <1>7, <2>1
  <2> HIDE DEF whole, covered
  <2> QED
    BY <2>2, <2>3, <2>4
<1>11. /\ flux_reg' = [l \in Levels |-> IF l > lbase THEN 0 ELSE flux_reg[l]]
       /\ fillPatcher' = [l \in Levels |-> IF l > lbase THEN {} ELSE fillPatcher[l]]
       /\ data' = [l \in Levels |->
                     IF lbase < l /\ l <= new_finest
                     THEN [new |-> Version(curTime(lbase), 0), old |-> NoData]
                     ELSE data[l]]
  BY <1>1 DEF RegridFrom
<1>12. /\ flux_reg' \in [Levels -> Int]
       /\ fillPatcher' \in [Levels -> SUBSET Versions]
  BY <1>3, <1>11
<1>13. data' \in [Levels -> [new : Versions, old : Versions]]
  <2>1. Version(curTime(lbase), 0) \in Versions /\ NoData \in Versions
    BY <1>2, <1>3 DEF curTime, Version, NoData, Never, Versions
  <2>2. [new |-> Version(curTime(lbase), 0), old |-> NoData]
          \in [new : Versions, old : Versions]
    BY <2>1
  <2> QED
    BY <1>3, <1>11, <2>2
<1>14. ASSUME NEW l \in Levels
       PROVE  IF lbase < l /\ l <= new_finest
              THEN curTime(l)' = curTime(lbase) ELSE data'[l] = data[l]
  BY <1>11 DEF curTime, Version
<1> HIDE DEF whole, covered
<1>15. /\ \A l \in Levels :
            flux_reg'[l] = IF l > lbase THEN 0 ELSE flux_reg[l]
       /\ \A l \in Levels :
            fillPatcher'[l] = IF l > lbase THEN {} ELSE fillPatcher[l]
  BY <1>11
<1> QED
  BY <1>0, <1>2, <1>4, <1>8, <1>9, <1>10, <1>12, <1>13, <1>14, <1>15

LEMMA RegridControl ==
  ASSUME IInv, Regrid
  PROVE  /\ n_cycle' = n_cycle /\ do_reflux' = do_reflux
         /\ phase = "start" /\ phase' = "advance" /\ active' = active
         /\ iteration' = iteration /\ step' = step /\ step < MaxSteps
         /\ regrids' = regrids + 1 /\ regrids < MaxRegrids
BY DEF Regrid, parameters

LEMMA RegridTypeInv == ASSUME IInv, Regrid PROVE TypeInv'
<1>1. PICK lbase \in active .. finest_level :
        /\ finest_level' \in Levels /\ lbase <= finest_level'
        /\ U' \in [Levels -> Int] /\ C' \in [Levels -> Int]
        /\ flux_reg' \in [Levels -> Int]
        /\ fillPatcher' \in [Levels -> SUBSET Versions]
        /\ data' \in [Levels -> [new : Versions, old : Versions]]
  BY Regridded
<1>2. active' \in 0 .. finest_level'
  BY <1>1, ActiveLevel, RegridControl, LevelsType DEF IInv
<1>3. regrids' \in 0 .. MaxRegrids
  BY RegridControl, AmrAssumption DEF IInv, TypeInv
<1> QED
  BY <1>1, <1>2, <1>3, RegridControl DEF IInv, TypeInv

LEMMA RegridTimeInv == ASSUME IInv, Regrid PROVE TimeInv'
<1>1. PICK lbase \in active .. finest_level :
        /\ finest_level' \in Levels /\ lbase <= finest_level'
        /\ \A l \in Levels :
             IF lbase < l /\ l <= finest_level'
             THEN curTime(l)' = curTime(lbase) ELSE data'[l] = data[l]
  BY Regridded
<1>2. /\ active \in Int /\ 0 <= active /\ active \in Levels
      /\ lbase \in Int /\ active <= lbase /\ lbase <= finest_level
      /\ finest_level \in Int /\ finest_level <= MaxLevel /\ MaxLevel \in Int
      /\ finest_level' \in Int /\ finest_level' <= MaxLevel
      /\ \A l \in Int : 0 <= l /\ l <= MaxLevel => l \in Levels
      /\ \A l \in Levels : dtLevel(l)' = dtLevel(l)
  BY <1>1, ActiveLevel, RegridControl, StepSizesFixed, LevelsType DEF IInv
<1>3. ASSUME NEW l \in Int, 0 <= l, l <= lbase
      PROVE  data'[l] = data[l] /\ curTime(l)' = curTime(l) /\ l \in Levels
  <2>1. l \in Levels
    BY <1>2, <1>3
  <2>2. data'[l] = data[l]
    BY <1>1, <1>2, <1>3, <2>1
  <2> QED
    BY <2>1, <2>2 DEF curTime
<1>4. ASSUME NEW l \in Levels, advanced(l)'
      PROVE  curTime(l)' = data'[l].old.time + dtLevel(l)'
  <2>1. l < active /\ l \in Int /\ 0 <= l /\ l <= lbase
    BY <1>2, <1>4, RegridControl, LevelsType DEF advanced
  <2>2. curTime(l) = data[l].old.time + dtLevel(l)
    BY <2>1 DEF IInv, TimeInv, advanced
  <2> QED
    BY <1>2, <1>3, <2>1, <2>2
<1>5. ASSUME NEW l \in 1 .. active'
      PROVE  /\ 1 <= iteration'[l] /\ iteration'[l] <= n_cycle[l]
             /\ curTime(l)' = data'[l - 1].old.time + completed(l)' * dtLevel(l)'
  <2>1. /\ l \in 1 .. active /\ l \in Int /\ l <= lbase /\ 0 <= l /\ l \in Levels
        /\ l - 1 \in Int /\ l - 1 <= lbase /\ 0 <= l - 1
    BY <1>2, <1>5, RegridControl
  <2>2. /\ 1 <= iteration[l] /\ iteration[l] <= n_cycle[l]
        /\ curTime(l) = data[l - 1].old.time + completed(l) * dtLevel(l)
    BY <2>1 DEF IInv, TimeInv
  <2>3. completed(l)' = completed(l)
    BY RegridControl DEF completed, advanced
  <2> QED
    BY <1>2, <1>3, <2>1, <2>2, <2>3, RegridControl
<1>6. ASSUME NEW l \in active' .. finest_level'
      PROVE  curTime(l)' = curTime(active)'
  <2>1. l \in Int /\ active <= l /\ l <= finest_level' /\ l \in Levels
    BY <1>2, RegridControl
  <2>2. curTime(active)' = curTime(active)
    BY <1>2, <1>3, RegridControl DEF curTime
  <2>3. CASE l <= lbase
    <3>1. curTime(l) = curTime(active)
      BY <1>2, <2>1, <2>3 DEF IInv, TimeInv
    <3> QED
      BY <1>2, <1>3, <2>1, <2>2, <2>3, <3>1
  <2>4. CASE ~ (l <= lbase)
    <3>1. curTime(lbase) = curTime(active)
      BY <1>2 DEF IInv, TimeInv
    <3>2. curTime(l)' = curTime(lbase)
      BY <1>1, <1>2, <2>1, <2>4
    <3> QED
      BY <2>2, <3>1, <3>2
  <2> QED
    BY <2>3, <2>4
<1> QED
  BY <1>4, <1>5, <1>6, RegridControl DEF TimeInv

LEMMA RegridAverageInv == ASSUME IInv, Regrid PROVE AverageInv'
<1>1. PICK lbase \in active .. finest_level, covers \in [Levels -> Int] :
        /\ finest_level' \in Levels /\ lbase <= finest_level'
        /\ \A l \in Levels : l < lbase => U'[l] = U[l] /\ C'[l] = C[l]
        /\ U'[lbase] + C'[lbase] = U[lbase] + C[lbase]
        /\ \A l \in Levels : lbase <= l /\ l < finest_level' =>
             /\ C'[l] = covers[l]
             /\ U'[l + 1] + C'[l + 1] = covers[l]
  BY Regridded
<1> SUFFICES ASSUME NEW l \in 0 .. finest_level' - 1, averaged(l)'
             PROVE  C'[l] = U'[l + 1] + C'[l + 1]
  BY DEF AverageInv
<1>2. /\ lbase \in Int /\ lbase <= finest_level /\ active <= l /\ active \in Int
      /\ finest_level \in Int /\ finest_level' \in Int /\ finest_level' <= MaxLevel
      /\ l \in Int /\ 0 <= l /\ l \in Levels /\ l + 1 \in Levels
      /\ l < finest_level'
  BY <1>1, ActiveLevel, RegridControl, LevelsType DEF IInv, averaged
<1>3. CASE l < lbase
  <2>1. C[l] = U[l + 1] + C[l + 1]
    BY <1>2, <1>3, RegridControl DEF IInv, AverageInv, averaged
  <2>2. U'[l + 1] + C'[l + 1] = U[l + 1] + C[l + 1]
    BY <1>1, <1>2, <1>3
  <2> QED
    BY <1>1, <1>2, <1>3, <2>1, <2>2
<1>4. CASE ~ (l < lbase)
  BY <1>1, <1>2, <1>4
<1> QED
  BY <1>3, <1>4

LEMMA RegridPatcherInv == ASSUME IInv, Regrid PROVE PatcherInv'
<1>1. PICK lbase \in active .. finest_level :
        /\ finest_level' \in Levels /\ lbase <= finest_level'
        /\ \A l \in Levels :
             fillPatcher'[l] = IF l > lbase THEN {} ELSE fillPatcher[l]
        /\ \A l \in Levels :
             IF lbase < l /\ l <= finest_level'
             THEN curTime(l)' = curTime(lbase) ELSE data'[l] = data[l]
  BY Regridded
<1>2. /\ active \in Int /\ 0 <= active /\ lbase \in Int /\ active <= lbase
      /\ lbase <= finest_level /\ finest_level \in Int /\ finest_level' \in Int
      /\ \A l \in Levels : l \in Int
      /\ \A l \in Int : 0 <= l /\ l <= finest_level => l \in Levels
  BY <1>1, ActiveLevel, LevelsType DEF IInv
<1>3. ASSUME NEW l \in Levels, l > active PROVE fillPatcher'[l] = {}
  <2>1. fillPatcher[l] = {}
    BY <1>3, RegridControl DEF IInv, PatcherInv
  <2> QED
    BY <1>1, <2>1
<1>4. ASSUME NEW l \in Levels,
             \/ IF phase' = "post" THEN l > active' + 1 ELSE l > active'
             \/ l > finest_level'
      PROVE  fillPatcher'[l] = {}
  <2>1. l > active
    BY <1>1, <1>2, <1>4, RegridControl
  <2> QED
    BY <1>3, <2>1
<1>5. ASSUME NEW l \in 1 .. finest_level',
             NEW v \in fillPatcher'[l], NEW w \in coarseData(l)',
             v.time = w.time
      PROVE  v = w
  <2>0. l \in Levels /\ l \in Int /\ 1 <= l
    BY <1>1, <1>2, LevelsType
  <2>1. l <= active
    BY <1>2, <1>3, <1>5, <2>0
  <2>2. l - 1 \in Levels /\ l - 1 <= lbase /\ l <= lbase /\ l \in 1 .. finest_level
    BY <1>2, <2>0, <2>1
  <2>3. data'[l - 1] = data[l - 1] /\ fillPatcher'[l] = fillPatcher[l]
    BY <1>1, <1>2, <2>0, <2>2
  <2>4. coarseData(l)' = coarseData(l)
    BY <2>3 DEF coarseData
  <2> QED
    BY <1>5, <2>2, <2>3, <2>4 DEF IInv, PatcherInv, FillPatcherFresh
<1>6. FillPatcherFresh'
  BY <1>5 DEF FillPatcherFresh
<1> QED
  BY <1>4, <1>6 DEF PatcherInv

LEMMA RegridBalanceInv == ASSUME IInv, Regrid PROVE BalanceInv'
<1> SUFFICES ASSUME do_reflux PROVE sumUpTo(owed)'[active'] = 0
  BY RegridControl DEF BalanceInv
<1>1. PICK lbase \in active .. finest_level :
        /\ \A l \in Levels : l < lbase => U'[l] = U[l] /\ C'[l] = C[l]
        /\ U'[lbase] + C'[lbase] = U[lbase] + C[lbase]
        /\ \A l \in Levels : flux_reg'[l] = IF l > lbase THEN 0 ELSE flux_reg[l]
  BY Regridded
<1>2. /\ active \in Int /\ 0 <= active /\ active \in Levels
      /\ lbase \in Int /\ active <= lbase
      /\ \A l \in Levels : l \in Int
      /\ \A l \in Int : 0 <= l /\ l <= active => l \in Levels
  BY ActiveLevel, LevelsType DEF IInv
<1>3. owed \in [Levels -> Int] /\ owed' \in [Levels -> Int]
  <2>1. TypeInv' => (owed \in [Levels -> Int])'
    BY OwedType, PTL
  <2> QED
    BY <2>1, OwedType, RegridTypeInv DEF IInv
<1>4. ASSUME NEW l \in 0 .. active PROVE owed'[l] = owed[l]
  <2>1. l \in Levels /\ l \in Int /\ l <= active
    BY <1>2
  <2>2. CASE l = active
    <3>1. owed[l] = U[active] + C[active] /\ owed'[l] = U'[active] + C'[active]
      BY <2>1, <2>2, RegridControl DEF owed, wholeActive
    <3> QED
      BY <3>1, <1>1, <1>2
  <2>3. CASE l # active
    <3>1. l < active /\ l < lbase /\ l + 1 \in Levels /\ ~ (l + 1 > lbase)
      BY <2>1, <2>3, <1>2
    <3>2. U'[l] = U[l] /\ flux_reg'[l + 1] = flux_reg[l + 1]
      BY <2>1, <3>1, <1>1
    <3> QED
      BY <2>1, <3>1, <3>2, RegridControl DEF owed, refluxed
  <2> QED
    BY <2>2, <2>3
<1>5. sumUpTo(owed)[active] = 0
  BY DEF IInv, BalanceInv
<1> QED
  BY <1>2, <1>3, <1>4, <1>5, SumCongruence, RegridControl

-----------------------------------------------------------------------------
\* Done and stuttering.
LEMMA StutterIInv == ASSUME IInv, UNCHANGED vars PROVE IInv'
<1> USE DEF IInv, vars, parameters, control, content
<1>1. cyclesBelow' = cyclesBelow
  BY Zenon DEF cyclesBelow
<1>2. TypeInv'
  BY DEF TypeInv
<1>3. TimeInv'
  BY <1>1 DEF TimeInv, advanced, completed, curTime, dtLevel
<1>4. AverageInv'
  BY DEF AverageInv, averaged
<1>5. PatcherInv'
  BY DEF PatcherInv, FillPatcherFresh, coarseData
<1>6. BalanceInv'
  <2>1. owed' = owed
    BY DEF owed, refluxed, wholeActive
  <2>2. sumUpTo(owed)' = sumUpTo(owed)
    BY <2>1, Zenon DEF sumUpTo
  <2> QED
    BY <2>2 DEF BalanceInv
<1> QED
  BY <1>2, <1>3, <1>4, <1>5, <1>6

\* The inductive invariant holds in every reachable state.
LEMMA IInvInvariant == Spec => []IInv
<1>1. IInv /\ [Next]_vars => IInv'
  <2> SUFFICES ASSUME IInv, [Next]_vars PROVE IInv'
    OBVIOUS
  <2>1. CASE Regrid
    BY <2>1, RegridTypeInv, RegridTimeInv, RegridAverageInv, RegridPatcherInv,
       RegridBalanceInv DEF IInv
  <2>2. CASE Advance
    BY <2>2, AdvanceTypeInv, AdvanceTimeInv, AdvanceAverageInv,
       AdvancePatcherInv, AdvanceBalanceInv DEF IInv
  <2>3. CASE PostTimestep
    BY <2>3, PostTypeInv, PostTimeInv, PostAverageInv, PostPatcherInv,
       PostBalanceInv DEF IInv
  <2>4. CASE Done \/ UNCHANGED vars
    BY <2>4, StutterIInv DEF Done
  <2> QED
    BY <2>1, <2>2, <2>3, <2>4 DEF Next
<1> QED
  BY <1>1, InitIInv, PTL DEF Spec

-----------------------------------------------------------------------------
\* Whenever a level starts a step, the coarse data underneath every finer
\* level is its average and of the same time, whatever refluxing has left in
\* the coarse cells beneath and in the fine cells at embedded boundaries
\* (post_timestep's reflux before avgDown and the order of
\* amrex::Amr::timeStep).
THEOREM AmrCoarseIsAverageOfFine == Spec => []CoarseIsAverageOfFine
<1>1. ASSUME IInv PROVE CoarseIsAverageOfFine
  <2> SUFFICES ASSUME phase = "start", NEW l \in active .. finest_level - 1
               PROVE  C[l] = U[l + 1] + C[l + 1] /\ curTime(l) = curTime(l + 1)
    BY DEF CoarseIsAverageOfFine, synchronized
  <2>1. /\ l \in 0 .. finest_level - 1 /\ l \in active .. finest_level
        /\ l + 1 \in active .. finest_level /\ averaged(l)
    BY <1>1, ActiveLevel DEF IInv, averaged
  <2> QED
    BY <1>1, <2>1 DEF IInv, AverageInv, TimeInv
<1> QED
  BY <1>1, IInvInvariant, PTL

\* A FillPatcher never hands out coarse data of a time at which the coarse
\* level holds something else by now (resetFillPatcher in post_timestep).
THEOREM AmrFillPatcherFresh == Spec => []FillPatcherFresh
<1>1. IInv => FillPatcherFresh
  BY DEF IInv, PatcherInv
<1> QED
  BY <1>1, IInvInvariant, PTL

\* Conservation over the whole hierarchy, for any number of levels: refluxing
\* and averaging down leave the reported content what it was.
THEOREM AmrConserved == Spec => []Conserved
<1>1. ASSUME IInv PROVE Conserved
  <2> SUFFICES ASSUME phase = "start", active = 0, do_reflux
               PROVE  sum_integrated_quantities = 0
    BY DEF Conserved, synchronized
  <2> DEFINE f == [l \in Levels |-> volWgtSum(l)]
             S == {l \in Levels : l < finest_level =>
                     sumUpTo(f)[l] + C[l] = U[0] + C[0]}
  <2>1. /\ finest_level \in Int /\ 0 <= finest_level /\ finest_level <= MaxLevel
        /\ finest_level \in Levels /\ 0 \in Levels /\ MaxLevel \in Nat
        /\ \A l \in Int : 0 <= l /\ l <= finest_level => l \in Levels
    BY <1>1, ActiveLevel, LevelsType DEF IInv
  <2>2. \A l \in Levels : U[l] \in Int /\ C[l] \in Int
    BY <1>1 DEF IInv, TypeInv
  <2>3. f \in [Levels -> Int]
    BY <2>2 DEF volWgtSum
  <2>4. U[0] + C[0] = 0
    <3>1. owed[0] = U[0] + C[0]
      BY <2>1 DEF owed, wholeActive
    <3>2. owed \in [Levels -> Int] /\ sumUpTo(owed)[0] = 0
      BY <1>1, OwedType DEF IInv, BalanceInv
    <3> QED
      BY <3>1, <3>2, SumUpToUnfolded
  <2>5. \A l \in 0 .. finest_level - 1 : C[l] = U[l + 1] + C[l + 1]
    BY <1>1, <2>1 DEF IInv, AverageInv, averaged
  <2>6. \A l \in Levels : f[l] = IF l < finest_level THEN U[l] ELSE U[l] + C[l]
    BY DEF volWgtSum
  <2> HIDE DEF f
  <2>7. 0 \in S
    BY <2>1, <2>3, <2>6, SumUpToUnfolded
  <2>8. ASSUME NEW l \in 0 .. finest_level - 1, l \in S PROVE l + 1 \in S
    <3>1. l \in Int /\ l \in Levels /\ l + 1 \in Levels /\ l + 1 \in 1 .. MaxLevel
          /\ l < finest_level /\ (l + 1) - 1 = l
      BY <2>1
    <3>2. sumUpTo(f)[l + 1] = sumUpTo(f)[l] + f[l + 1] /\ sumUpTo(f)[l] \in Int
      BY <2>3, <3>1, SumUpToUnfolded
    <3> QED
      BY <2>1, <2>2, <2>5, <2>6, <2>8, <3>1, <3>2
  <2>9. sumUpTo(f)[finest_level] = U[0] + C[0]
    <3>1. CASE finest_level = 0
      BY <2>1, <2>3, <2>6, <3>1, SumUpToUnfolded
    <3>2. CASE finest_level # 0
      <4> DEFINE k == finest_level - 1
      <4>1. k \in 0 .. finest_level /\ k < finest_level /\ k \in Levels /\ k \in Int
            /\ k + 1 = finest_level /\ finest_level \in 1 .. MaxLevel
            /\ k \in 0 .. finest_level - 1
        BY <2>1, <3>2
      <4>2. \A l \in 0 .. finest_level : l \in S
        <5> HIDE DEF S
        <5> QED
          BY <2>1, <2>7, <2>8, IntervalInduction
      <4>3. sumUpTo(f)[k] + C[k] = U[0] + C[0]
        BY <4>1, <4>2
      <4>4. sumUpTo(f)[finest_level] = sumUpTo(f)[k] + f[finest_level]
            /\ sumUpTo(f)[k] \in Int
        BY <2>3, <4>1, SumUpToUnfolded
      <4>5. f[finest_level] = C[k]
        BY <2>1, <2>5, <2>6, <4>1
      <4> QED
        BY <2>2, <4>1, <4>3, <4>4, <4>5
    <3> QED
      BY <3>1, <3>2
  <2> QED
    BY <2>4, <2>9 DEF sum_integrated_quantities, f
<1> QED
  BY <1>1, IInvInvariant, PTL
=============================================================================

----------------------------- MODULE TripletMap -----------------------------
(* The discrete triplet map of the one-dimensional turbulence model           *)
(* (Source/ODTLES/ODTTripletMap): an eddy over n = 3m cells compresses the     *)
(* interval three-fold, copies it three times and mirrors the middle copy.     *)
(* A line is a function on 0..n-1, an interval a pair of its first and last    *)
(* index.                                                                      *)
EXTENDS Integers

IntervalSize(iv) == iv.hi - iv.lo + 1

ValidInterval(iv) == iv.lo >= 0 /\ iv.hi >= iv.lo

(* Mutant of MappedSource: the middle copy is taken one cell too late. *)
ShiftedSource(j, n) ==
    LET m == n \div 3
    IN  CASE j < m     -> 3 * j
          [] j \in m..(2 * m - 1) -> 3 * (m - 1 - (j - m)) + 2
          [] OTHER     -> 3 * (j - 2 * m) + 2

(* The cell of the old interval that becomes cell j of the new one. *)
MappedSource(j, n) ==
    LET m == n \div 3
    IN  CASE j < m     -> 3 * j
          [] j \in m..(2 * m - 1) -> 3 * (m - 1 - (j - m)) + 1
          [] OTHER     -> 3 * (j - 2 * m) + 2

CanApply(cells, iv) ==
    /\ ValidInterval(iv)
    /\ iv.hi < cells
    /\ IntervalSize(iv) >= 3
    /\ IntervalSize(iv) % 3 = 0

(* Mutant of ApplyPermutation: the interval is read one cell too high. *)
OneCellHigh(line, iv) ==
    [i \in DOMAIN line |->
        IF i \in iv.lo..iv.hi
        THEN line[(iv.lo + MappedSource(i - iv.lo, IntervalSize(iv)) + 1) % (iv.hi + 1)]
        ELSE line[i]]

(* The line after the eddy; cells outside the interval stay where they are. *)
ApplyPermutation(line, iv) ==
    [i \in DOMAIN line |->
        IF i \in iv.lo..iv.hi
        THEN line[iv.lo + MappedSource(i - iv.lo, IntervalSize(iv))]
        ELSE line[i]]

(* The intervals sampleIntervalProposal can draw on a line of the given size. *)
Proposals(cells, minSize) ==
    {iv \in [lo : 0..cells-1, hi : 0..cells-1] :
        /\ ValidInterval(iv)
        /\ IntervalSize(iv) >= 3 /\ IntervalSize(iv) >= minSize
        /\ IntervalSize(iv) % 3 = 0}
=============================================================================

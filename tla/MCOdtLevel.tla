----------------------------- MODULE MCOdtLevel -----------------------------
(* Grids of one level of six cells for TLC.                                    *)
EXTENDS OdtLevel

Grid(periodic, boxes) == [n |-> 6, periodic |-> periodic, boxes |-> boxes]

Box(lo, hi, rank) == [lo |-> lo, hi |-> hi, rank |-> rank]

\* The ways of cutting the whole domain into boxes of two cells at least.
Cuts(rank1, rank2, rank3) ==
  {{Box(0, 5, rank1)},
   {Box(0, 2, rank1), Box(3, 5, rank2)},
   {Box(0, 1, rank1), Box(2, 3, rank2), Box(4, 5, rank3)}}

AllCuts == UNION {Cuts(1, r, s) : r \in 1..2, s \in 1..2}

WallLayouts == {Grid(FALSE, boxes) : boxes \in AllCuts}

PeriodicLayouts == {Grid(TRUE, boxes) : boxes \in AllCuts}

\* Two ranks, and the level as the interior of a coarser one.
FineLayouts == {Grid(FALSE, {Box(2, 3, 1)}), Grid(FALSE, {Box(1, 2, 1), Box(3, 4, 2)})}
AllLayouts == WallLayouts \cup PeriodicLayouts \cup FineLayouts
=============================================================================

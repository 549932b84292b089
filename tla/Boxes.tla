------------------------------- MODULE Boxes -------------------------------
(* The index boxes of AMReX that the code's loops run over, as far as the      *)
(* modules here need them. A box has a lowest and a highest index in each      *)
(* direction; a face has the index of the cell above it. A box of faces has    *)
(* one index more in its direction.                                            *)
EXTENDS Integers

Directions(box) == DOMAIN box.lo

Unit(dims, d) == [t \in 1..dims |-> IF t = d THEN 1 ELSE 0]

Plus(p, r) == [d \in DOMAIN p |-> p[d] + r[d]]

\* The index n steps away in direction d.
Step(p, d, n) == [p EXCEPT ![d] = @ + n]

Cube(dims, n) == [lo |-> [d \in 1..dims |-> 0], hi |-> [d \in 1..dims |-> n - 1]]

growDim(box, d, n) == [lo |-> Step(box.lo, d, -n), hi |-> Step(box.hi, d, n)]

grow(box, n) == [lo |-> [d \in Directions(box) |-> box.lo[d] - n],
                 hi |-> [d \in Directions(box) |-> box.hi[d] + n]]

growHi(box, d, n) == [box EXCEPT !.hi = Step(@, d, n)]

surroundingNodes(box, d) == growHi(box, d, 1)

\* What a box covers when it is read at an offset.
shift(box, r) == [lo |-> Plus(box.lo, r), hi |-> Plus(box.hi, r)]

contains(outer, inner) ==
    \A d \in Directions(inner) : outer.lo[d] <= inner.lo[d] /\ inner.hi[d] <= outer.hi[d]

\* The indices of a box whose extent lies between lowest and highest.
Indices(box) ==
    LET first == CHOOSE n \in {box.lo[d] : d \in Directions(box)} :
                   \A d \in Directions(box) : n <= box.lo[d]
        last == CHOOSE n \in {box.hi[d] : d \in Directions(box)} :
                  \A d \in Directions(box) : n >= box.hi[d]
    IN  {p \in [Directions(box) -> first..last] :
           \A d \in Directions(box) : box.lo[d] <= p[d] /\ p[d] <= box.hi[d]}
=============================================================================

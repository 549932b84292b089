------------------------------ MODULE Kernels ------------------------------
(* How PeleC computes on one tile: temporary arrays are allocated on boxes     *)
(* around it, kernels are launched over boxes, and each kernel reads its input *)
(* arrays at fixed offsets from the index it is launched at. A program is the  *)
(* sequence of allocations and launches; GodunovKernels and MolKernels         *)
(* translate the two the code has. What is kept of an array is the box it is   *)
(* allocated on and the box where it holds the value the scheme asks for.      *)
EXTENDS Boxes, SequencesExt

VARIABLES
    config,     \* the run-time options and the kind of tile, see GhostCells
    program,    \* the stages still to come
    arrays      \* arrays[a] = [box, known]

vars == <<config, program, arrays>>

-----------------------------------------------------------------------------
dims == config.dims
D == 1..dims
e(d) == Unit(dims, d)
Zero == [t \in D |-> 0]
All(n) == [t \in D |-> n]

\* Which indices of an array a kernel accesses, relative to its own. A guarded
\* access is left out where the array does not contain it.
Reach(a, lo, hi) == [array |-> a, lo |-> lo, hi |-> hi, guarded |-> FALSE]

here(a) == Reach(a, Zero, Zero)
above(a, d) == Reach(a, e(d), e(d))
along(a, d, m, n) == Reach(a, Step(Zero, d, -m), Step(Zero, d, n))
around(a, n) == Reach(a, All(-n), All(n))
guarded(access) == [access EXCEPT !.guarded = TRUE]

\* The two faces of a cell across d, and these with their neighbours beside them.
faces(a, d) == along(a, d, 0, 1)
facesAround(a, d) == Reach(a, Step(All(-1), d, 1), All(1))
\* A face and its neighbours beside it.
faceAround(a, d) == Reach(a, Step(All(-1), d, 1), Step(All(1), d, -1))

\* Stages. Compute fills the arrays it writes anew. Amend changes what they
\* hold, a change that is due on the whole of the box "due".
Allocate(a, box) == [op |-> "allocate", array |-> a, box |-> box]
Provide(a, box) == [op |-> "provide", array |-> a, box |-> box]
Compute(box, writes, reads) ==
    [op |-> "compute", box |-> box, writes |-> writes, reads |-> reads]
Amend(box, due, writes, reads) ==
    [op |-> "amend", box |-> box, due |-> due, writes |-> writes, reads |-> reads]

ForEach(stages(_)) == FlattenSeq([d \in D |-> stages(d)])
When(condition, stages) == IF condition THEN stages ELSE << >>

-----------------------------------------------------------------------------
Nothing == [lo |-> All(0), hi |-> All(-1)]

isEmpty(box) == \E d \in D : box.hi[d] < box.lo[d]

Common(b, c) ==
    [lo |-> [d \in D |-> IF b.lo[d] > c.lo[d] THEN b.lo[d] ELSE c.lo[d]],
     hi |-> [d \in D |-> IF b.hi[d] < c.hi[d] THEN b.hi[d] ELSE c.hi[d]]]

\* The indices of a launch at which an access finds values that are known.
Served(access) ==
    LET known == arrays[access.array].known
    IN  [lo |-> [d \in D |-> known.lo[d] - access.lo[d]],
         hi |-> [d \in D |-> known.hi[d] - access.hi[d]]]

\* The indices at which a launch computes what the scheme asks for.
Computed(stage) ==
    FoldFunction(Common, stage.box, [r \in stage.reads |-> Served(r)])

\* What stays right of an array when a change due on one box reached another.
Amended(known, due, reached) ==
    LET owed == Common(known, due)
        missed == {d \in D : reached.lo[d] > owed.lo[d] \/ reached.hi[d] < owed.hi[d]}
        cut == Common(known, reached)
    IN  IF isEmpty(owed) THEN known
        ELSE [lo |-> [d \in D |-> IF d \in missed THEN cut.lo[d] ELSE known.lo[d]],
              hi |-> [d \in D |-> IF d \in missed THEN cut.hi[d] ELSE known.hi[d]]]

After(stage, w) ==
    LET reached == shift(Computed(stage), w.lo)
        known == arrays[w.array].known
    IN  [arrays[w.array] EXCEPT
           !.known = IF stage.op = "amend" THEN Amended(known, stage.due, reached)
                     ELSE IF isEmpty(reached) THEN Nothing ELSE reached]

WriteOf(stage, a) == CHOOSE w \in stage.writes : w.array = a

Written(stage) == {w.array : w \in stage.writes}

-----------------------------------------------------------------------------
Next1 == Head(program)

Create ==
    /\ program # << >>
    /\ Next1.op \in {"allocate", "provide"}
    /\ arrays' = (Next1.array :> [box |-> Next1.box,
                                  known |-> IF Next1.op = "provide" THEN Next1.box
                                            ELSE Nothing]) @@ arrays
    /\ program' = Tail(program)
    /\ UNCHANGED config

Launch ==
    /\ program # << >>
    /\ Next1.op \in {"compute", "amend"}
    /\ arrays' = [a \in DOMAIN arrays |->
                    IF a \in Written(Next1) THEN After(Next1, WriteOf(Next1, a))
                    ELSE arrays[a]]
    /\ program' = Tail(program)
    /\ UNCHANGED config

Finished == program = << >> /\ UNCHANGED vars

Next == Create \/ Launch \/ Finished
=============================================================================

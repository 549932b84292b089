----------------------------- MODULE GhostCells -----------------------------
(* Do the ghost cells suffice? One tile is computed by one of the kernel       *)
(* programs; what is checked is that no kernel leaves its arrays and that the  *)
(* update and the fluxes of the tile are the ones the scheme asks for, that    *)
(* is, they do not depend on where tiles and grids end.                        *)
EXTENDS DeriveKernels

\* Records [term, dims, mol, eb, trace, flattening, nGrowF, boundary, model,
\* testFilter]: which program, and its options. "trace" stands for ppm_type,
\* plm_iorder and weno_scheme together, "eb" for cut cells near the tile and how
\* their divergence is redistributed, "boundary" for the side at which the tile
\* lies at the boundary of the domain, with inflow or isothermal walls, if any,
\* "model" for les_model and "testFilter" for the reach of its test filter; for
\* derived fields and tags [term, dims, mol, eb, covered, name,
\* ngrow], of which "covered" is that the tile lies in the body.
CONSTANTS Configurations

Init ==
    /\ config \in Configurations
    /\ arrays = << >>
    /\ program = CASE config.term = "hydro" -> construct_hydro_source
                   [] config.term = "diffusion" -> getMOLSrcTerm
                   [] config.term = "les" -> getLESTerm
                   [] config.term = "derive" -> derive(config.name, config.ngrow)
                   [] config.term = "tag" -> errorEst

Spec == Init /\ [][Next]_vars

-----------------------------------------------------------------------------
Touched(box, access) == [lo |-> Plus(box.lo, access.lo), hi |-> Plus(box.hi, access.hi)]

\* No kernel reads or writes outside an array: all its accesses, unless the
\* code guards them, lie in the boxes the arrays were allocated on, also where
\* a kernel runs on a box it grew itself.
AccessesAllocated ==
    program # << >> /\ Next1.op \in {"compute", "amend"}
      => \A access \in Next1.reads \union Next1.writes :
           /\ access.array \in DOMAIN arrays
           /\ ~access.guarded => contains(arrays[access.array].box, Touched(Next1.box, access))

Result == CASE config.term = "hydro" -> [array |-> hydro_source, box |-> bx]
            [] config.term = "diffusion" -> [array |-> MOLSrc, box |-> bx]
            [] config.term = "les" -> [array |-> LESTerm, box |-> bx]
            [] config.term = "derive" -> [array |-> der, box |-> grow(bx, config.ngrow)]
            [] config.term = "tag" -> [array |-> tags, box |-> bx]

UpdateComplete == contains(arrays[Result.array].known, Result.box)

FluxesComplete ==
    config.term \in {"hydro", "diffusion", "les"} =>
      \A d \in D : contains(arrays[flux(d)].known, surroundingNodes(bx, d))

\* When the tile is done, its update and the fluxes that go to the registers
\* are those the scheme prescribes, although every kernel ran on a box cut off
\* somewhere around the tile; a derived field is, on the ghost cells asked for.
ResultsComplete == program = << >> => UpdateComplete /\ FluxesComplete
=============================================================================

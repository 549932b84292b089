--------------------------- MODULE GodunovKernels ---------------------------
(* The program of construct_hydro_source for one tile: primitive variables and *)
(* their sources, the corner-transport-upwind fluxes of pc_umeth_3D,           *)
(* pc_umeth_2D or their variants at embedded boundaries, what pc_umdrv and     *)
(* pc_umdrv_eb make of them, the explicit filter.                              *)
EXTENDS Kernels

\* The tile.
bx == Cube(dims, 2)

numGrow == 4 + CASE config.eb = "none" -> 0
                 [] config.eb = "FluxRedist" -> IF config.mol THEN 1 ELSE 2
                 [] config.eb = "StateRedist" -> IF config.mol THEN 2 ELSE 3

S == <<"S">>
q == <<"q">>
qaux == <<"qaux">>
src_q == <<"src_q">>
volume == <<"volume">>
hydro_source == <<"hydro_source">>
divc == <<"divc">>
area(d) == <<"area", d>>
flux(d) == <<"flux", d>>            \* the fluxes of construct_hydro_source
qec(d) == <<"qec", d>>              \* Riemann's states at the faces
flux_tmp(d) == <<"flux_tmp", d>>    \* fluxes at face centres, with cut cells

\* Arrays of pc_umeth: states traced to the faces across d (qm below, qp above),
\* first fluxes and face states; the same after a correction by t; qm and qp.
qm(d) == <<"qm", d>>
qp(d) == <<"qp", d>>
f(d) == <<"f", d>>
gd(d) == <<"gd", d>>
qm2(d, t) == <<"qm", d, t>>
qp2(d, t) == <<"qp", d, t>>
f2(d, t) == <<"f", d, t>>
gd2(d, t) == <<"gd", d, t>>
QM == <<"qm">>
QP == <<"qp">>

others(d) == D \ {d}
other(d) == CHOOSE t \in D \ {d} : \A s \in D \ {d} : t <= s
third(d, t) == CHOOSE s \in D : s \notin {d, t}

-----------------------------------------------------------------------------
\* What single kernels read. Cells hold q, qp and qaux; a face is the index of
\* the cell above it, and qm of that face is written by the cell below.

\* plm_slope or trace_ppm: cells on either side, by the scheme.
traceReach == CASE config.trace = "plm1" -> 0
                [] config.trace \in {"plm2", "weno3"} -> 1
                [] config.trace \in {"plm4", "ppm", "weno5"} -> 2
                [] config.trace = "weno7" -> 3

\* flatten and flatten_eb give up where q does not hold the cells they need.
flattening == IF config.flattening THEN {guarded(along(q, d, 3, 3)) : d \in D} ELSE {}

trace(d, box) ==
    Compute(box, {above(qm(d), d), here(qp(d))},
            {along(q, d, traceReach, traceReach), here(qaux), here(src_q)} \union flattening)

pc_cmpflx(d, box, ql, qr, flx, q_face) ==
    Compute(box, {here(flx), here(q_face)}, {here(ql), here(qr), along(qaux, d, 1, 0)})

pc_transdo(d, t, box) ==
    Compute(box, {above(qm2(d, t), d), here(qp2(d, t))},
            {above(qm(d), d), here(qp(d)), faces(f(t), t), faces(gd(t), t), here(qaux)})

pc_transdd(d, box) ==
    Compute(box, {above(QM, d), here(QP)},
            {above(qm(d), d), here(qp(d)), here(qaux), here(src_q)}
            \union UNION {{faces(f2(t, third(d, t)), t), faces(gd2(t, third(d, t)), t)} :
                          t \in others(d)})

\* The first y states of pc_umeth_2D are in qec[1], so that gd(1) is the only
\* array of its own.
firstStates(d) == IF dims = 2 /\ d = 2 THEN qec(2) ELSE gd(d)

pc_transd(d, box) ==
    LET t == other(d)
    IN  Compute(box, {above(QM, d), here(QP)},
                {above(qm(d), d), here(qp(d)), faces(f(t), t), faces(firstStates(t), t),
                 here(qaux), here(src_q)})

pc_pdivu(box) ==
    Compute(box, {here(<<"pdivu">>)},
            {faces(qec(d), d) : d \in D} \union {faces(area(d), d) : d \in D} \union {here(volume)})

\* pc_divu and eb_divu: the divergence at the lowest node of a cell.
pc_divu(box) == Compute(box, {here(<<"divu">>)}, {Reach(q, All(-1), Zero)})

pc_artif_visc(d, box, due, flx) ==
    Amend(box, due, {here(flx)},
          {here(flx), Reach(<<"divu">>, Zero, Step(All(1), d, -1)), along(S, d, 1, 0), here(area(d))})

-----------------------------------------------------------------------------
\* Faces of the domain boundary that lie in a box's faces across d: those of
\* an inflow or user-defined boundary at the tile's low or high side.
boundaryFaces(box, d) ==
    LET all == surroundingNodes(box, d)
    IN  IF config.boundary = "low" THEN [all EXCEPT !.hi[d] = bx.lo[d]]
        ELSE [all EXCEPT !.lo[d] = bx.hi[d] + 1]

enclosedCells(box, d) == growHi(box, d, -1)

pc_low_order_boundary(box, d, flx, allFaces) ==
    LET bfbx == boundaryFaces(box, d)
        bdbx == growDim(enclosedCells(bfbx, d), d, 1)
        due == [allFaces EXCEPT !.lo[d] = bfbx.lo[d], !.hi[d] = bfbx.hi[d]]
        reach == CASE config.trace = "plm1" -> 0 [] config.trace = "plm2" -> 1 [] OTHER -> 2
    IN  << Allocate(<<"qbm", d>>, growHi(bdbx, d, 1)),
           Allocate(<<"qbp", d>>, bdbx),
           Compute(bdbx, {above(<<"qbm", d>>, d), here(<<"qbp", d>>)},
                   {along(q, d, reach, reach), here(qaux)} \union flattening),
           Amend(bfbx, due, {here(flx), here(qec(d))},
                 {here(<<"qbm", d>>), here(<<"qbp", d>>), along(qaux, d, 1, 0)}) >>

TracedStates(box) ==
    LET bxg2 == grow(box, 2)
        arraysOf(d) == << Allocate(qm(d), growHi(bxg2, d, 1)), Allocate(qp(d), bxg2) >>
        traceOf(d) == << trace(d, bxg2) >>
    IN  ForEach(arraysOf) \o ForEach(traceOf)

\* First fluxes across d, on the given faces of every direction. In two
\* dimensions the x states have an array on cells, the y states are in qec[1].
FirstFluxes(bxg2, facesOf) ==
    LET allocate(d) ==
          << Allocate(f(d), facesOf[d]) >>
          \o When(firstStates(d) = gd(d),
                  << Allocate(gd(d), IF dims = 2 THEN bxg2 ELSE facesOf[d]) >>)
        solve(d) == << pc_cmpflx(d, facesOf[d], qm(d), qp(d), f(d), firstStates(d)) >>
    IN  ForEach(allocate) \o ForEach(solve)

\* States and fluxes across d after a correction by one other direction: the
\* arrays of states, the cells corrected and the faces solved at, for each t.
InterfaceCorrections(d, mbox, pbox, fluxbox, cells, solved) ==
    FlattenSeq([t \in D |-> When(t # d,
      << Allocate(qm2(d, t), mbox), Allocate(qp2(d, t), pbox),
         Allocate(f2(d, t), fluxbox), Allocate(gd2(d, t), fluxbox),
         pc_transdo(d, t, cells[t]),
         pc_cmpflx(d, solved[t], qm2(d, t), qp2(d, t), f2(d, t), gd2(d, t)) >>)])

\* The corrected states across d and the final fluxes.
FinalSteps(d, cells, solved, flx) ==
    << IF dims = 3 THEN pc_transdd(d, cells) ELSE pc_transd(d, cells),
       pc_cmpflx(d, solved, QM, QP, flx, qec(d)) >>

LowOrderBoundaries(box, fluxOf, facesOf) ==
    LET at(d) == When(~isEmpty(boundaryFaces(box, d)),
                      pc_low_order_boundary(box, d, fluxOf[d], facesOf[d]))
    IN  When(config.boundary \in {"low", "high"}, ForEach(at))

-----------------------------------------------------------------------------
\* Faces inside the cells that have traced states.
innerFaces(box, d) == surroundingNodes(growDim(grow(box, 2), d, -1), d)

firstFluxes(box) == FirstFluxes(grow(box, 2), [d \in D |-> innerFaces(box, d)])

corrections_3D(box) ==
    LET bxg1 == grow(box, 1)
        correction(d) ==
          LET tbx == growDim(bxg1, d, 1)
              tfxbx == surroundingNodes(bxg1, d)
              everywhere(b) == [t \in D |-> b]
          IN  InterfaceCorrections(d, growHi(tbx, d, 1), tbx, tfxbx,
                                   everywhere(tbx), everywhere(tfxbx))
    IN  ForEach(correction)

finalFluxes(box) ==
    LET facesOf == [d \in D |-> surroundingNodes(box, d)]
        final(d) == FinalSteps(d, growDim(box, d, 1), facesOf[d], flux(d))
    IN  << Allocate(QM, grow(box, 2)), Allocate(QP, grow(box, 1)) >>
        \o ForEach(final)
        \o LowOrderBoundaries(box, [d \in D |-> flux(d)], facesOf)
        \o << pc_pdivu(box) >>

pc_umeth_3D(box) ==
    TracedStates(box) \o firstFluxes(box) \o corrections_3D(box) \o finalFluxes(box)

pc_umeth_2D(box) == TracedStates(box) \o firstFluxes(box) \o finalFluxes(box)

\* Mutant of grownAcross: the faces of direction d get no neighbours beside them.
NotGrown(box, d) == box

\* A box grown by one in the directions other than d.
grownAcross(box, d) == growDim(grow(box, 1), d, -1)

\* The final faces of pc_umeth_eb_3D and pc_umeth_eb_2D: the latter grows both
\* boxes in direction 1, by one for x and by nothing for y.
finalFaces(box, d) ==
    IF dims = 3 THEN surroundingNodes(grownAcross(box, d), d)
    ELSE surroundingNodes(growDim(box, 2, 2 - d), d)

corrections_eb_3D(box) ==
    LET bxg1 == grow(box, 1)
        bxg2 == grow(box, 2)
        correction(d) ==
          LET mbx == growHi(bxg2, d, 1)
              cells == [t \in D |-> growDim(bxg2, t, -1)]
              solved == [t \in others(d) |-> growDim(surroundingNodes(bxg1, d), third(d, t), 1)]
          IN  InterfaceCorrections(d, mbx, mbx, surroundingNodes(bxg2, d), cells, solved)
    IN  ForEach(correction)

finalFluxes_eb(box) ==
    LET bxg1 == grow(box, 1)
        facesOf == [d \in D |-> finalFaces(box, d)]
        final(d) == FinalSteps(d, bxg1, facesOf[d], flux_tmp(d))
    IN  << Allocate(QM, grow(box, 2)), Allocate(QP, bxg1) >>
        \o ForEach(final)
        \o LowOrderBoundaries(box, [d \in D |-> flux_tmp(d)], facesOf)

pc_umeth_eb_3D(box) ==
    TracedStates(box) \o firstFluxes(box) \o corrections_eb_3D(box) \o finalFluxes_eb(box)

pc_umeth_eb_2D(box) ==
    TracedStates(box)
    \o FirstFluxes(grow(box, 2), [d \in D |-> surroundingNodes(grow(box, 1), d)])
    \o finalFluxes_eb(box)

-----------------------------------------------------------------------------
pc_adjust_fluxes(box) ==
    LET adjust(d) == << pc_artif_visc(d, surroundingNodes(box, d), surroundingNodes(box, d), flux(d)) >>
    IN  ForEach(adjust)

pc_consup(box) ==
    << Compute(box, {here(hydro_source)},
               {faces(flux(d), d) : d \in D} \union {here(volume), here(<<"pdivu">>)}) >>

pc_umdrv(fbx) ==
    LET bxg2 == grow(fbx, 2)
        arraysOf(d) == << Allocate(qec(d), surroundingNodes(bxg2, d)) >>
    IN  ForEach(arraysOf)
        \o << Allocate(<<"divu">>, bxg2), Allocate(<<"pdivu">>, fbx) >>
        \o (IF dims = 3 THEN pc_umeth_3D(fbx) ELSE pc_umeth_2D(fbx))
        \o << pc_divu(bxg2) >>
        \o pc_adjust_fluxes(fbx)
        \o pc_consup(fbx)

\* The divergence is wanted at all nodes whose cells q holds; the fluxes are
\* changed on the whole of their arrays.
pc_adjust_fluxes_eb(qbx, fluxFaces) ==
    LET bx_divu == shift([grow(qbx, -1) EXCEPT !.hi = Plus(@, All(1))], Zero)
        adjust(d) == << pc_artif_visc(d, fluxFaces[d], fluxFaces[d], flux_tmp(d)) >>
    IN  << Allocate(<<"divu">>, bx_divu), pc_divu(bx_divu) >> \o ForEach(adjust)

\* eb_compute_div takes the fluxes of a cut cell from the faces beside its own
\* and keeps those of the tile; pc_eb_pdivu does the same with the face states.
pc_consup_eb(box, bxg_i) ==
    LET keep(d) == << Compute(surroundingNodes(box, d), {here(flux(d))},
                              {faceAround(flux_tmp(d), d)}) >>
    IN  << Compute(bxg_i, {here(divc)},
                   {facesAround(flux_tmp(d), d) : d \in D} \union {here(q), here(qaux)}) >>
        \o ForEach(keep)
        \o << Amend(bxg_i, bxg_i, {here(divc)},
                    {facesAround(qec(d), d) : d \in D} \union {here(divc), here(q)}) >>

\* How far around a cell its redistribution looks.
redistReach == IF config.eb = "StateRedist" THEN 3 ELSE 2

\* The cell's update from the divergences around it; then the density's from
\* the species', and admissible mass fractions in cut cells.
ApplyMLRedistribution(box, out, divergence) ==
    << Compute(box, {here(out)}, {around(divergence, redistReach), around(S, redistReach)}) >>

pc_post_eb_redistribution(box, out) ==
    << Amend(box, box, {here(out)}, {here(out), here(S)}) >>

pc_umdrv_eb(fbx, bxg_i, qbx) ==
    LET bxg_ii == grow(bxg_i, 1)
        arraysOf(d) == << Allocate(qec(d), surroundingNodes(grow(bxg_ii, 1), d)),
                          Allocate(flux_tmp(d), surroundingNodes(bxg_ii, d)) >>
        fluxFaces == [d \in D |-> surroundingNodes(bxg_ii, d)]
    IN  ForEach(arraysOf)
        \o << Allocate(divc, bxg_i) >>
        \o (IF dims = 3 THEN pc_umeth_eb_3D(bxg_i) ELSE pc_umeth_eb_2D(bxg_i))
        \o pc_adjust_fluxes_eb(qbx, fluxFaces)
        \o pc_consup_eb(fbx, bxg_i)
        \o ApplyMLRedistribution(fbx, hydro_source, divc)
        \o pc_post_eb_redistribution(fbx, hydro_source)

\* Fluxes and update of the tile from those around it.
apply_filter(box, flx(_)) ==
    LET filter(d) == << Compute(surroundingNodes(box, d), {here(flx(d))}, {around(flx(d), config.nGrowF)}) >>
    IN  ForEach(filter)

\* What the level provides: the state and its geometry, filled on its ghost cells.
Provided ==
    LET gbox == grow(bx, numGrow + config.nGrowF)
        areas(d) == << Provide(area(d), surroundingNodes(gbox, d)) >>
    IN  << Provide(S, gbox), Provide(volume, gbox) >> \o ForEach(areas)

construct_hydro_source ==
    LET qbx == grow(bx, numGrow + config.nGrowF)
        fbx == grow(bx, config.nGrowF)
        fbxg_i == grow(fbx, redistReach)
        fluxes(d) == << Allocate(flux(d), surroundingNodes(fbx, d)) >>
    IN  Provided
        \o << Provide(<<"sources_for_hydro">>, qbx), Allocate(hydro_source, fbx) >>
        \o ForEach(fluxes)
        \o << Allocate(q, qbx), Allocate(qaux, qbx), Allocate(src_q, qbx),
              Compute(qbx, {here(q), here(qaux)}, {here(S)}),
              Compute(qbx, {here(src_q)}, {here(q), here(qaux), here(<<"sources_for_hydro">>)}) >>
        \o (IF config.eb = "none" THEN pc_umdrv(fbx) ELSE pc_umdrv_eb(fbx, fbxg_i, qbx))
        \o When(config.nGrowF > 0,
                apply_filter(bx, flux)
                \o << Compute(bx, {here(hydro_source)}, {around(hydro_source, config.nGrowF)}) >>)
=============================================================================

----------------------------- MODULE MolKernels -----------------------------
(* The program of getMOLSrcTerm for one tile (Source/Diffusion.cpp): diffusion *)
(* fluxes, isothermal domain walls, the hyperbolic fluxes of the method of     *)
(* lines (MOL.cpp), their explicit filter, wall fluxes and face stencils at    *)
(* cut cells (EB.cpp), the divergence and its redistribution. The Godunov      *)
(* scheme uses the same program for its diffusion term.                        *)
EXTENDS GodunovKernels

coeff_cc == <<"coeff_cc">>
Dterm == <<"Dterm">>
MOLSrc == <<"MOLSrc">>
dq == <<"dq">>
ebflux == <<"ebflux">>          \* eb_flux_thdlocal, the wall fluxes of the tile
sv_eb_flux == <<"sv_eb_flux">>  \* the wall fluxes kept with the grid
diffusion_flux(d) == <<"diffusion_flux", d>>
hydro_flux(d) == <<"hydro_flux", d>>

ng == numGrow
vbox == bx
gbox == grow(vbox, ng)
cbox == grow(vbox, ng - 1)
ebfluxbox == grow(vbox, 3)
ebox(d) == surroundingNodes(cbox, d)

cut == config.eb # "none"

-----------------------------------------------------------------------------
\* Velocity gradients across a face and beside it, coefficients of its cells.
pc_diffusion_flux(d) ==
    Compute(ebox(d), {here(flux(d))},
            {Reach(q, Step(All(-1), d, 0), Step(All(1), d, -1)),
             along(coeff_cc, d, 1, 0), here(area(d))})

\* Heat flux through the isothermal walls of the domain that the tile touches.
pc_isothermal_wall_fluxes(d) ==
    LET wall == boundaryFaces(vbox, d)
        due == [ebox(d) EXCEPT !.lo[d] = wall.lo[d], !.hi[d] = wall.hi[d]]
        inner == IF config.boundary = "low" THEN here(q) ELSE along(q, d, 1, -1)
    IN  When(~isEmpty(wall),
             << Amend(wall, due, {here(flux(d))}, {here(flux(d)), inner, here(area(d))}) >>)

DiffusionFluxes ==
    LET arraysOf(d) == << Allocate(flux(d), ebox(d)) >>
        fluxes(d) == << pc_diffusion_flux(d) >>
    IN  ForEach(arraysOf) \o << Allocate(Dterm, cbox) >> \o ForEach(fluxes)
        \o When(config.boundary \in {"low", "high"}, ForEach(pc_isothermal_wall_fluxes))

mol_slope(d) ==
    Compute(cbox, {here(dq)}, IF config.trace = "plm1" THEN {} ELSE {along(q, d, 1, 1), here(qaux)})

\* The faces both of whose cells have slopes.
molFaces(d) == surroundingNodes(growDim(cbox, d, -1), d)

pc_compute_hyp_mol_flux(d) ==
    << Allocate(dq, cbox), mol_slope(d),
       Amend(molFaces(d), ebox(d), {here(flux(d))},
             {here(flux(d)), along(dq, d, 1, 0), along(q, d, 1, 0), along(qaux, d, 1, 0),
              here(area(d))}) >>

\* With an explicit filter the diffusion fluxes are saved, what the hyperbolic
\* ones added is filtered where the stencil fits, and both are added up again.
HydroFluxes ==
    LET save(d) == << Allocate(diffusion_flux(d), ebox(d)),
                      Compute(ebox(d), {here(diffusion_flux(d))}, {here(flux(d))}) >>
        extract(d) == << Allocate(hydro_flux(d), ebox(d)),
                         Compute(ebox(d), {here(hydro_flux(d))}, {here(flux(d)), here(diffusion_flux(d))}) >>
        combine(d) == << Compute(ebox(d), {here(flux(d))}, {here(diffusion_flux(d)), here(hydro_flux(d))}) >>
        filtering == config.nGrowF > 0
    IN  When(filtering, ForEach(save))
        \o ForEach(pc_compute_hyp_mol_flux)
        \o When(filtering,
                ForEach(extract)
                \o apply_filter(grow(cbox, -config.nGrowF), hydro_flux)
                \o ForEach(combine))

-----------------------------------------------------------------------------
\* Wall fluxes of cut cells: the boundary gradient stencils of temperature and
\* velocity, a block of three cells a side whose centre is a neighbour of the
\* cell; then the pressure on the wall.
WallFluxes ==
    << Allocate(ebflux, gbox),
       Compute(ebfluxbox, {here(ebflux)}, {around(q, 2), here(coeff_cc)}) >>
    \o When(config.mol,
            << Amend(grow(cbox, -1), ebfluxbox, {here(ebflux)}, {here(ebflux), here(q), here(qaux)}) >>)
    \o << Allocate(sv_eb_flux, gbox), Compute(ebfluxbox, {here(sv_eb_flux)}, {here(ebflux)}) >>

\* Fluxes of cut faces are moved from the face centres to their centroids.
pc_apply_face_stencil(d) ==
    << Compute(surroundingNodes(ebfluxbox, d), {here(flux(d))}, {faceAround(flux(d), d)}) >>

pc_flux_div ==
    << Compute(cbox, {here(Dterm)}, {faces(flux(d), d) : d \in D} \union {here(volume)}) >>

\* The divergence of cut cells, with the wall flux and the volume fraction.
pc_eb_div ==
    << Amend(grow(vbox, 2), grow(vbox, redistReach), {here(Dterm)},
             {faces(flux(d), d) : d \in D} \union {here(sv_eb_flux)}) >>

getMOLSrcTerm ==
    Provided
    \o << Allocate(q, gbox), Allocate(qaux, gbox), Allocate(coeff_cc, gbox),
          Compute(gbox, {here(q), here(qaux)}, {here(S)}),
          Compute(gbox, {here(coeff_cc)}, {here(q)}) >>
    \o DiffusionFluxes
    \o When(config.mol, HydroFluxes)
    \o (IF cut
        THEN WallFluxes \o ForEach(pc_apply_face_stencil) \o pc_flux_div \o pc_eb_div
             \o ApplyMLRedistribution(vbox, Dterm, Dterm)
             \o pc_post_eb_redistribution(vbox, Dterm)
        ELSE pc_flux_div)
    \o << Allocate(MOLSrc, vbox), Compute(vbox, {here(MOLSrc)}, {here(Dterm)}) >>
=============================================================================

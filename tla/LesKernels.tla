----------------------------- MODULE LesKernels -----------------------------
(* The programs of getLESTerm for the grid-based closures (Source/LES.cpp,     *)
(* Source/LES.H): constant Smagorinsky, WALE and Vreman from gradients at the  *)
(* faces, dynamic Smagorinsky from quantities filtered at a test level, and    *)
(* the explicit filter of their term. They exist in three dimensions only.     *)
EXTENDS MolKernels

LESTerm == <<"LESTerm">>
filtered_les_source == <<"filtered_les_source">>
LES_Coeffs == <<"LES_Coeffs">>
tander_ec(d) == <<"tander_ec", d>>
filtered(a) == Append(a, 0)
edge(a, d) == Append(a, d)

K == <<"K">>
RUT == <<"RUT">>
alphaij == <<"alphaij">>
alpha == <<"alpha">>
flux_T == <<"flux_T">>
derived == <<K, RUT, alphaij, alpha, flux_T>>
filtered_S == filtered(S)
filtered_Q == filtered(q)

\* Filter's width on each side of the cell: of the dynamic coefficients' filter
\* (box type, ratio 6) and of the test filter, which the user chooses.
nGrowD == 1
nGrowC == 3
nGrowT == config.testFilter

AllocateAll(names, box) == [n \in DOMAIN names |-> Allocate(names[n], box)]

setFaces(d) == surroundingNodes(bx, d)

\* S and the areas and volumes of the grid; S has ghost cells for this term only.
ProvidedLES(ngrow) ==
    LET areas(d) == << Provide(area(d), setFaces(d)) >>
    IN  << Provide(S, grow(bx, ngrow)), Provide(volume, bx) >> \o ForEach(areas)

ctoprim(box) == << Allocate(q, box), Allocate(qaux, box),
                   Compute(box, {here(q), here(qaux)}, {here(S)}) >>

-----------------------------------------------------------------------------
\* Velocity differences in the directions other than d, of both cells at a face.
computeTangentialVelDerivs ==
    LET derivs(d) ==
          << Allocate(tander_ec(d), setFaces(d)),
             Compute(setFaces(d), {here(tander_ec(d))},
                     UNION {{Reach(q, Step(Step(Zero, d, -1), t, -1), Step(Zero, t, 1))} :
                            t \in others(d)}) >>
    IN  ForEach(derivs)

resizeAndSetFlux ==
    LET fluxOf(d) == << Allocate(flux(d), setFaces(d)) >>
    IN  ForEach(fluxOf)

computeFluxDiv ==
    << Compute(bx, {here(LESTerm)}, {faces(flux(d), d) : d \in D} \union {here(volume)}) >>

\* pc_smagorinsky_sfs_term, pc_wale_sfs_term and pc_vreman_sfs_term.
pc_sfs_term(d) ==
    << Compute(setFaces(d), {here(flux(d))},
               {along(q, d, 1, 0), here(tander_ec(d)), here(area(d))}) >>

getSmagorinskyLESTerm ==
    ProvidedLES(1) \o ctoprim(grow(bx, 1)) \o computeTangentialVelDerivs
    \o resizeAndSetFlux \o ForEach(pc_sfs_term) \o computeFluxDiv

\* Copies of it that call another closure at the faces.
getWALELESTerm == getSmagorinskyLESTerm
getVremanLESTerm == getSmagorinskyLESTerm

-----------------------------------------------------------------------------
\* Central differences of velocity and temperature.
stresses_cc(a) == {along(a, d, 1, 1) : d \in D}

pc_dynamic_smagorinsky_quantities(box) ==
    << Compute(box, {here(derived[n]) : n \in DOMAIN derived}, stresses_cc(q)) >>

\* Mutant of coefficientBox: the coefficients' filter is taken to need no cells.
NoFilterCells == grow(bx, 1)

\* Where the dynamic coefficients are computed (g3box).
coefficientBox == grow(bx, nGrowC + 1)

TestFilter ==
    LET g2box == grow(coefficientBox, nGrowD)
        test(n) == << Allocate(filtered(derived[n]), coefficientBox),
                      Compute(coefficientBox, {here(filtered(derived[n]))},
                              {around(derived[n], nGrowT)}) >>
    IN  << Allocate(filtered_S, g2box), Allocate(filtered_Q, g2box),
           Compute(g2box, {here(filtered_S)}, {around(S, nGrowT)}),
           Compute(g2box, {here(filtered_Q)}, {here(filtered_S)}) >>
        \o FlattenSeq([n \in DOMAIN derived |-> test(n)])

pc_dynamic_smagorinsky_coeffs ==
    << Allocate(coeff_cc, coefficientBox),
       Compute(coefficientBox, {here(coeff_cc)},
               stresses_cc(filtered_Q) \union {here(filtered(derived[n])) : n \in DOMAIN derived}) >>

\* LES_Coeffs is an array of the level with one ghost cell.
SmoothedCoefficients ==
    << Allocate(LES_Coeffs, grow(bx, 1)),
       Compute(grow(bx, 1), {here(LES_Coeffs)}, {around(coeff_cc, nGrowC)}) >>

toFaces(d) ==
    LET moved == <<LES_Coeffs, alphaij, alpha, flux_T>>
    IN  [n \in DOMAIN moved |-> Allocate(edge(moved[n], d), setFaces(d))]
        \o << Compute(setFaces(d), {here(edge(moved[n], d)) : n \in DOMAIN moved},
                      {along(moved[n], d, 1, 0) : n \in DOMAIN moved}) >>

pc_dynamic_smagorinsky_sfs_term(d) ==
    << Compute(setFaces(d), {here(flux(d))},
               {here(edge(a, d)) : a \in {LES_Coeffs, alphaij, alpha, flux_T}}
               \union {along(q, d, 1, 0), here(area(d))}) >>

getDynamicSmagorinskyLESTerm ==
    LET ghosts == nGrowD + nGrowC + nGrowT + 1
        g1box == grow(bx, nGrowC + nGrowT + 1)
    IN  ProvidedLES(ghosts) \o ctoprim(grow(bx, ghosts))
        \o AllocateAll(derived, g1box) \o pc_dynamic_smagorinsky_quantities(g1box)
        \o TestFilter \o pc_dynamic_smagorinsky_coeffs \o SmoothedCoefficients
        \o ForEach(toFaces) \o resizeAndSetFlux
        \o ForEach(pc_dynamic_smagorinsky_sfs_term) \o computeFluxDiv

-----------------------------------------------------------------------------
\* The term has nGrowF ghost cells more for the filter, and they stay zero; the
\* registers get the fluxes as they were before it.
getLESTerm ==
    << Allocate(LESTerm, grow(bx, config.nGrowF)) >>
    \o (CASE config.model = "Smagorinsky" -> getSmagorinskyLESTerm
          [] config.model = "DynamicSmagorinsky" -> getDynamicSmagorinskyLESTerm
          [] config.model = "WALE" -> getWALELESTerm
          [] config.model = "Vreman" -> getVremanLESTerm)
    \o When(config.nGrowF > 0,
            << Allocate(filtered_les_source, bx),
               Compute(bx, {here(filtered_les_source)}, {around(LESTerm, config.nGrowF)}),
               Allocate(LESTerm, bx),
               Compute(bx, {here(LESTerm)}, {here(filtered_les_source)}) >>)
=============================================================================

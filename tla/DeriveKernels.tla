--------------------------- MODULE DeriveKernels ---------------------------
(* The programs that compute derived fields on one tile (PeleC::derive, the    *)
(* functions of Source/Derive.cpp and how Source/Setup.cpp registers them) and *)
(* tags for refinement (errorEst, the kernels of Source/Tagging.H). They start *)
(* from the state alone, filled with as many ghost cells as they ask for.      *)
EXTENDS LesKernels

der == <<"der">>
local == <<"local">>            \* velocities, of the functions that differentiate
vfrac == <<"vfrac">>
S_derData == <<"S_derData">>
tags == <<"tags">>
signDist == <<"signDist">>

\* The derived fields whose source is one cell wider than they are.
GrowBoxByOne == {"enstrophy", "magvort", "divu"}

\* Fields that are functions of a cell's own state.
velocityFields == {"magvel", "magvel_if", "magmom", "kineng"}
energyAndDensityFields == {"eint_E", "logden"}
thermodynamicFields == {"molefrac", "soundspeed", "entropy", "MachNumber", "pressure", "Temp"}
radialFields == {"radvel"}
heatCapacityFields == {"cp", "cv"}
coordinateFields == {"coordinates"}
viscosityFields == {"viscosity", "bulk_viscosity"}
transportFields == {"conductivity", "diffusivity"}
quotientFields == {"x_velocity", "massfrac", "eint_e"}
inertialFields == {"x_velocity_if"}
errorFields == {"rhommserror", "ummserror"}

\* Setup's list; fields of the same function are named once.
derive_lst ==
    GrowBoxByOne \union velocityFields \union energyAndDensityFields \union thermodynamicFields
    \union radialFields \union heatCapacityFields \union coordinateFields
    \union viscosityFields \union transportFields \union quotientFields
    \union inertialFields \union errorFields

coefficientNames == {"C_s2", "C_I", "Pr_T"}
stateNames == {"density"}

\* The fields a criterion of the input file may name.
tagNames == derive_lst \union stateNames

-----------------------------------------------------------------------------
\* Functions of at most the cell's own state.
ofOwnState(box, field) == << Compute(box, {here(field)}, {here(S)}) >>

\* Where the tile is covered by the body, the field is zero and nothing is read.
unlessCovered(box, field, stages) ==
    IF config.covered THEN << Compute(box, {here(field)}, {}) >> ELSE stages

\* Velocities on a box one cell wider; then centred or, at cut cells, one-sided
\* differences, whose cells are among those of the centred ones.
differences(a) == {along(a, d, 1, 1) : d \in D}

pc_dermagvort(box, field) ==
    << Allocate(local, grow(box, 1)) >>
    \o unlessCovered(box, field,
         << Compute(grow(box, 1), {here(local)}, {here(S)}),
            Compute(box, {here(field)}, differences(local)) >>)

pc_derdivu(box, field) ==
    unlessCovered(box, field, << Compute(box, {here(field)}, differences(S)) >>)

pc_derenstrophy(box, field) ==
    << Allocate(local, grow(box, 1)) >>
    \o unlessCovered(box, field,
         << Compute(grow(box, 1), {here(local)}, {here(S)}),
            Compute(box, {here(field)}, {here(S)} \union differences(local)) >>)

derFunc(name, box, field) ==
    CASE name = "magvort" -> pc_dermagvort(box, field)
      [] name = "divu" -> pc_derdivu(box, field)
      [] name = "enstrophy" -> pc_derenstrophy(box, field)
      [] OTHER -> ofOwnState(box, field)

\* AmrLevel::derive, of AMReX: the source has the ghost cells asked for and
\* those of the field's map of boxes, the function runs on all of the former.
AmrLevel_derive(name, ngrow) ==
    LET more == IF name \in GrowBoxByOne THEN 1 ELSE 0
    IN  << Provide(S, grow(bx, ngrow + more)), Allocate(der, grow(bx, ngrow)) >>
        \o derFunc(name, grow(bx, ngrow), der)

\* PeleC::derive. The coefficients of the closure are kept with one ghost cell,
\* as an assertion says; a state variable with ghost cells comes from the whole
\* state; of the volume fractions the ghost cells are left out.
derive(name, ngrow) ==
    CASE name \in coefficientNames ->
           << Provide(LES_Coeffs, grow(bx, 1)), Allocate(der, grow(bx, ngrow)),
              Compute(grow(bx, ngrow), {here(der)}, {here(LES_Coeffs)}) >>
      [] name = "vfrac" ->
           << Provide(vfrac, grow(bx, numGrow)), Allocate(der, grow(bx, ngrow)),
              Compute(bx, {here(der)}, {here(vfrac)}) >>
      [] name \in stateNames /\ ngrow > 0 ->
           << Provide(S, grow(bx, ngrow)), Allocate(der, grow(bx, ngrow)),
              Compute(grow(bx, ngrow), {here(der)}, {here(S)}) >>
      [] OTHER -> AmrLevel_derive(name, IF name \in GrowBoxByOne THEN ngrow + 1 ELSE ngrow)

-----------------------------------------------------------------------------
\* A kernel of Tagging.H adds the tags of one criterion to those of the tile.
tagging(reads) == << Amend(bx, bx, {here(tags)}, {here(tags)} \union reads) >>

tag_error(field) == tagging({here(field)})
tag_loerror(field) == tagging({here(field)})
tag_abserror(field) == tagging({here(field)})
tag_error_bounds(field) == tagging({here(field)})
tag_graderror(field) == tagging(differences(field))
tag_ratioerror(field) == tagging(differences(field))

\* A derived field for tagging, on all of its array.
derived_on(box, name) ==
    << Compute(grow(bx, 1), {here(S_derData)}, {}) >> \o derFunc(name, box, S_derData)

tagDensity == tag_error(S) \o tag_graderror(S) \o tag_ratioerror(S)

tagPressure ==
    derived_on(grow(bx, 1), "pressure") \o tag_error(S_derData) \o tag_graderror(S_derData)

\* In each direction the same.
tagVelocity ==
    derived_on(grow(bx, 1), "x_velocity") \o tag_abserror(S_derData) \o tag_graderror(S_derData)

tagVorticity == derived_on(bx, "magvort") \o tag_abserror(S_derData)

tagTemperature ==
    derived_on(grow(bx, 1), "Temp")
    \o tag_error(S_derData) \o tag_loerror(S_derData) \o tag_graderror(S_derData)

tagFlameTracer ==
    derived_on(grow(bx, 1), "massfrac") \o tag_error(S_derData) \o tag_graderror(S_derData)

\* Criteria of the input file, of a field derived with as many ghost cells as
\* the criterion needs, and of the problem.
err_tag == derive(config.name, config.ngrow) \o tagging({around(der, config.ngrow)})
set_problem_tags == tagging({here(S)})

\* Last: no tags near the body on levels that do not refine it.
untag == << Provide(signDist, bx) >> \o tagging({here(signDist)})

errorEst ==
    << Provide(S, grow(bx, 1)), Provide(tags, bx), Allocate(S_derData, grow(bx, 1)) >>
    \o tagDensity \o tagPressure \o tagVelocity \o tagVorticity \o tagTemperature
    \o tagFlameTracer
    \o When(config.eb # "none", << Provide(vfrac, bx) >> \o tag_error_bounds(vfrac))
    \o err_tag \o set_problem_tags
    \o When(config.eb # "none", untag)
=============================================================================

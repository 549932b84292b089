---------------------------- MODULE MCGhostCells ----------------------------
(* Options for GhostCells: every scheme with and without flattening, filter,   *)
(* domain boundaries and cut cells, in two and three dimensions; derived       *)
(* fields and tags.                                                            *)
EXTENDS GhostCells

Hydro ==
    [term : {"hydro"}, dims : {2, 3}, mol : {FALSE},
     eb : {"none", "FluxRedist", "StateRedist"},
     trace : {"plm1", "plm2", "plm4", "ppm", "weno3", "weno5", "weno7"},
     flattening : BOOLEAN, nGrowF : 0..2, boundary : {"none", "low", "high"},
     model : {"none"}, testFilter : {0}]

Diffusion ==
    [term : {"diffusion"}, dims : {2, 3}, mol : BOOLEAN,
     eb : {"none", "FluxRedist", "StateRedist"}, trace : {"plm1", "plm4"},
     flattening : {FALSE}, nGrowF : 0..2, boundary : {"none", "low", "high"},
     model : {"none"}, testFilter : {0}]

Les ==
    [term : {"les"}, dims : {3}, mol : BOOLEAN, eb : {"none"}, trace : {"plm4"},
     flattening : {FALSE}, nGrowF : 0..2, boundary : {"none"},
     model : {"Smagorinsky", "DynamicSmagorinsky", "WALE", "Vreman"}, testFilter : 0..2]

Derived ==
    [term : {"derive"}, dims : {2, 3}, mol : {FALSE}, eb : {"none", "FluxRedist"},
     covered : BOOLEAN,
     name : tagNames \union {"vfrac"}, ngrow : 0..2]
    \union [term : {"derive"}, dims : {3}, mol : {FALSE}, eb : {"none"},
            covered : {FALSE}, name : coefficientNames, ngrow : 0..1]

Tagged ==
    [term : {"tag"}, dims : {2, 3}, mol : {FALSE}, eb : {"none", "FluxRedist"},
     covered : BOOLEAN,
     name : tagNames, ngrow : 0..1]

\* Schemes that embedded boundaries have.
Allowed(c) == c.term = "hydro" /\ c.eb # "none" => c.trace \in {"plm1", "plm2", "plm4"}

AllOptions == {c \in Hydro \union Diffusion \union Les : Allowed(c)}

\* What the ghost cells are enough for. The exceptions are cases in which the
\* results do depend on where tiles or grids end, except the last, in which the
\* saved and the combined flux cancel near a wall and the boxes do not show it.
Sufficient(c) ==
    /\ c.trace # "weno7"
    /\ c.eb # "none" => c.boundary = "none"
    /\ c.term = "hydro" /\ c.eb # "none" => c.dims = 3 /\ ~c.flattening
    /\ c.term = "diffusion" => c.eb # "StateRedist"
    /\ c.term = "diffusion" /\ c.mol /\ c.eb # "none" => c.nGrowF <= 1
    /\ c.term = "les" => c.nGrowF = 0
    /\ c.term = "diffusion" /\ c.mol /\ c.nGrowF > 0 => c.boundary = "none"

\* Volume fractions are derived without their ghost cells.
SufficientOptions ==
    {c \in AllOptions : Sufficient(c)}
    \union {c \in Derived \union Tagged :
              /\ c.covered => c.eb # "none"
              /\ c.name = "vfrac" => c.ngrow = 0}
=============================================================================

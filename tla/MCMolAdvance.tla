--------------------------- MODULE MCMolAdvance ---------------------------
(* MolAdvance for TLC: the settings for which refluxing matches.           *)
EXTENDS MolAdvance

AllConfigs ==
  [mol_iters : 1 .. 3, do_react : BOOLEAN, flux : BOOLEAN, les : BOOLEAN,
   ext : BOOLEAN]

\* No LES, and corrective sweeps only with reactions.
MatchedConfigs ==
  {c \in AllConfigs : ~ c.les /\ (c.mol_iters > 1 => c.do_react)}
=============================================================================

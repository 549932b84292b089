--------------------------- MODULE MCSdcAdvance ---------------------------
(* SdcAdvance for TLC: every setting, up to three SDC iterations.          *)
EXTENDS SdcAdvance

AllConfigs ==
  [sdc_iters : 1 .. 3, do_react : BOOLEAN, do_hydro : BOOLEAN, flux : BOOLEAN,
   les : BOOLEAN, ext : BOOLEAN]
=============================================================================

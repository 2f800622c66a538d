--------------------------- MODULE MCGaugeIngest ---------------------------
(***************************************************************************)
(* Two gauges, one of them in feet; pages of two rows out of three.        *)
(***************************************************************************)
EXTENDS GaugeIngest
=============================================================================

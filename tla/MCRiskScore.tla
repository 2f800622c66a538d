---------------------------- MODULE MCRiskScore ----------------------------
(***************************************************************************)
(* Inputs for RiskScore: a gauge with all its levels next door and at the  *)
(* search radius, gauges that publish some of them, or zeroes, or in a     *)
(* wrong order, and one in the middle of the cell.                         *)
(***************************************************************************)
EXTENDS RiskScore

Gauge(km, alert, minor, major) == [km |-> km, alert |-> alert, minor |-> minor, major |-> major]

MCStations ==
  {Gauge(5, 400, 500, 700), Gauge(25, 400, 500, 700), Gauge(0, 400, 500, 700),
   Gauge(5, 400, None, None), Gauge(5, 400, None, 430), Gauge(25, 400, 0, 0),
   Gauge(5, None, 500, 700), Gauge(25, 500, 400, 400)}

MCRises == {-20, 40, 120}
=============================================================================

----------------------------- MODULE MCScaleCtl -----------------------------
(* Instances of ScaleCtl for TLC.                                          *)
EXTENDS ScaleCtl, TLC

CONSTANTS h1, h2, d1, d2, m1

TwoHosts == <<h1, h2>>
OneEach == (h1 :> <<d1>>) @@ (h2 :> <<d2>>)
Monitors == (h1 :> m1) @@ (h2 :> None)
=============================================================================

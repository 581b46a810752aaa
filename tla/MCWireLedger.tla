---------------------------- MODULE MCWireLedger ----------------------------
(* Two exporters: d1 sends small datagrams on the tick, d2 larger ones later. *)
EXTENDS WireLedger, TLC

CONSTANTS d1, d2

MCDevices == {d1, d2}
MCBurst == (d1 :> 1) @@ (d2 :> 2)
MCOffset == (d1 :> 0) @@ (d2 :> 1)
=============================================================================

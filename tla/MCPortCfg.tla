----------------------------- MODULE MCPortCfg ------------------------------
(* An instance of PortCfg for TLC. *)
EXTENDS PortCfg, TLC

(* Six different bytes, and the highest ones. *)
MCAddrs == {<<2, 17, 34, 51, 68, 85>>, <<254, 255, 255, 255, 255, 255>>}

CONSTANTS o1, o2, o3

(* Overlays without operations that are not looked for, and without one that *)
(* is.  The first does well on a port that is not a Synopsys GMAC, but for   *)
(* flows that are steered when it comes in.                                  *)
MCOverlays == {o1, o2, o3}
MCLacks == (o1 :> {"get_stats", "rx_flow_steer"}) @@ (o2 :> {"init"}) @@ (o3 :> {"mac_addr"})

MCCapabilities == {{100, 2500, 5000}}

MCEeeRequests ==
  {{"100baseT_Full", "2500baseX_Full"}, {"1000baseT_Full"}}

=============================================================================

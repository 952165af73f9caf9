-------------------------- MODULE MCSafetySentinel --------------------------
(* Instances of node, sentinel and dead-man timer for TLC. The cfgs count    *)
(* in ticks: seconds for the shipped values of SentinelMargin.cfg, the       *)
(* smallest values with the same inequalities elsewhere. One order identity  *)
(* is used again and again; runs about the timer alone have none.            *)
EXTENDS SafetySentinel
=============================================================================

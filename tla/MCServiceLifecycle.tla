------------------------- MODULE MCServiceLifecycle -------------------------
(***************************************************************************)
(* ServiceLifecycle with the two detectors that have a timer: one probes   *)
(* if told to, and is like arp_spoof and ipv6_rogue_ra otherwise, one      *)
(* always does.  Two stop requests: the second meets what the first left.  *)
(***************************************************************************)
EXTENDS ServiceLifecycle

MCRegistered == <<"rogue_dhcp", "name_resolution_canary">>
MCProbers == {"rogue_dhcp", "name_resolution_canary"}
=============================================================================

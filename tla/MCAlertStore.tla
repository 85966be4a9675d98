---------------------------- MODULE MCAlertStore ----------------------------
(***************************************************************************)
(* AlertStore on two sources and four alerts, over any number of restarts: *)
(* a row can be stored, repeated, left uncommitted, and made durable or    *)
(* lost by what comes next.                                                *)
(***************************************************************************)
EXTENDS AlertStore, TLC

CONSTANTS router, host

MCKeys == {router, host}
MCKeySeverities == (router :> {"medium", "high"}) @@ (host :> {"high"})
MCIds == 1..4
MCTimes == 0..1
=============================================================================

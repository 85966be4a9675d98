--------------------------- MODULE MCAlertDeduper ---------------------------
(***************************************************************************)
(* AlertDeduper on two sources, one of which repeats at two severities,    *)
(* and four alerts: enough for a window to open, hold a repeat of each     *)
(* key, elapse, and open again while the clock steps either way and the    *)
(* window is changed under it.  A window of 0 suppresses only what the     *)
(* clock stamps before the opening.                                        *)
(***************************************************************************)
EXTENDS AlertDeduper, TLC

CONSTANTS router, host

MCKeys == {router, host}
MCKeySeverities == (router :> {"medium", "high"}) @@ (host :> {"high"})
MCIds == 1..4
MCTimes == 0..2
MCWindows == {0, 2}
=============================================================================

-------------------------- MODULE MCAlertPipeline ---------------------------
(***************************************************************************)
(* AlertPipeline with a rogue router that repeats at two severities and a  *)
(* host that repeats at one.  Three alerts let the queue hold alerts at    *)
(* every stage of an earlier one, and let a key pass, repeat and pass      *)
(* again; the window, min_severity and the clock take two values each.     *)
(***************************************************************************)
EXTENDS AlertPipeline, TLC

CONSTANTS router, host

MCKeys == {router, host}
MCKeysSeverities == (router :> {"medium", "high"}) @@ (host :> {"high"})
MCOneKey == {router}
MCOneKeySeverities == router :> {"medium", "high"}
MCTwoIds == 1..2
MCIds == 1..3
MCTimes == 0..1
MCWindows == {0, 1}
MCOneWindow == {1}
MCMinSeverities == {"medium", "high"}
MCOnlyHigh == {"high"}
MCChannels == {"dashboard", "smtp"}
MCFaults == {"store", "smtp"}
=============================================================================

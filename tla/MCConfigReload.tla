--------------------------- MODULE MCConfigReload ---------------------------
(***************************************************************************)
(* ConfigReload for two workers: two requests that overlap show every      *)
(* interleaving of two file edits and two reloads, a third one what        *)
(* happens on top of the file they leave.                                  *)
(***************************************************************************)
EXTENDS ConfigReload, TLC

CONSTANTS alice, bob, hostA, hostB, mild, strict, bogus

MCTwoWorkers == {alice, bob}
MCSources == {hostA, hostB}
MCGood == {mild, strict}
MCBad == {bogus}
MCKinds == {"add", "remove", "save"}
=============================================================================

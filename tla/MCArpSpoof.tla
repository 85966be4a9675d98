----------------------------- MODULE MCArpSpoof -----------------------------
(***************************************************************************)
(* ArpSpoof with two addresses, so that a reload can move the watch, and   *)
(* two MACs that both claim them.  Two claims give a learned baseline and  *)
(* its contradiction, and with a pinned MAC a contradiction and what the   *)
(* detector makes of the next claim.  Route tables of up to MCRoutes       *)
(* routes, with a metric of zero and with ties.                            *)
(***************************************************************************)
EXTENDS ArpSpoof, TLC

CONSTANTS a1, a2, m1, m2, MCRoutes

MCAddresses == {a1, a2}
MCMacs == {m1, m2}
MCMetrics == {0, 1}
MCTables(n) ==
    [1..n -> [ default : BOOLEAN, here : BOOLEAN,
               gateway : MCAddresses \cup {Unset}, metric : MCMetrics ]]
MCRouteTables == UNION {MCTables(n) : n \in 0..MCRoutes}
Interchangeable == Permutations(MCAddresses) \cup Permutations(MCMacs)
=============================================================================

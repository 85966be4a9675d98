---------------------------- MODULE MCNameCanary ----------------------------
(***************************************************************************)
(* NameCanary with two processes on one state file, three seeds (the two   *)
(* of a race or a failed read and another sensor's), one name each, and    *)
(* one prefix of each kind.  What the 15 characters leave of a name is the *)
(* same for two of the seeds and not for the third; a long prefix leaves   *)
(* nothing.                                                                *)
(***************************************************************************)
EXTENDS NameCanary, TLC

CONSTANTS service, console, s1, s2, s3

MCProcesses == {service, console}
MCSeeds == {s1, s2, s3}
MCPrefixes == {"ph", "ph-canary", "poisonhound-canary", "ph.lab"}
MCCutPrefixes == {"ph-canary", "poisonhound-canary", "ph.lab"}
MCDottedPrefixes == {"ph.lab"}

Some == (<<s1, 0>> :> <<"3f">>) @@ (<<s2, 0>> :> <<"3f">>) @@ (<<s3, 0>> :> <<"a1">>)
None == [h \in MCSeeds \X {0} |-> <<"">>]

MCDigits == {<<"">>, <<"3f">>, <<"a1">>}
MCFirstDigits ==
    [q \in MCCutPrefixes |-> IF q = "poisonhound-canary" THEN None ELSE Some]

Interchangeable == Permutations(MCProcesses) \cup Permutations({s1, s2})
=============================================================================

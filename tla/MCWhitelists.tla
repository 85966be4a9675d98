---------------------------- MODULE MCWhitelists ----------------------------
(***************************************************************************)
(* Whitelists with two DHCP servers, one of them also known by its MAC,    *)
(* and one host that is both router and DHCPv6 server, whose address can   *)
(* be typed in either case.  Two entries typed into a list, with equal     *)
(* ones among them, and what one click adds to these.                      *)
(***************************************************************************)
EXTENDS Whitelists, TLC

CONSTANTS ipA, ipB, macA, macB, macAUpper, link, linkUpper, macR

MCTexts == {ipA, ipB, macA, macB, macAUpper, link, linkUpper, macR}
MCLower ==
    [x \in MCTexts |->
        CASE x = macAUpper -> macA [] x = linkUpper -> link [] OTHER -> x]
MCSources ==
    { [kind |-> "dhcp", ip |-> ipA, mac |-> macA],
      [kind |-> "dhcp", ip |-> ipB, mac |-> macB],
      [kind |-> "ra", ip |-> link, mac |-> macR],
      [kind |-> "dhcpv6", ip |-> link, mac |-> macR] }
MCTyped ==
    [ dhcp |-> {ipA, ipB, macAUpper}, ra |-> {link, linkUpper},
      dhcpv6 |-> {link, linkUpper} ]
=============================================================================

------------------- MODULE MC_SecurityGroupSynthesizer -------------------
(***************************************************************************)
(* A Service with ports 443 (target 2) and 80 (target 1) over TCP and 53   *)
(* over UDP, whose listener the provider rejected; one policy group whose *)
(* rules are drawn from an allow-from-c1 rule on the 80 target, an         *)
(* allow-from-anywhere rule on the 443 target, an allow-from-c2 rule on   *)
(* every port and an egress rule.                                          *)
(***************************************************************************)
EXTENDS SecurityGroupSynthesizer

CONSTANTS c1, c2, np1

L443 == [proto |-> "TCP", port |-> 443, target |-> 2]
L80 == [proto |-> "TCP", port |-> 80, target |-> 1]
L53 == [proto |-> "UDP", port |-> 53, target |-> 3]

MCSvcPorts == <<L443, L80, L53>>
MCListeners == {L443, L80}

MCNpRuleSet ==
    { [dir |-> "ingress", proto |-> "TCP", lo |-> 1, hi |-> 1, cidr |-> c1],
      [dir |-> "ingress", proto |-> "TCP", lo |-> 2, hi |-> 2, cidr |-> None],
      [dir |-> "ingress", proto |-> "TCP", lo |-> 0, hi |-> 0, cidr |-> c2],
      [dir |-> "egress",  proto |-> "TCP", lo |-> 0, hi |-> 0, cidr |-> c1] }

MCSgLists == {<<np1>>, <<DefaultSg>>, <<np1, DefaultSg>>, <<np1, LbSgId>>}
==========================================================================

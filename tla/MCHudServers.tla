---------------------------- MODULE MCHudServers ----------------------------
(* Instances of HudServers for TLC.                                        *)
EXTENDS HudServers

CONSTANTS e1, e2, e3, a1, a2, l1

Three == {e1, e2, e3}
\* The first two entries name one server.
Twice == [e \in Three |-> IF e = e3 THEN a2 ELSE a1]
LanOne == {l1}
\* Host names in the order of the addresses.
InOrder == [a \in {a1, a2, l1} |-> CASE a = a1 -> 1 [] a = a2 -> 2 [] a = l1 -> 3]

=============================================================================

--------------------------- MODULE MCGroupManager ---------------------------
(* The group manager with two groups of one actor each. *)
EXTENDS GroupManager

CONSTANTS g1, g2, a1, a2

MCGroupOrder == <<g1, g2>>
MCGroupOf == [a \in {a1, a2} |-> IF a = a1 THEN g1 ELSE g2]

MCMaxMsg == [g \in {g1, g2} |-> IF g = g1 THEN 2 ELSE 1]
=============================================================================

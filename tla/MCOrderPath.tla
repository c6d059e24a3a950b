---------------------------- MODULE MCOrderPath ----------------------------
(* Small instances of the order path for TLC. *)
EXTENDS OrderPath

CONSTANTS b1, b2        \* lights

BuyBuy == [l \in Light |-> "BUY"]
BuySell == [l \in Light |-> IF l = b1 THEN "BUY" ELSE "SEL"]
NoLimit == -1
=============================================================================

----------------------------- MODULE MCRegistry -----------------------------
(* Small instances of the actor registry for TLC. *)
EXTENDS Registry

CONSTANTS m1, m2, a1

\* the manager that looks actors up is not restarted, the other one is
MCMaxStart == [m \in {m1, m2} |-> IF m = m1 THEN 2 ELSE 1]
MCMaxStray == [m \in {m1, m2} |-> IF m = m1 THEN 0 ELSE 2]
MCAsks == [m \in {m1, m2} |-> IF m = m2 THEN {<<m1, a1>>, <<NoManager, a1>>} ELSE {}]
MCLists == [m \in {m1, m2} |-> IF m = m2 THEN {{a1}} ELSE {{}, {a1}}]
=============================================================================

--------------------------- MODULE FifoPermission ---------------------------
(***************************************************************************)
(* What the group manager promises: permissions are given one at a time,   *)
(* in the order in which they were announced.  An actor enters the queue   *)
(* with a token, its turn comes when it is the oldest and nobody holds the *)
(* permission, and it leaves when it is done.  The tokens and the          *)
(* permission of actors whose group is gone are withdrawn.                 *)
(***************************************************************************)
EXTENDS Integers, Sequences

CONSTANTS Actor, Group, GroupOf, None

VARIABLES queue, holder

\* the sequence q of actors without those of the groups in S
Without(q, S) ==
    LET kept[i \in 0..Len(q)] ==
            IF i = 0 THEN <<>>
            ELSE IF GroupOf[q[i]] \in S THEN kept[i - 1]
            ELSE Append(kept[i - 1], q[i])
    IN  kept[Len(q)]

Init == queue = <<>> /\ holder = None

\* the lock is left with queue q and holder h, or the head of q gets its turn
Then(q, h) ==
    \/ queue' = q /\ holder' = h
    \/ h = None /\ q # <<>> /\ holder' = Head(q) /\ queue' = Tail(q)

Enter(a) == Then(Append(queue, a), holder)

Turn == Then(queue, holder)

Leave == Then(queue, None)

Withdraw(S) ==
    Then(Without(queue, S),
         IF holder # None /\ GroupOf[holder] \in S THEN None ELSE holder)

Next ==
    \/ \E a \in Actor : Enter(a)
    \/ Turn
    \/ Leave
    \/ \E S \in SUBSET Group : Withdraw(S)

Spec == Init /\ [][Next]_<<queue, holder>>
=============================================================================

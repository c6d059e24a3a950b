------------------------ MODULE MCRecoveryProcessor ------------------------
(* Small instances of the snapshot and definition feeds for TLC. *)
EXTENDS RecoveryProcessor

MCBook == {"a", "b"}
MCChunks == [x \in MCBook |-> IF x = "a" THEN 1 ELSE 2]
Ch(x, i) == [book |-> x, chunk |-> i]
BothBooks == <<Ch("a", 1), Ch("b", 1), Ch("b", 2)>>

\* A book that is listed from the second cycle on.
MCLayout == << <<Ch("b", 1), Ch("b", 2)>>, BothBooks >>
\* Later cycles carry later snapshots.
MCLastSeq == [c \in 1..2 |-> [x \in MCBook |-> IF x = "a" THEN 2 * c - 1 ELSE 2 * c]]
MCDefs == <<{"a"}, {}, {"b"}>>
=============================================================================

------------------------------- MODULE Mailbox -------------------------------
(***************************************************************************)
(* What every order-preserving mailbox of the actor framework promises     *)
(* (the pure virtual push/pop of actors/Queue.hpp): the consumer receives  *)
(* exactly the messages that were pushed, each once, in the order in which *)
(* the pushes took effect.                                                 *)
(*                                                                         *)
(* Both variables are histories: `sent' lists every message accepted so    *)
(* far, `rcvd' every message handed to the consumer.                       *)
(***************************************************************************)
EXTENDS Naturals, Sequences

CONSTANT Message

VARIABLES sent, rcvd

mboxVars == <<sent, rcvd>>

Init ==
    /\ sent = <<>>
    /\ rcvd = <<>>

Push(m) ==
    /\ sent' = Append(sent, m)
    /\ UNCHANGED rcvd

Pop ==
    /\ Len(rcvd) < Len(sent)
    /\ rcvd' = Append(rcvd, sent[Len(rcvd) + 1])
    /\ UNCHANGED sent

Next == Pop \/ \E m \in Message : Push(m)

Spec == Init /\ [][Next]_mboxVars

==============================================================================

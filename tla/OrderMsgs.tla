------------------------------ MODULE OrderMsgs ------------------------------
(***************************************************************************)
(* What the actors of the order path share: the messages between the       *)
(* lights, the SOM and the order book, and the three mailboxes they travel *)
(* through.  A mailbox is first in first out; a light calls the SOM        *)
(* directly (fast_send), so nothing is queued in that direction.           *)
(*                                                                         *)
(* One instrument and one trader.  Prices are left out: a light has at     *)
(* most one order, so its price never decides what happens to it.          *)
(***************************************************************************)
EXTENDS Integers, Sequences, FiniteSets

CONSTANTS
    Light,          \* the lights
    Side,           \* the side each light trades
    MaxId,          \* bound: ids the SOM gives out
    MaxSize         \* bound: size of an order

ASSUME OrderAssumption ==
    /\ IsFiniteSet(Light)
    /\ Side \in [Light -> {"BUY", "SEL"}]
    /\ MaxId \in Nat /\ MaxSize \in Nat

VARIABLES
    obIn,           \* SOM -> OB: sim orders and their cancels
    somIn,          \* OB -> SOM: fills, cancel acks and rejects
    clientIn,       \* SOM -> each light
    aborted         \* "no", or the actor whose assertion ended the process

mailVars == <<obIn, somIn, clientIn>>

Id == 1..MaxId
Size == 1..MaxSize
Sign(l) == IF Side[l] = "BUY" THEN 1 ELSE -1

\* SOM -> OB.  A timed message carries the market time it was sent at (ts0).
AddOrder(id, sz) == [type |-> "ADD", id |-> id, sz |-> sz, timed |-> TRUE]
CancelOrder(id, timed) == [type |-> "CANC", id |-> id, sz |-> 0, timed |-> timed]

\* OB -> SOM -> light
Fill(id, sz, stbf) == [type |-> "FILL", id |-> id, sz |-> sz, stbf |-> stbf]
CancAck(id) == [type |-> "CANCACK", id |-> id]
CancReject(id, reason) == [type |-> "CANCREJ", id |-> id, reason |-> reason]
Reject(id) == [type |-> "REJECT", id |-> id]

ObMsg == [type : {"ADD", "CANC"}, id : Id, sz : 0..MaxSize, timed : BOOLEAN]
Report ==
    [type : {"FILL"}, id : Id, sz : Size, stbf : 0..MaxSize]
      \cup [type : {"CANCACK"}, id : Id]
      \cup [type : {"CANCREJ"}, id : Id, reason : {"NOTFOUND", "FILLEDALREADY"}]
Rejection == [type : {"REJECT"}, id : Id]

MailInit ==
    /\ obIn = <<>>
    /\ somIn = <<>>
    /\ clientIn = [l \in Light |-> <<>>]
    /\ aborted = "no"

MailTypeOK ==
    /\ obIn \in Seq(ObMsg)
    /\ somIn \in Seq(Report)
    /\ clientIn \in [Light -> Seq(Report \cup Rejection)]
    /\ aborted \in {"no", "OB", "light", "QCoord"}
=============================================================================

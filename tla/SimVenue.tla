------------------------------ MODULE SimVenue ------------------------------
(***************************************************************************)
(* The side of frame::ob::act::OB that simulates the exchange for the      *)
(* SOM's orders.  An order or cancel waits in del_q until a market data    *)
(* record shows that its wire latency has passed; what the book answers    *)
(* waits in pub_q, when feed_delay is set, until a later record shows that *)
(* the feed latency has passed.                                            *)
(*                                                                         *)
(* The records are the market's, so which of them lets a queue's head go,  *)
(* and which of our orders one fills, is left open.  A step is what one    *)
(* record does to one queue or one order; the queues are first in first    *)
(* out and the mailbox is read between records, so nothing comes between   *)
(* the steps of a record that could not come between two records.          *)
(***************************************************************************)
EXTENDS OrderMsgs

CONSTANT FeedDelay      \* feed_delay > 0
ASSUME FeedDelayAssumption == FeedDelay \in BOOLEAN

VARIABLES
    del_q,          \* orders and cancels on the wire
    pub_q,          \* answers on the feed
    resting,        \* id -> size left, for our orders in the book
    clearing,       \* the lights OB::clear has still to tell
    inClear         \* OB::clear is under way

venueVars == <<del_q, pub_q, resting, clearing, inClear>>

VenueInit ==
    /\ del_q = <<>>
    /\ pub_q = <<>>
    /\ resting = [id \in {} |-> 0]
    /\ clearing = {}
    /\ inClear = FALSE

\* publish_delayed
Publish(reports) ==
    IF FeedDelay
    THEN pub_q' = pub_q \o reports /\ UNCHANGED somIn
    ELSE somIn' = somIn \o reports /\ UNCHANGED pub_q

Remove(id) == [i \in DOMAIN resting \ {id} |-> resting[i]]

\* add: an order that reaches the other side's best fills at once.
FillOnArrival(m) ==
    /\ Publish(<<Fill(m.id, m.sz, 0)>>)
    /\ UNCHANGED resting

RestInBook(m) ==
    /\ resting' = [i \in DOMAIN resting \cup {m.id} |-> IF i = m.id THEN m.sz ELSE resting[i]]
    /\ UNCHANGED <<pub_q, somIn>>

\* Mutants: the ack does not wait for the answers before it; or is forgotten.
CancelRestingInline(m) ==
    /\ m.id \in DOMAIN resting
    /\ somIn' = Append(somIn, CancAck(m.id))
    /\ resting' = Remove(m.id)
    /\ UNCHANGED pub_q

CancelRestingSilent(m) ==
    /\ m.id \in DOMAIN resting
    /\ resting' = Remove(m.id)
    /\ UNCHANGED <<pub_q, somIn>>

\* mod with CANCD, do_canc
CancelResting(m) ==
    /\ m.id \in DOMAIN resting
    /\ Publish(<<CancAck(m.id)>>)
    /\ resting' = Remove(m.id)

\* Mutant: the reject overtakes the answers on the feed, as it once did.
CancelNotFoundInline(m) ==
    /\ m.id \notin DOMAIN resting
    /\ somIn' = Append(somIn, CancReject(m.id, "NOTFOUND"))
    /\ UNCHANGED <<resting, pub_q>>

\* mod_order_that_is_not_found
CancelNotFound(m) ==
    /\ m.id \notin DOMAIN resting
    /\ Publish(<<CancReject(m.id, "NOTFOUND")>>)
    /\ UNCHANGED resting

process_add_or_mod(m) ==
    \/ m.type = "ADD" /\ FillOnArrival(m)
    \/ m.type = "ADD" /\ RestInBook(m)
    \/ m.type = "CANC" /\ CancelResting(m)
    \/ m.type = "CANC" /\ CancelNotFound(m)

-----------------------------------------------------------------------------

\* data_handler for a message of the SOM: a timed one goes on the wire; an
\* untimed one is applied at once, and asserts that nothing is on the wire.
ObData ==
    LET m == Head(obIn) IN
    /\ obIn # <<>> /\ ~ inClear
    /\ obIn' = Tail(obIn)
    /\ \/ /\ m.timed
          /\ del_q' = Append(del_q, m)
          /\ UNCHANGED <<pub_q, somIn, resting, aborted>>
       \/ /\ ~ m.timed /\ del_q = <<>>
          /\ process_add_or_mod(m)
          /\ UNCHANGED <<del_q, aborted>>
       \/ /\ ~ m.timed /\ del_q # <<>>
          /\ aborted' = "OB"
          /\ UNCHANGED <<del_q, pub_q, somIn, resting>>
    /\ UNCHANGED <<clearing, inClear, clientIn>>

\* process_q: a record later than the arrival time of the head of del_q.
ReleaseOrder ==
    /\ del_q # <<>> /\ ~ inClear
    /\ process_add_or_mod(Head(del_q))
    /\ del_q' = Tail(del_q)
    /\ UNCHANGED <<clearing, inClear, obIn, clientIn, aborted>>

\* drain_pub_q
DrainPubQ ==
    /\ pub_q # <<>> /\ ~ inClear
    /\ somIn' = Append(somIn, Head(pub_q))
    /\ pub_q' = Tail(pub_q)
    /\ UNCHANGED <<del_q, resting, clearing, inClear, obIn, clientIn, aborted>>

\* fill: a trade or a crossing order of the market fills n of a resting order.
MarketFill(id, n) ==
    /\ id \in DOMAIN resting /\ ~ inClear
    /\ n \in 1..resting[id]
    /\ Publish(<<Fill(id, n, resting[id] - n)>>)
    /\ resting' = IF n = resting[id] THEN Remove(id) ELSE [resting EXCEPT ![id] = @ - n]
    /\ UNCHANGED <<del_q, clearing, inClear, obIn, clientIn, aborted>>

\* clear: the lights are told first, each by a direct call (see OrderPath),
\* then our resting orders are cancelled level by level.
ClearBegin ==
    /\ ~ inClear
    /\ inClear' = TRUE
    /\ clearing' = Light
    /\ UNCHANGED <<del_q, pub_q, resting, mailVars, aborted>>

ClearBook ==
    /\ inClear /\ clearing = {}
    /\ inClear' = FALSE
    /\ \E q \in [1..Cardinality(DOMAIN resting) -> DOMAIN resting] :
          /\ \A i, j \in DOMAIN q : q[i] = q[j] => i = j
          /\ Publish([i \in DOMAIN q |-> CancAck(q[i])])
    /\ resting' = [id \in {} |-> 0]
    /\ UNCHANGED <<del_q, clearing, obIn, clientIn, aborted>>

VenueTypeOK ==
    /\ del_q \in Seq(ObMsg)
    /\ pub_q \in Seq(Report)
    /\ DOMAIN resting \subseteq Id
    /\ \A id \in DOMAIN resting : resting[id] \in Size
    /\ clearing \subseteq Light
    /\ inClear \in BOOLEAN
=============================================================================

----------------------------- MODULE LightOrders -----------------------------
(***************************************************************************)
(* The order handling of a light (light22_base): the slot that holds its   *)
(* one order, the cancels it has asked for, its entry in the QCoord that   *)
(* the lights of a side share, and the PCoord all of them add fills to.    *)
(*                                                                         *)
(* When a light places or cancels is its strategy's business and left      *)
(* open.  Each handler runs under the light's own fast_send mutex and      *)
(* calls the SOM directly, so the two act in one step.                     *)
(***************************************************************************)
EXTENDS SOM

VARIABLES
    slot,               \* ord_info; id 0: no value
    cancel_requests,    \* ids of the cancels asked for
    qentry,             \* px_mmid_ord: the light's entry; id 0: none
    pcoord              \* PCoord's position

lightVars == <<slot, cancel_requests, qentry, pcoord>>

Empty == [id |-> 0, canc |-> FALSE]
NoEntry == [id |-> 0, sz |-> 0]
BadEntry == [id |-> -1, sz |-> 0]      \* an assertion of QCoord has failed

LightInit ==
    /\ slot = [l \in Light |-> Empty]
    /\ cancel_requests = [l \in Light |-> {}]
    /\ qentry = [l \in Light |-> NoEntry]
    /\ pcoord = 0

\* QCoord::add_order: "already have this mm id"
add_order(l, id, sz) ==
    IF qentry[l] = NoEntry THEN [id |-> id, sz |-> sz] ELSE BadEntry

\* QCoord::remove_order; a light without an entry is left alone.
remove_order(l, sz, all) ==
    IF qentry[l] = NoEntry THEN NoEntry
    ELSE IF qentry[l].id # slot[l].id \/ sz > qentry[l].sz THEN BadEntry
    ELSE IF all \/ sz = qentry[l].sz THEN NoEntry
    ELSE [qentry[l] EXCEPT !.sz = @ - sz]

SetEntry(l, e) ==
    /\ qentry' = [qentry EXCEPT ![l] = e]
    /\ aborted' = IF e = BadEntry THEN "QCoord" ELSE aborted

\* The process ends, whatever else the handler was about to do.
Abort(who) ==
    /\ aborted' = who
    /\ UNCHANGED <<slot, qentry, pcoord, cancel_requests>>

ClearSlot(l) == slot' = [slot EXCEPT ![l] = Empty]

-----------------------------------------------------------------------------
place_order(l, sz) ==
    /\ slot[l] = Empty
    /\ curr_id \in Id
    /\ order_handler(l, sz)
    /\ slot' = [slot EXCEPT ![l] = [id |-> curr_id, canc |-> FALSE]]
    /\ SetEntry(l, add_order(l, curr_id, sz))
    /\ UNCHANGED <<cancel_requests, pcoord>>

cancel_order(l) ==
    /\ slot[l] # Empty /\ ~ slot[l].canc
    /\ canc_handler(slot[l].id, TRUE)
    /\ cancel_requests' = [cancel_requests EXCEPT ![l] = @ \cup {slot[l].id}]
    /\ slot' = [slot EXCEPT ![l].canc = TRUE]
    /\ SetEntry(l, remove_order(l, 0, TRUE))
    /\ UNCHANGED pcoord

\* clear_handler, called by the book: nothing to do without a live order.
clear_handler(l) ==
    \/ cancel_order(l)
    \/ /\ slot[l] = Empty \/ slot[l].canc
       /\ UNCHANGED <<lightVars, somVars, mailVars, aborted>>

-----------------------------------------------------------------------------
(* The reports of the SOM. *)

Receive(l, type) ==
    /\ clientIn[l] # <<>>
    /\ Head(clientIn[l]).type = type
    /\ clientIn' = [clientIn EXCEPT ![l] = Tail(@)]
    /\ UNCHANGED <<somVars, obIn, somIn>>

\* A fill that completes an order empties the slot, whichever order it holds.
som_fill_handler(l) ==
    LET m == Head(clientIn[l]) IN
    /\ Receive(l, "FILL")
    /\ pcoord' = pcoord + Sign(l) * m.sz
    /\ SetEntry(l, IF slot[l].id = m.id /\ ~ slot[l].canc
                   THEN remove_order(l, m.sz, FALSE) ELSE qentry[l])
    /\ IF m.stbf = 0 THEN ClearSlot(l) ELSE UNCHANGED slot
    /\ UNCHANGED cancel_requests

\* An ack of a cancel that was not asked for takes the order out of QCoord.
som_canc_ack_handler(l) ==
    LET m == Head(clientIn[l]) IN
    /\ Receive(l, "CANCACK")
    /\ IF slot[l] = Empty
       THEN Abort("light")
       ELSE /\ cancel_requests' = [cancel_requests EXCEPT ![l] = @ \ {m.id}]
            /\ SetEntry(l, IF m.id \in cancel_requests[l]
                           THEN qentry[l] ELSE remove_order(l, 0, TRUE))
            /\ IF slot[l].id = m.id THEN ClearSlot(l) ELSE UNCHANGED slot
            /\ UNCHANGED pcoord

\* FILLEDALREADY is only logged; NOTFOUND reads the slot's id, which asserts
\* that there is one.
som_cancrej_handler(l) ==
    LET m == Head(clientIn[l]) IN
    /\ Receive(l, "CANCREJ")
    /\ IF m.reason = "NOTFOUND" /\ slot[l] = Empty
       THEN Abort("light")
       ELSE /\ IF m.reason = "NOTFOUND" /\ slot[l].id = m.id
               THEN ClearSlot(l) ELSE UNCHANGED slot
            /\ UNCHANGED <<cancel_requests, qentry, pcoord, aborted>>

\* The slot is emptied without a look at the id.
som_reject_handler(l) ==
    /\ Receive(l, "REJECT")
    /\ SetEntry(l, IF slot[l] = Empty THEN qentry[l] ELSE remove_order(l, 0, TRUE))
    /\ ClearSlot(l)
    /\ UNCHANGED <<cancel_requests, pcoord>>

LightReport(l) ==
    \/ som_fill_handler(l)
    \/ som_canc_ack_handler(l)
    \/ som_cancrej_handler(l)
    \/ som_reject_handler(l)

LightTypeOK ==
    /\ slot \in [Light -> [id : 0..MaxId, canc : BOOLEAN]]
    /\ cancel_requests \in [Light -> SUBSET Id]
    /\ \A l \in Light : qentry[l] = BadEntry \/ qentry[l] \in [id : 0..MaxId, sz : 0..MaxSize]
    /\ pcoord \in Int
=============================================================================

--------------------------------- MODULE SOM ---------------------------------
(***************************************************************************)
(* frame::som::act::SOM in sim_mode, as kaspr and the simulator create it: *)
(* it checks an order against the limits, gives it an id, forwards it to   *)
(* the order book that simulates the exchange, and routes what comes back  *)
(* to the light that owns the order.                                       *)
(*                                                                         *)
(* Its handlers run under the actor's fast_send mutex, those of the lights'*)
(* calls on the light's own thread, so each is one step.  canced and rejed *)
(* are not modelled: the handlers that set them erase the order as well.   *)
(***************************************************************************)
EXTENDS OrderMsgs

CONSTANTS
    PosLimit,       \* pos_limit of the instrument; negative: not checked
    SizeLimit       \* size_limit; negative: not checked

ASSUME LimitAssumption == PosLimit \in Int /\ SizeLimit \in Int

VARIABLES
    orders,         \* id -> order, for the orders not erased
    curr_id,        \* the next id
    stopped,        \* trading is off
    pos             \* pos: net position of the trader

somVars == <<orders, curr_id, stopped, pos>>

Order == [client : Light, sz : Size, stbf : 0..MaxSize, filled : BOOLEAN]

SOMInit ==
    /\ orders = [id \in {} |-> 0]
    /\ curr_id = 1
    /\ stopped = FALSE
    /\ pos = 0

Known(id) == id \in DOMAIN orders
Working == {id \in DOMAIN orders : ~ orders[id].filled}

ToClient(l, m) == clientIn' = [clientIn EXCEPT ![l] = Append(@, m)]

Erase(id) == [i \in DOMAIN orders \ {id} |-> orders[i]]

-----------------------------------------------------------------------------
(* order_handler: a light sends an order of size sz.  The Ack it gets back *)
(* carries curr_id.                                                        *)

\* Mutant: the size of the new order is left out of the check.
OverLimitSizeIgnored(l, sz) ==
    \/ PosLimit >= 0 /\ Sign(l) * pos > PosLimit
    \/ SizeLimit >= 0 /\ sz > SizeLimit

\* Orders the limit check leaves out: the working ones.
OverLimit(l, sz) ==
    \/ /\ PosLimit >= 0
       /\ Sign(l) * pos + sz > PosLimit
    \/ SizeLimit >= 0 /\ sz > SizeLimit

\* Over the limit: acknowledged with the next id, which is then not used up.
order_handler_overlimit(l, sz) ==
    /\ OverLimit(l, sz)
    /\ ToClient(l, Reject(curr_id))
    /\ UNCHANGED <<somVars, obIn>>

Record(l, sz) ==
    /\ orders' = [id \in DOMAIN orders \cup {curr_id} |->
                    IF id = curr_id
                    THEN [client |-> l, sz |-> sz, stbf |-> sz, filled |-> FALSE]
                    ELSE orders[id]]
    /\ curr_id' = curr_id + 1

\* Trading is off: rejected, but the order stays in `orders'.
order_handler_stopped(l, sz) ==
    /\ ~ OverLimit(l, sz)
    /\ stopped
    /\ Record(l, sz)
    /\ ToClient(l, Reject(curr_id))
    /\ UNCHANGED <<stopped, pos, obIn>>

order_handler_forward(l, sz) ==
    /\ ~ OverLimit(l, sz)
    /\ ~ stopped
    /\ Record(l, sz)
    /\ obIn' = Append(obIn, AddOrder(curr_id, sz))
    /\ UNCHANGED <<stopped, pos, clientIn>>

order_handler(l, sz) ==
    /\ \/ order_handler_overlimit(l, sz)
       \/ order_handler_stopped(l, sz)
       \/ order_handler_forward(l, sz)
    /\ UNCHANGED somIn

-----------------------------------------------------------------------------
(* canc_handler, internal_reject and cancel_order: a cancel for an order   *)
(* that is not there is dropped, one for a filled order is rejected.       *)

canc_handler(id, timed) ==
    /\ \/ /\ ~ Known(id)
          /\ UNCHANGED <<obIn, clientIn>>
       \/ /\ id \in DOMAIN orders \ Working
          /\ ToClient(orders[id].client, CancReject(id, "FILLEDALREADY"))
          /\ UNCHANGED obIn
       \/ /\ id \in Working
          /\ obIn' = Append(obIn, CancelOrder(id, timed))
          /\ UNCHANGED clientIn
    /\ UNCHANGED <<somVars, somIn>>

\* Mutants: orders are no longer taken but the working ones are left alone; or
\* they are cancelled and forgotten at once.
StopTradingFlagOnly ==
    /\ stopped' = TRUE
    /\ UNCHANGED <<orders, curr_id, pos, mailVars>>

StopTradingForgets ==
    /\ stopped' = TRUE
    /\ \E q \in [1..Cardinality(Working) -> Working] :
          /\ \A i, j \in DOMAIN q : q[i] = q[j] => i = j
          /\ obIn' = obIn \o [i \in DOMAIN q |-> CancelOrder(q[i], FALSE)]
    /\ orders' = [id \in DOMAIN orders \ Working |-> orders[id]]
    /\ UNCHANGED <<curr_id, pos, somIn, clientIn>>

\* stop_trading_handler: every working order is cancelled, in the order the
\* hash map yields them, without a time.
StopTrading ==
    /\ stopped' = TRUE
    /\ \E q \in [1..Cardinality(Working) -> Working] :
          /\ \A i, j \in DOMAIN q : q[i] = q[j] => i = j
          /\ obIn' = obIn \o [i \in DOMAIN q |-> CancelOrder(q[i], FALSE)]
    /\ UNCHANGED <<orders, curr_id, pos, somIn, clientIn>>

StartTrading ==
    /\ stopped' = FALSE
    /\ UNCHANGED <<orders, curr_id, pos, mailVars>>

-----------------------------------------------------------------------------
(* What comes back from the book. *)

\* Mutant: the position moves by the order's size, not the fill's.
fill_handlerWhole ==
    LET m == Head(somIn) IN
    /\ somIn # <<>> /\ m.type = "FILL"
    /\ somIn' = Tail(somIn)
    /\ Known(m.id)
    /\ orders' = [orders EXCEPT ![m.id].filled = (m.stbf = 0) \/ @,
                                ![m.id].stbf = m.stbf]
    /\ pos' = pos + Sign(orders[m.id].client) * orders[m.id].sz
    /\ ToClient(orders[m.id].client, m)
    /\ UNCHANGED <<curr_id, stopped, obIn>>

\* fill_handler: a fill of an unknown order is dropped before the position.
fill_handler ==
    LET m == Head(somIn) IN
    /\ somIn # <<>> /\ m.type = "FILL"
    /\ somIn' = Tail(somIn)
    /\ \/ /\ ~ Known(m.id)
          /\ UNCHANGED <<orders, pos, clientIn>>
       \/ /\ Known(m.id)
          /\ orders' = [orders EXCEPT ![m.id].filled = (m.stbf = 0) \/ @,
                                      ![m.id].stbf = m.stbf]
          /\ pos' = pos + Sign(orders[m.id].client) * m.sz
          /\ ToClient(orders[m.id].client, m)
    /\ UNCHANGED <<curr_id, stopped, obIn>>

canc_ack_handler ==
    LET m == Head(somIn) IN
    /\ somIn # <<>> /\ m.type = "CANCACK"
    /\ somIn' = Tail(somIn)
    /\ \/ /\ ~ Known(m.id)
          /\ UNCHANGED <<orders, clientIn>>
       \/ /\ Known(m.id)
          /\ orders' = Erase(m.id)
          /\ ToClient(orders[m.id].client, m)
    /\ UNCHANGED <<curr_id, stopped, pos, obIn>>

canc_rej_handler ==
    LET m == Head(somIn) IN
    /\ somIn # <<>> /\ m.type = "CANCREJ"
    /\ somIn' = Tail(somIn)
    /\ \/ /\ ~ Known(m.id)
          /\ UNCHANGED clientIn
       \/ /\ Known(m.id)
          /\ ToClient(orders[m.id].client,
                      IF orders[m.id].filled THEN CancReject(m.id, "FILLEDALREADY") ELSE m)
    /\ UNCHANGED <<somVars, obIn>>

SOMReport == fill_handler \/ canc_ack_handler \/ canc_rej_handler

SOMTypeOK ==
    /\ DOMAIN orders \subseteq Id
    /\ \A id \in DOMAIN orders : orders[id] \in Order
    /\ curr_id \in 1..MaxId + 1
    /\ stopped \in BOOLEAN
    /\ pos \in Int
=============================================================================

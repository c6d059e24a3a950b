------------------------------ MODULE OrderPath ------------------------------
(***************************************************************************)
(* The order path of kaspr and the simulator: lights that place and cancel *)
(* orders, the SOM between them and the exchange, the order book that      *)
(* simulates it, and the console that stops and starts trading.  Every     *)
(* actor has a thread of its own; the process ends when an assertion of    *)
(* any of them fails.                                                      *)
(***************************************************************************)
EXTENDS LightOrders, SimVenue

CONSTANT MaxConsole     \* bound: commands typed at the console
ASSUME ConsoleAssumption == MaxConsole \in Nat

VARIABLE console        \* commands typed so far

vars == <<mailVars, aborted, somVars, venueVars, lightVars, console>>

Init == MailInit /\ SOMInit /\ VenueInit /\ LightInit /\ console = 0

Running == aborted = "no"

Place(l, sz) == Running /\ place_order(l, sz) /\ UNCHANGED <<venueVars, console>>
Cancel(l) == Running /\ cancel_order(l) /\ UNCHANGED <<venueVars, console>>
Report2Light(l) == Running /\ LightReport(l) /\ UNCHANGED <<venueVars, console>>
Report2SOM == Running /\ SOMReport /\ UNCHANGED <<aborted, venueVars, lightVars, console>>

Book ==
    /\ Running
    /\ ObData \/ ReleaseOrder \/ DrainPubQ
    /\ UNCHANGED <<somVars, lightVars, console>>

Market ==
    /\ Running
    /\ \/ \E id \in Id, n \in Size : MarketFill(id, n)
       \/ ClearBegin
    /\ UNCHANGED <<somVars, lightVars, console>>

\* OB::clear's direct call of one light.
ClearLight(l) ==
    /\ Running
    /\ inClear /\ l \in clearing
    /\ clearing' = clearing \ {l}
    /\ clear_handler(l)
    /\ UNCHANGED <<del_q, pub_q, resting, inClear, console>>

ClearEnd == Running /\ ClearBook /\ UNCHANGED <<somVars, lightVars, console>>

\* MTD: stopom, startom, and cancel, which carries no time.
Console ==
    /\ Running
    /\ console < MaxConsole
    /\ console' = console + 1
    /\ \/ StopTrading
       \/ StartTrading
       \/ \E id \in Id : canc_handler(id, FALSE)
    /\ UNCHANGED <<aborted, venueVars, lightVars>>

Next ==
    \/ \E l \in Light, sz \in Size : Place(l, sz)
    \/ \E l \in Light : Cancel(l)
    \/ \E l \in Light : Report2Light(l)
    \/ Report2SOM
    \/ Book
    \/ Market
    \/ \E l \in Light : ClearLight(l)
    \/ ClearEnd
    \/ Console

Spec == Init /\ [][Next]_vars

\* Every actor's thread runs, and market data keeps coming, so that the wire
\* and feed latencies pass.  The book's thread does nothing else while it clears
\* the book, but returns to its mailbox, which is first in first out, between
\* any two clears: strong fairness, as it is enabled again and again.
FairSpec ==
    /\ Spec
    /\ WF_vars(Report2SOM)
    /\ SF_vars(Book /\ ObData) /\ SF_vars(Book /\ ReleaseOrder) /\ SF_vars(Book /\ DrainPubQ)
    /\ WF_vars(ClearEnd)
    /\ \A l \in Light : WF_vars(Report2Light(l)) /\ WF_vars(ClearLight(l))

-----------------------------------------------------------------------------
(* What is in flight. *)

Answers == somIn \o pub_q

\* The sum of a sequence of numbers.
Sum(s) ==
    LET upTo[i \in 0..Len(s)] == IF i = 0 THEN 0 ELSE upTo[i - 1] + s[i]
    IN  upTo[Len(s)]

\* The size of the fills of the orders in S among the messages of q.
FillSize(q, S) ==
    Sum([i \in 1..Len(q) |-> IF q[i].type = "FILL" /\ q[i].id \in S THEN q[i].sz ELSE 0])

Wire == del_q \o obIn
OnWire(id) == {i \in DOMAIN Wire : Wire[i].type = "ADD" /\ Wire[i].id = id}
AtVenue(id) == id \in DOMAIN resting \/ OnWire(id) # {}
VenueSize(id) ==
    IF id \in DOMAIN resting THEN resting[id]
    ELSE Wire[CHOOSE i \in OnWire(id) : TRUE].sz

\* The lights, one after the other.
Lights ==
    CHOOSE s \in [1..Cardinality(Light) -> Light] :
        /\ \A l \in Light : \E i \in DOMAIN s : s[i] = l
        /\ \A i, j \in DOMAIN s : s[i] = s[j] => i = j

\* What light l has in the market, and among the fills the SOM has not heard of.
InMarket(l) ==
    LET Of == {id \in DOMAIN orders : orders[id].client = l}
    IN  FillSize(Answers, Of)
          + Sum([id \in Id |-> IF id \in Of /\ AtVenue(id) THEN VenueSize(id) ELSE 0])

-----------------------------------------------------------------------------
(* Properties *)

\* Every variable stays in its type.
TypeOK ==
    /\ MailTypeOK /\ SOMTypeOK /\ VenueTypeOK /\ LightTypeOK
    /\ console \in 0..MaxConsole

\* No assertion fails: not the book's on an untimed cancel, not the lights' on
\* an empty slot, not QCoord's on an entry that is missing, foreign or there
\* already.
NoAbort == aborted = "no"

\* Every table and mailbox stays consistent, and no assertion fails.
OrderInv == TypeOK /\ NoAbort

\* An order that is on the wire or in the book is known to the SOM, which
\* counts as unfilled exactly what is left of it plus the fills it has not
\* heard of yet, and it is the order in its light's slot: no order is left
\* behind to fill unseen (the hazard OB::data_handler's comment describes).
LiveOrderKnown ==
    \A id \in Id : AtVenue(id) =>
        /\ Known(id)
        /\ orders[id].stbf = VenueSize(id) + FillSize(Answers, {id})
        /\ slot[orders[id].client].id = id

\* No fill is lost: when one reaches the SOM its order has not been erased
\* (fill_handler drops it otherwise, before it updates the position).
FillsFindOrder ==
    \A i \in DOMAIN Answers : Answers[i].type = "FILL" =>
        /\ Known(Answers[i].id)
        /\ \A j \in 1..i-1 : ~ (Answers[j].type = "CANCACK" /\ Answers[j].id = Answers[i].id)

\* The entries in QCoord are those of the lights' uncancelled orders, and show
\* what the SOM counts as unfilled plus the fills still in the light's mailbox.
QCoordMatches ==
    aborted = "no" => \A l \in Light :
        /\ qentry[l].id = IF slot[l].canc THEN 0 ELSE slot[l].id
        /\ Known(qentry[l].id) /\ orders[qentry[l].id].client = l =>
              qentry[l].sz = orders[qentry[l].id].stbf + FillSize(clientIn[l], {qentry[l].id})

\* The SOM and the lights agree on the position, up to the fills in the mail.
PositionsAgree ==
    pos = pcoord + Sum([i \in DOMAIN Lights |->
                            Sign(Lights[i]) * FillSize(clientIn[Lights[i]], Id)])

\* The three accounts of what is working and what is held, the SOM's, QCoord's
\* and PCoord's, agree up to what is in the mail (fill_handler, cancel_order).
AccountsAgree == QCoordMatches /\ PositionsAgree

\* How far the position can get beyond the limit, with the working orders left
\* out of order_handler's check: by one order of each other light of the side.
PositionBounded ==
    PosLimit >= 0 => \A l \in Light :
        LET peers == {k \in Light : Side[k] = Side[l]}
        IN  Sign(l) * pos + Sum([i \in DOMAIN Lights |->
                                    IF Lights[i] \in peers THEN InMarket(Lights[i]) ELSE 0])
              <= PosLimit + (Cardinality(peers) - 1) * MaxSize

\* A cancel is always settled: the light's slot gets free again.
CancelSettles == \A l \in Light : slot[l].canc ~> slot[l] = Empty \/ aborted # "no"

\* Stopping trading takes our orders out of the market.
StopUnwinds ==
    stopped ~> \/ ~ stopped \/ aborted # "no"
               \/ \A id \in Id : ~ AtVenue(id)

\* ASSERT(p2 == p->second.end(), "already have this mm id"), with which
\* QCoord::add_order means to "make sure an mmid is managing only one order",
\* never fails, nor do those of remove_order.
OneEntryPerLight == aborted # "QCoord"
=============================================================================

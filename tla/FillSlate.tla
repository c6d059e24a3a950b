------------------------------ MODULE FillSlate ------------------------------
(***************************************************************************)
(* frame::ob::FillSlate as OB uses it (Release::AT_OWN_RECORD).  A trade   *)
(* record names an order but neither its price nor its side.  Its fill is  *)
(* held until the order's own book record tells whether the order was      *)
(* resting or was the aggressor, modified to cross, whose stored price is  *)
(* its old one.                                                            *)
(*                                                                         *)
(* The slate is a record: the transaction it is open for (0: none), its    *)
(* fills in trade order, the orders whose book record has come, the sides  *)
(* of orders whose price a Change moved or kept, and the verdict, aside.   *)
(* An operation returns the new slate and the fills it releases.           *)
(***************************************************************************)
EXTENDS Integers, Sequences, FiniteSets

Sides == {"BUY", "SEL"}
Contra(side) == IF side = "BUY" THEN "SEL" ELSE "BUY"

EmptySlate ==
    [tx |-> 0, fills |-> <<>>, seen |-> {}, moved |-> "none", kept |-> "none",
     aside |-> "unknown"]

\* A fill: the order, its stored price and side, the size traded, and whether
\* that price was the best of its side when the trade arrived.
NewFill(oid, px, side, qty, touch) ==
    [oid |-> oid, px |-> px, side |-> side, qty |-> qty, touch |-> touch, released |-> FALSE]

Fills(s) == {s.fills[i] : i \in DOMAIN s.fills}
Listed(s, side) == {f.oid : f \in {g \in Fills(s) : g.side = side}}
First(s, oid) ==
    s.fills[CHOOSE i \in DOMAIN s.fills :
               s.fills[i].oid = oid /\ \A j \in 1..i-1 : s.fills[j].oid # oid]
AtTouch(s, side) == \A oid \in Listed(s, side) : First(s, oid).touch

\* compute_side, counted in distinct orders.
compute_side(s) ==
    LET nb == Cardinality(Listed(s, "BUY"))
        ns == Cardinality(Listed(s, "SEL"))
    IN  IF nb = 0 \/ ns = 0 THEN "nobody"               \* the aggressor was a new order
        ELSE IF nb >= 2 /\ ns >= 2 THEN "nobody"        \* an auction
        ELSE IF ns >= 2 THEN "BUY"
        ELSE IF nb >= 2 THEN "SEL"
        ELSE IF s.moved # "none" THEN s.moved
        ELSE IF s.kept # "none" THEN Contra(s.kept)
        ELSE IF AtTouch(s, "BUY") = AtTouch(s, "SEL") THEN "unknown"
        ELSE IF AtTouch(s, "BUY") THEN "SEL" ELSE "BUY"

\* Mutant of role_for: the aggressor's own fill counts as well.
role_forEveryone(s, f) == IF s.aside = "unknown" THEN "AMBIGUOUS" ELSE "RESTING"

role_for(s, f) ==
    CASE s.aside = "nobody" -> "RESTING"
      [] s.aside = "unknown" -> "AMBIGUOUS"
      [] f.side = s.aside -> "AGGRESSOR"
      [] OTHER -> "RESTING"

\* release_one for every fill of the orders in S not released yet.
Release(s, S) ==
    LET due(f) == f.oid \in S /\ ~ f.released
        out == SelectSeq(s.fills, due)
    IN  [slate |-> [s EXCEPT !.fills = [i \in DOMAIN @ |-> [@[i] EXCEPT !.released = @ \/ s.fills[i].oid \in S]]],
         out |-> [i \in DOMAIN out |-> [fill |-> out[i], role |-> role_for(s, out[i])]]]

Undecided(s) == s.aside = "unknown"
Decide(s) == IF Undecided(s) THEN [s EXCEPT !.aside = compute_side(s)] ELSE s

close_tx(s) ==
    LET d == Decide(s)
    IN  [slate |-> EmptySlate, out |-> Release(d, Listed(d, "BUY") \cup Listed(d, "SEL")).out]

\* A record of another transaction closes the one before.
advance(s, tx) == IF s.tx # 0 /\ s.tx # tx THEN close_tx(s) ELSE [slate |-> s, out |-> <<>>]

\* A fill whose order's record has already come is released at once.
on_trade(s, tx, f) ==
    LET held == [s EXCEPT !.tx = tx, !.fills = Append(@, f)]
    IN  IF ~ Undecided(s) /\ f.oid \in s.seen
        THEN Release(held, {f.oid})
        ELSE [slate |-> held, out |-> <<>>]

\* The order's Change or Delete: its own fills go out, with the verdict if there
\* is one by now.
on_book(s, oid, tx, action, px) ==
    CASE s.tx = 0 -> [slate |-> s, out |-> <<>>]
      [] s.tx # 0 /\ s.tx # tx -> close_tx(s)
      [] s.tx = tx /\ (oid \notin Listed(s, "BUY") \cup Listed(s, "SEL") \/ oid \in s.seen) ->
            [slate |-> s, out |-> <<>>]
      [] OTHER ->
            LET f == First(s, oid)
                kept == action = "CHANGE" /\ px = f.px
                moved == action = "CHANGE" /\ px # f.px
                known == [s EXCEPT !.seen = @ \cup {oid},
                                   !.kept = IF kept THEN f.side ELSE @,
                                   !.moved = IF moved THEN f.side ELSE @]
                d == Decide(known)
            IN  Release(d, IF Undecided(s) /\ ~ Undecided(d) THEN d.seen ELSE {oid})
=============================================================================

---------------------------- MODULE MatchingBook ----------------------------
(***************************************************************************)
(* frame::ob::act::OB as the reconstruction of the exchange's book and as  *)
(* the engine that fills our simulated orders against it: add, mod, fill   *)
(* and the market-by-order records of data_handler, with the FillSlate     *)
(* that holds back trades.  One instrument that is matching; the feed is   *)
(* complete (BookRecovery is about the other case).                        *)
(*                                                                         *)
(* A level is a queue of real and simulated orders; the best prices are    *)
(* those of real orders.  do_cross_check is set in a replay, where a       *)
(* crossed book is fatal, and not in live trading, where add() repairs it. *)
(* An order is told by the exchange's id: mod looks for the book's own id  *)
(* of it, which changes with every cancel and replace, at one level.       *)
(***************************************************************************)
EXTENDS FillSlate, SequencesExt

CONSTANTS
    MaxPx,          \* maxprice
    MaxSize,        \* bound: size of an order
    MaxTx,          \* bound: transactions of the exchange
    MaxSim,         \* bound: simulated orders
    SimSize,        \* bound: their sizes
    Starts          \* the books to start from, as sequences of real orders

Price == 1..MaxPx - 1
Size == 1..MaxSize

ASSUME MatchingAssumption ==
    /\ MaxPx \in Nat \ {0, 1} /\ MaxSize \in Nat \ {0}
    /\ MaxTx \in Nat /\ MaxSim \in Nat /\ SimSize \subseteq Size
    /\ \A s \in Starts : \A i \in DOMAIN s : s[i] \in [side : Sides, px : Price, sz : Size]

VARIABLES
    do_cross_check,
    qs,             \* bidqs and askqs: side -> price -> queue
    ordermap,       \* real order -> side, price and size last heard
    best_bid, best_ask,
    exec_slate

\* The exchange: its book, the number of transactions so far, and the records
\* of the last one that the book has not read.
VARIABLES exch, tx, feed

\* Histories: simulated orders so far, those that came to rest in a locked or
\* crossed book, and, for the last transaction, what resting orders traded and
\* what simulated orders got for it at each level.
VARIABLES sims, late, traded, matched

bookVars == <<do_cross_check, qs, ordermap, best_bid, best_ask, exec_slate>>
exchVars == <<exch, tx, feed, traded>>
vars == <<bookVars, exchVars, sims, late, matched>>

Order(id, sz, sim) == [id |-> id, sz |-> sz, sim |-> sim]
Real(id, o) == o.id = id /\ ~ o.sim
HasReal(q) == \E i \in DOMAIN q : ~ q[i].sim
RealPart(q) == SelectSeq(q, LAMBDA o : ~ o.sim)
Total(q) == FoldSeq(LAMBDA o, t : o.sz + t, 0, q)
Lesser(a, b) == IF a < b THEN a ELSE b
Larger(a, b) == IF a < b THEN b ELSE a
NoVolume == [side \in Sides |-> [p \in Price |-> 0]]

\* How much of n each order of q takes, the first one first.
Taken(q, n) == [k \in DOMAIN q |-> Lesser(q[k].sz, Larger(0, n - Total(SubSeq(q, 1, k - 1))))]
After(q, taken) ==
    SelectSeq([k \in DOMAIN q |-> [q[k] EXCEPT !.sz = @ - taken[k]]], LAMBDA o : o.sz > 0)

-----------------------------------------------------------------------------
(* The book as a value: OB's methods map one to the next.                  *)

Book == [qs |-> qs, bid |-> best_bid, ask |-> best_ask, got |-> matched]
BookBecomes(b) == qs' = b.qs /\ best_bid' = b.bid /\ best_ask' = b.ask /\ matched' = b.got

\* The walks to the next real order, over empty and all-simulated levels.
BidFrom(b, p) ==
    LET S == {x \in Price : x <= p /\ HasReal(b.qs["BUY"][x])}
    IN  IF S # {} THEN Max(S) ELSE Lesser(p, 1)
AskFrom(b, p, top) ==
    LET S == {x \in Price : x >= p /\ HasReal(b.qs["SEL"][x])}
    IN  IF S # {} THEN Min(S) ELSE Larger(p, top)

\* Mutant of Reached: the arriving order's own price is left out.
ReachedExclusive(b, side, px) ==
    IF side = "BUY" THEN {p \in Price : b.bid <= p /\ p < px}
    ELSE {p \in Price : px < p /\ p <= b.ask}

\* fill_stray_sim_orders: the contra levels that an arriving real order reaches.
Reached(b, side, px) ==
    LET repair == ~ do_cross_check
    IN  IF side = "BUY"
        THEN IF px > b.bid \/ (repair /\ px >= b.ask)
             THEN {p \in Price : (IF repair THEN Lesser(b.bid, b.ask) ELSE b.bid) <= p /\ p <= px}
             ELSE {}
        ELSE IF px < b.ask \/ (repair /\ px <= b.bid)
             THEN {p \in Price : px <= p /\ p <= (IF repair THEN Larger(b.bid, b.ask) ELSE b.ask)}
             ELSE {}

\* The simulated orders there are filled; live, the real ones are cancelled,
\* their ordermap entries kept.
FillStray(b, side, px) ==
    [b EXCEPT !.qs[Contra(side)] =
        [p \in Price |-> IF p \notin Reached(b, side, px) THEN @[p]
                         ELSE IF do_cross_check THEN RealPart(@[p]) ELSE <<>>]]

\* check_for_bo_change; u says that real orders were cancelled.
MoveInside(b, side, px, u) ==
    LET c == IF side = "BUY" THEN [b EXCEPT !.bid = Larger(@, px)]
             ELSE [b EXCEPT !.ask = Lesser(@, px)]
    IN  IF do_cross_check \/ ~ (u \/ c.bid >= c.ask) THEN c
        ELSE IF side = "BUY" THEN [c EXCEPT !.ask = AskFrom(c, @, MaxPx + 1)]
        ELSE [c EXCEPT !.bid = BidFrom(c, @)]

AddReal(b, id, side, px, sz) ==
    LET u == ~ do_cross_check
               /\ \E p \in Reached(b, side, px) : HasReal(b.qs[Contra(side)][p])
    IN  [MoveInside(FillStray(b, side, px), side, px, u) EXCEPT
            !.qs[side][px] = Append(@, Order(id, sz, FALSE))]

\* The end of mod: the inside moves away from a level that has become empty.
Rewalk(b, side, px) ==
    CASE side = "BUY" /\ px <= b.bid -> [b EXCEPT !.bid = BidFrom(b, @)]
      [] side = "SEL" /\ px >= b.ask -> [b EXCEPT !.ask = AskFrom(b, @, MaxPx - 1)]
      [] OTHER -> b

\* mod with CANC, to size sz, or CANCD.  The order may be gone (uncrossed).
CancReal(b, id, side, px, sz) ==
    IF ~ \E i \in DOMAIN b.qs[side][px] : Real(id, b.qs[side][px][i]) THEN b
    ELSE Rewalk([b EXCEPT !.qs[side][px] =
                    [k \in DOMAIN @ |-> IF Real(id, @[k]) THEN [@[k] EXCEPT !.sz = sz] ELSE @[k]]],
                side, px)
CancdReal(b, id, side, px) ==
    IF ~ \E i \in DOMAIN b.qs[side][px] : Real(id, b.qs[side][px][i]) THEN b
    ELSE Rewalk([b EXCEPT !.qs[side][px] = SelectSeq(@, LAMBDA o : ~ Real(id, o))], side, px)

\* mod with EXEC: the real orders are left alone.  If the order is the first
\* real one, the simulated orders before it fill, the last of them first.
Exec(b, f) ==
    LET q == b.qs[f.side][f.px]
        i == CHOOSE k \in DOMAIN q : Real(f.oid, q[k])
        front == Reverse(SubSeq(q, 1, i - 1))
        taken == Taken(front, f.qty)
    IN  IF ~ \E k \in DOMAIN q : Real(f.oid, q[k]) THEN b
        ELSE IF HasReal(front) THEN Rewalk(b, f.side, f.px)
        ELSE Rewalk([b EXCEPT
                !.qs[f.side][f.px] = Reverse(After(front, taken)) \o SubSeq(q, i, Len(q)),
                !.got[f.side][f.px] = @ + (Total(front) - Total(After(front, taken)))],
                f.side, f.px)

\* release_exec.  Only what is decided counts as matched.
ReleaseExec(b, x) ==
    CASE x.role = "AGGRESSOR" -> b
      [] x.role = "RESTING" -> Exec(b, x.fill)
      [] OTHER -> [Exec(b, x.fill) EXCEPT !.got = b.got]

-----------------------------------------------------------------------------
(* data_handler: one record of the feed.                                   *)

Record(type, id, side, px, sz) == [type |-> type, id |-> id, side |-> side, px |-> px, sz |-> sz]
Known(id) == id \in DOMAIN ordermap
Heard(id, side, px, sz) ==
    [i \in DOMAIN ordermap \cup {id} |->
        IF i = id THEN [side |-> side, px |-> px, sz |-> sz] ELSE ordermap[i]]

Read(type) ==
    /\ feed # <<>> /\ Head(feed).type = type
    /\ feed' = Tail(feed)
    /\ UNCHANGED <<do_cross_check, exch, tx, traded, sims, late>>

\* An order added twice, or a record of an order the book does not know.
Ignore == UNCHANGED <<qs, ordermap, best_bid, best_ask, exec_slate, matched>>

AddRecord ==
    LET r == Head(feed) IN
    /\ Read("ADD")
    /\ IF Known(r.id) THEN Ignore
       ELSE /\ ordermap' = Heard(r.id, r.side, r.px, r.sz)
            /\ BookBecomes(AddReal(Book, r.id, r.side, r.px, r.sz))
            /\ UNCHANGED exec_slate

\* A trade.  The order may not be there: a new order that trades at once.
ExecRecord ==
    LET r == Head(feed)
        closed == advance(exec_slate, tx)
        b == FoldLeft(ReleaseExec, Book, closed.out)
        o == ordermap[r.id]
        touch == o.px = IF o.side = "BUY" THEN b.bid ELSE b.ask
        held == on_trade(closed.slate, tx, NewFill(r.id, o.px, o.side, r.sz, touch))
    IN
    /\ Read("EXEC")
    /\ IF Known(r.id)
       THEN exec_slate' = held.slate /\ BookBecomes(FoldLeft(ReleaseExec, b, held.out))
       ELSE exec_slate' = closed.slate /\ BookBecomes(b)
    /\ UNCHANGED ordermap

\* process_slated_exec: the order's own fills come first.
Slated(r) == on_book(exec_slate, r.id, tx, r.type, r.px)
AfterSlated(r) == FoldLeft(ReleaseExec, Book, Slated(r).out)

\* Mutant of ChangeRecord: a smaller size loses the order's place, too.
ChangeRecordRequeues ==
    LET r == Head(feed)
        o == ordermap[r.id]
        b == AfterSlated(r)
    IN
    /\ Read("CHANGE")
    /\ IF ~ Known(r.id) THEN Ignore
       ELSE /\ exec_slate' = Slated(r).slate
            /\ BookBecomes(AddReal(CancdReal(b, r.id, o.side, o.px), r.id, r.side, r.px, r.sz))
            /\ ordermap' = Heard(r.id, o.side, r.px, r.sz)

\* A larger size or another price is a cancel and a new order.
ChangeRecord ==
    LET r == Head(feed)
        o == ordermap[r.id]
        b == AfterSlated(r)
    IN
    /\ Read("CHANGE")
    /\ IF ~ Known(r.id) THEN Ignore
       ELSE /\ exec_slate' = Slated(r).slate
            /\ BookBecomes(IF r.sz > o.sz \/ r.px # o.px
                           THEN AddReal(CancdReal(b, r.id, o.side, o.px), r.id, r.side, r.px, r.sz)
                           ELSE CancReal(b, r.id, o.side, o.px, r.sz))
            /\ ordermap' = Heard(r.id, o.side, r.px, r.sz)

DeleteRecord ==
    LET r == Head(feed)
        o == ordermap[r.id]
    IN
    /\ Read("DELETE")
    /\ IF ~ Known(r.id) THEN Ignore
       ELSE /\ exec_slate' = Slated(r).slate
            /\ BookBecomes(CancdReal(AfterSlated(r), r.id, o.side, o.px))
            /\ ordermap' = [i \in DOMAIN ordermap \ {r.id} |-> ordermap[i]]

-----------------------------------------------------------------------------
(* Our orders, released from del_q by process_q before it applies a record. *)

Released == feed # <<>> /\ Head(feed).type # "EXEC"

Crosses(side, px) ==
    best_bid < best_ask /\ IF side = "BUY" THEN px >= best_ask ELSE px <= best_bid

SimAdd(side, px, sz) ==
    /\ Released
    /\ sims < MaxSim
    /\ sims' = sims + 1
    /\ \/ /\ Crosses(side, px)      \* fill_sim_on_arrival: all of it
          /\ UNCHANGED <<qs, late>>
       \/ /\ ~ Crosses(side, px)
          /\ qs' = [qs EXCEPT ![side][px] = Append(@, Order(sims + 1, sz, TRUE))]
          /\ late' = IF best_bid < best_ask THEN late ELSE late \cup {sims + 1}
    /\ UNCHANGED <<do_cross_check, ordermap, best_bid, best_ask, exec_slate, exchVars, matched>>

\* (A cancel that finds no order is only answered, see SimVenue.)
SimCancel(side, px) ==
    /\ Released
    /\ \E i \in DOMAIN qs[side][px] :
          /\ qs[side][px][i].sim
          /\ qs' = [qs EXCEPT ![side][px] = RemoveAt(@, i)]
    /\ UNCHANGED <<do_cross_check, ordermap, best_bid, best_ask, exec_slate, exchVars,
                   sims, late, matched>>

-----------------------------------------------------------------------------
(* The exchange.  A transaction is one incoming order; the feed lists its  *)
(* trades, the incoming order included, then what became of the orders.    *)

\* The levels of a side, the best one first.
Ladder(side) == IF side = "BUY" THEN SetToSortSeq(Price, >) ELSE SetToSortSeq(Price, <)

\* The orders an incoming one of this side and limit can meet, in priority.
Facing(book, side, px) ==
    LET contra == Contra(side)
        open(p) == IF side = "BUY" THEN p <= px ELSE p >= px
        at(p) == [k \in DOMAIN book[contra][p] |-> [id |-> book[contra][p][k].id,
                                                   sz |-> book[contra][p][k].sz, px |-> p]]
        ps == SelectSeq(Ladder(contra), open)
    IN  FlattenSeq([i \in DOMAIN ps |-> at(ps[i])])

\* Order id comes in against the given book; known says that the feed has it.
Incoming(book, id, side, px, sz, known) ==
    LET contra == Contra(side)
        q == Facing(book, side, px)
        taken == Taken(q, sz)
        hits == SelectSeq([k \in DOMAIN q |-> k], LAMBDA k : taken[k] > 0)
        level(p) == FoldSeq(LAMBDA k, t : t + IF q[k].px = p THEN taken[k] ELSE 0, 0, hits)
        left == sz - Larger(0, Lesser(sz, Total(q)))
        hit(k) == Record("EXEC", q[k].id, contra, q[k].px, taken[k])
        trades == FlattenSeq([i \in DOMAIN hits |->
            IF i = 1 \/ q[hits[i]].px # q[hits[i] - 1].px
            THEN <<Record("EXEC", id, side, px, level(q[hits[i]].px)), hit(hits[i])>>
            ELSE <<hit(hits[i])>>])
        fate(k) == IF taken[k] = q[k].sz THEN Record("DELETE", q[k].id, contra, q[k].px, 0)
                   ELSE Record("CHANGE", q[k].id, contra, q[k].px, q[k].sz - taken[k])
        fates == [i \in DOMAIN hits |-> fate(hits[i])]
        own == CASE left > 0 -> <<Record(IF known THEN "CHANGE" ELSE "ADD", id, side, px, left)>>
                 [] left = 0 /\ known -> <<Record("DELETE", id, side, px, 0)>>
                 [] OTHER -> <<>>
    IN  /\ feed' \in {trades \o own \o fates, trades \o fates \o own}
        /\ traded' = [NoVolume EXCEPT ![contra] = [p \in Price |-> level(p)]]
        /\ exch' = [book EXCEPT
              ![contra] = [p \in Price |-> After(@[p], Taken(@[p], level(p)))],
              ![side][px] = IF left > 0 THEN Append(@, Order(id, left, FALSE)) ELSE @]

Transaction ==
    /\ feed = <<>> /\ tx < MaxTx
    /\ tx' = tx + 1
    /\ matched' = NoVolume
    /\ UNCHANGED <<bookVars, sims, late>>

NewOrder(side, px, sz) ==
    /\ Transaction
    /\ Incoming(exch, 100 + tx, side, px, sz, FALSE)

\* Order i of a level is withdrawn, gets smaller in its place, or comes in anew
\* with another price or a larger size.
Withdraw(side, px, i) ==
    /\ Transaction
    /\ i \in DOMAIN exch[side][px]
    /\ exch' = [exch EXCEPT ![side][px] = RemoveAt(@, i)]
    /\ feed' = <<Record("DELETE", exch[side][px][i].id, side, px, 0)>>
    /\ traded' = NoVolume

Modify(side, px, i, npx, nsz) ==
    /\ Transaction
    /\ i \in DOMAIN exch[side][px]
    /\ LET o == exch[side][px][i] IN
       \/ /\ npx = px /\ nsz < o.sz
          /\ exch' = [exch EXCEPT ![side][px][i].sz = nsz]
          /\ feed' = <<Record("CHANGE", o.id, side, px, nsz)>>
          /\ traded' = NoVolume
       \/ /\ npx # px \/ nsz > o.sz
          /\ Incoming([exch EXCEPT ![side][px] = RemoveAt(@, i)], o.id, side, npx, nsz, TRUE)

-----------------------------------------------------------------------------
\* A book that the feed has built so far.
Level(s, side, p) ==
    LET ids == SelectSeq([i \in DOMAIN s |-> i], LAMBDA i : s[i].side = side /\ s[i].px = p)
    IN  [k \in DOMAIN ids |-> Order(ids[k], s[ids[k]].sz, FALSE)]

Init ==
    /\ do_cross_check \in BOOLEAN
    /\ \E s \in Starts :
          /\ exch = [side \in Sides |-> [p \in Price |-> Level(s, side, p)]]
          /\ ordermap = [i \in DOMAIN s |-> s[i]]
    /\ qs = exch
    /\ best_bid = LET S == {p \in Price : exch["BUY"][p] # <<>>} IN IF S = {} THEN 0 ELSE Max(S)
    /\ best_ask = LET S == {p \in Price : exch["SEL"][p] # <<>>} IN IF S = {} THEN MaxPx - 1 ELSE Min(S)
    /\ exec_slate = EmptySlate
    /\ tx = 0
    /\ feed = <<>>
    /\ sims = 0
    /\ late = {}
    /\ traded = NoVolume
    /\ matched = NoVolume

Next ==
    \/ AddRecord
    \/ ExecRecord
    \/ ChangeRecord
    \/ DeleteRecord
    \/ \E side \in Sides, px \in Price, sz \in SimSize : SimAdd(side, px, sz)
    \/ \E side \in Sides, px \in Price : SimCancel(side, px)
    \/ \E side \in Sides, px \in Price, sz \in Size : NewOrder(side, px, sz)
    \/ \E side \in Sides, px \in Price : \E i \in DOMAIN exch[side][px] :
          \/ Withdraw(side, px, i)
          \/ \E npx \in Price, nsz \in Size : Modify(side, px, i, npx, nsz)

Spec == Init /\ [][Next]_vars

-----------------------------------------------------------------------------
(* Properties *)

Settled == feed = <<>>

\* Once a transaction has been read, the book without our orders is the
\* exchange's, order for order in each queue, ordermap agrees with it, the best
\* prices are those of its orders and do not cross (what process_market_data
\* asserts): also when the repair of add() has cancelled orders on the way, and
\* whatever our orders did.
BookMatches ==
    Settled =>
        /\ \A side \in Sides, p \in Price : RealPart(qs[side][p]) = exch[side][p]
        /\ \A side \in Sides, p \in Price : \A i \in DOMAIN exch[side][p] :
              Known(exch[side][p][i].id)
                /\ ordermap[exch[side][p][i].id] = [side |-> side, px |-> p, sz |-> exch[side][p][i].sz]
        /\ \A id \in DOMAIN ordermap :
              \E i \in DOMAIN exch[ordermap[id].side][ordermap[id].px] :
                  exch[ordermap[id].side][ordermap[id].px][i].id = id
        /\ best_bid <= best_ask
        /\ LET B == {p \in Price : exch["BUY"][p] # <<>>}
               A == {p \in Price : exch["SEL"][p] # <<>>}
           IN  /\ IF B = {} THEN best_bid <= 1 ELSE best_bid = Max(B)
               /\ IF A = {} THEN best_ask >= MaxPx - 1 ELSE best_ask = Min(A)

\* Our resting orders fill only on volume that really traded at their level in
\* the transaction: the aggressor's own trades, which the feed lists under its
\* old price, are told apart (unless FillSlate calls them ambiguous).
SimFillsBacked ==
    \A side \in Sides, p \in Price : matched[side][p] <= traded[side][p]

\* No order of ours is left behind: once a transaction has been read, a real
\* order that ours could trade with has filled it.  (An order of ours that
\* arrives while the book is locked or crossed inside a transaction rests.)
NoSimLeftBehind ==
    Settled => \A side \in Sides, p \in Price : \A i \in DOMAIN qs[side][p] :
        qs[side][p][i].sim /\ qs[side][p][i].id \notin late =>
            \A x \in Price : exch[Contra(side)][x] # <<>> => IF side = "BUY" THEN x > p ELSE x < p
=============================================================================

------------------------- MODULE ILinkOrders_proofs -------------------------
(***************************************************************************)
(* The orders and reports of one session, for any set of orders, any       *)
(* lengths and losses.  The run's invariants are not inductive alone:      *)
(*   - that what is missing was asked for rests on no number the handler   *)
(*     keeps being above the newest it received or heard of (Within): a    *)
(*     report beyond it opens a gap the handler sees whole;                *)
(*   - that it stops only with cause rests on a number at or below lastseq *)
(*     having been seen, or the request for the one after it being first   *)
(*     in line (Based, Clean, FirstAsked);                                 *)
(*   - the fills rest on an order trading down along the gateway's log,    *)
(*     the verdicts on every order and cancel having its own number.       *)
(***************************************************************************)
EXTENDS ILinkOrders, SequenceTheorems, NaturalsInduction, WellFoundedInduction, TLAPS

(* What the handler and the gateway keep *)

Piece == [from : Nat \ {0}, count : Nat \ {0}]

Refusable == [kind : {"NewOrder", "CancelRequest"}, seqnum : Nat, oid : Order]
Party == [kind : {"PartyDefinition", "PartyList"}, seqnum : Nat]

Report ==
  [kind : {"New", "Reject", "Cancel", "Elimination", "CancelReject"}, oid : Order]
    \cup [kind : {"Trade"}, oid : Order, LeavesQty : 0..(Size - 1)]
    \cup [kind : {"PartyDetailsAck", "PartyDetailsReport", "Unknown"}]
    \cup [kind : {"BusinessReject"}, of : Refusable, BusinessRejectRefID : Nat]

HandlerState ==
  [phase : {"closed", "binding", "established"}, pre_register : BOOLEAN, lastseq : Nat,
   last_req : Nat, waiting : Seq(Piece), seen : SUBSET Nat, requests : Seq(Piece),
   asks : Seq(Refusable \cup Party), NextSeqNo : Nat, nos : SUBSET (Nat \X Order),
   canc : SUBSET (Nat \X Order), still : [Order -> 0..Size], bus_reject_cnt : Nat,
   exec_reject_cnt : Nat, aborted : BOOLEAN]

GatewayState ==
  [log : Seq(Report), live : Nat \ {0}, rt : {<<>>} \cup (Nat \X Nat), open : SUBSET Order,
   leaves : [Order -> 0..Size]]

Verdict == [filled : Nat, told : SUBSET {"Ack", "Reject", "CancAck", "CancReject"}]

History ==
  [rcvd : SUBSET Nat, asked : SUBSET Nat, guessed : Nat, late : SUBSET Order,
   refused : BOOLEAN, hole : BOOLEAN, lost : Nat]

Shape == hnd \in HandlerState /\ gwy \in GatewayState /\ som \in [Order -> Verdict] /\ hist \in History

---------------------------------------------------------------------------
(* The sequence numbers *)

\* The requests that were sent and not answered, and the pieces that wait.
Elements(s) == {s[i] : i \in DOMAIN s}
Held(h) == Elements(h.requests) \cup Elements(h.waiting)

\* No number the handler keeps is above M.
Within(h, M) ==
  /\ h.lastseq <= M /\ h.last_req <= M /\ \A n \in h.seen : n <= M
  /\ \A q \in Held(h) : q.from + q.count <= M

\* A number at or below lastseq has been seen: no gap is the first one.
Based(h) == \E n \in h.seen : n <= h.lastseq

Clean(h) == h.seen = {} /\ h.last_req = 0 /\ h.waiting = <<>> /\ h.requests = <<>>

\* The first number asked for is the one after lastseq, and its retransmission comes first.
FirstAsked ==
  /\ hnd.seen # {}
  /\ \/ gwy.rt = <<>> /\ hnd.requests # <<>> /\ Head(hnd.requests).from = hnd.lastseq + 1
     \/ gwy.rt # <<>> /\ Head(gwy.rt) = hnd.lastseq + 1

\* The newest number received or heard of.
Received == {n \in hist.rcvd : gwy.log[n] # PartyDetailsReport}
Top == Max({0, hist.guessed} \cup Received)

\* What is on the wire is numbered below what was sent.
Wire ==
  /\ hist.rcvd \subseteq 1..Len(gwy.log) /\ gwy.live <= Len(gwy.log) + 1
  /\ gwy.rt # <<>> => /\ gwy.rt[1] >= 1 /\ gwy.rt[1] <= gwy.rt[2] /\ gwy.rt[2] <= Len(gwy.log)
  /\ hist.guessed = 0 =>
       /\ \A n \in hist.rcvd : n < gwy.live
       /\ gwy.rt # <<>> => gwy.rt[2] < gwy.live
       /\ \A n \in DOMAIN gwy.log : gwy.log[n] # PartyDetailsReport
       /\ \A i \in DOMAIN hnd.asks : hnd.asks[i].kind # "PartyList"

Unbound ==
  hnd.phase # "established" =>
    /\ Clean(hnd) /\ ~hnd.aborted /\ hnd.asks = <<>> /\ hnd.nos = {} /\ hnd.canc = {}
    /\ gwy.rt = <<>> /\ gwy.live = Missed + 1 /\ Len(gwy.log) = Missed /\ gwy.open = {}
    /\ \A n \in DOMAIN gwy.log : gwy.log[n] = UnknownReport
    /\ hist.guessed = 0 /\ hist.rcvd = 1..hnd.lastseq /\ hnd.lastseq <= Missed
    /\ hnd.phase = "closed" => hnd.lastseq = 0

Sequenced ==
  /\ ~hnd.aborted => Within(hnd, Top)
  /\ ~hnd.aborted /\ hist.guessed = 0 /\ ~hist.hole =>
        Based(hnd) \/ (Clean(hnd) /\ gwy.rt = <<>>) \/ FirstAsked

---------------------------------------------------------------------------
(* The orders *)

TradesOf(o) == {n \in DOMAIN gwy.log : gwy.log[n].kind = "Trade" /\ gwy.log[n].oid = o}
Low(o) == Min({Size} \cup {gwy.log[n].LeavesQty : n \in TradesSeen(o)})

\* An order trades down, after it was sent.
Descends(o) ==
  /\ \A n \in TradesOf(o) : gwy.leaves[o] <= gwy.log[n].LeavesQty
  /\ \A m, n \in TradesOf(o) : m < n => gwy.log[n].LeavesQty < gwy.log[m].LeavesQty
  /\ o \notin Sent => TradesOf(o) = {} /\ o \notin gwy.open

\* What the SOM counts and what the handler thinks open agree with the trades received.
Exact(o) ==
  o \notin hist.late =>
    /\ som[o].filled = Size - Low(o)
    /\ o \in Sent => hnd.still[o] = Low(o)

Pair(m) == <<m.seqnum, m.oid>>
Noted(m) == IF m.kind = "NewOrder" THEN Pair(m) \in hnd.nos ELSE Pair(m) \in hnd.canc

\* The handler's table has every order and cancel under a number of its own.
Numbered ==
  /\ \A p \in hnd.nos \cup hnd.canc : p[1] < hnd.NextSeqNo /\ p[2] \in Sent
  /\ \A p, q \in hnd.nos \cup hnd.canc : p[1] = q[1] => p = q
  /\ hnd.nos \cap hnd.canc = {}
  /\ \A i \in DOMAIN hnd.asks : hnd.asks[i].kind \in {"NewOrder", "CancelRequest"} => Noted(hnd.asks[i])
  /\ \A n \in DOMAIN gwy.log :
       gwy.log[n].kind = "BusinessReject" =>
         /\ Noted(gwy.log[n].of)
         /\ gwy.log[n].BusinessRejectRefID = gwy.log[n].of.seqnum % RefWidth

\* What a report means for an order, and what the SOM has been told of it.
Means(r, o, what) ==
  \/ what = "Reject" /\ \/ r.kind = "Reject" /\ r.oid = o
                        \/ r.kind = "BusinessReject" /\ r.of.kind = "NewOrder" /\ r.of.oid = o
  \/ what = "CancReject" /\ \/ r.kind = "CancelReject" /\ r.oid = o
                            \/ r.kind = "BusinessReject" /\ r.of.kind = "CancelRequest" /\ r.of.oid = o
  \/ what = "CancAck" /\ r.kind \in {"Cancel", "Elimination"} /\ r.oid = o

Verdicts ==
  ~hnd.aborted /\ hnd.NextSeqNo <= RefWidth =>
    \A o \in Order, what \in {"Reject", "CancReject", "CancAck"} :
      what \in som[o].told <=> \E n \in hist.rcvd : Means(gwy.log[n], o, what)

OrdersInv ==
  /\ Shape /\ Wire /\ Unbound /\ Sequenced /\ GapRequested /\ AbortExplained
  /\ \A o \in Order : Descends(o) /\ Exact(o)
  /\ Numbered /\ Verdicts

-----------------------------------------------------------------------------
(* Least and greatest numbers *)

\* A set of numbers that is not empty has a least one.
LEMMA LeastNat ==
    ASSUME NEW T \in SUBSET Nat, T # {}
    PROVE  \E x \in T : \A y \in T : x <= y
<1>1. PICK x \in T : \A y \in T : ~ (<<y, x>> \in OpToRel(<, Nat))
  BY NatLessThanWellFounded, WFMin
<1>2. \A y \in T : ~ (y < x)
  BY <1>1 DEF OpToRel
<1> QED BY <1>2

\* Min returns the least one.
LEMMA MinFact ==
    \A T \in SUBSET Nat : T # {} => Min(T) \in T /\ \A y \in T : Min(T) <= y
<1> SUFFICES ASSUME NEW T \in SUBSET Nat, T # {}
             PROVE  Min(T) \in T /\ \A y \in T : Min(T) <= y
  OBVIOUS
<1>1. \E x \in T : \A y \in T : x <= y
  BY LeastNat
<1> QED BY <1>1 DEF Min

\* Max returns the greatest number of a bounded set.
LEMMA MaxFact ==
    \A T \in SUBSET Nat, b \in Nat :
      T # {} /\ (\A y \in T : y <= b) => Max(T) \in T /\ \A y \in T : y <= Max(T)
<1> SUFFICES ASSUME NEW T \in SUBSET Nat, NEW b \in Nat, T # {}, \A y \in T : y <= b
             PROVE  Max(T) \in T /\ \A y \in T : y <= Max(T)
  OBVIOUS
<1> DEFINE U == {b - x : x \in T}
<1>a. \A x \in T : b - x \in Nat
  OBVIOUS
<1>b. PICK x0 \in T : TRUE
  OBVIOUS
<1>c. b - x0 \in U
  OBVIOUS
<1>1. U \in SUBSET Nat /\ U # {}
  BY <1>a, <1>c
<1>2. PICK u \in U : \A v \in U : u <= v
  <2> HIDE DEF U
  <2> QED BY <1>1, LeastNat
<1>3. PICK x \in T : u = b - x
  OBVIOUS
<1>4. \A y \in T : y <= x
  <2> SUFFICES ASSUME NEW y \in T PROVE y <= x
    OBVIOUS
  <2>1. u <= b - y
    BY <1>2
  <2> QED BY <2>1, <1>3
<1>5. \E g \in T : \A y \in T : g >= y
  BY <1>4
<1> QED BY <1>5 DEF Max

\* Min and Max of two numbers.
LEMMA MinOfTwo ==
    \A a, b \in Nat : Min({a, b}) \in {a, b} /\ Min({a, b}) <= a /\ Min({a, b}) <= b
<1> TAKE a \in Nat, b \in Nat
<1>1. {a, b} \in SUBSET Nat /\ {a, b} # {}
  OBVIOUS
<1> QED BY <1>1, MinFact

\* The greatest of two numbers.
LEMMA MaxOfTwo ==
    \A a, b \in Nat : Max({a, b}) \in {a, b} /\ a <= Max({a, b}) /\ b <= Max({a, b})
<1> TAKE a \in Nat, b \in Nat
<1>1. {a, b} \in SUBSET Nat /\ {a, b} # {} /\ \A y \in {a, b} : y <= a + b
  OBVIOUS
<1> QED BY <1>1, MaxFact, a + b \in Nat

-----------------------------------------------------------------------------
(* A request in pieces *)

\* Division by the length of a request.
LEMMA Division ==
    \A a \in Nat : /\ a \div Request \in Nat
                   /\ (a \div Request) * Request <= a
                   /\ a < (a \div Request) * Request + Request
<1> TAKE a \in Nat
<1>1. /\ a \div Request \in Nat /\ a % Request \in 0..(Request - 1)
      /\ a = Request * (a \div Request) + (a % Request)
  BY ILinkAssumption, SMT
<1>2. \A q, r \in Nat : a = Request * q + r /\ r \in 0..(Request - 1)
                          => q * Request <= a /\ a < q * Request + Request
  BY ILinkAssumption, SMT
<1>3. a % Request \in Nat
  BY <1>1, ILinkAssumption
<1> HIDE DEF ILinkAssumption
<1> QED BY <1>1, <1>2, <1>3

\* Multiples of the length of a request are ordered.
LEMMA Multiples ==
    \A i, j \in Nat : /\ i * Request \in Nat
                      /\ i <= j => i * Request <= j * Request
                      /\ i < j => i * Request + Request <= j * Request
<1> TAKE i \in Nat, j \in Nat
<1>1. i * Request \in Nat /\ j * Request \in Nat
  BY ILinkAssumption, SMT
<1>2. ASSUME i <= j PROVE i * Request <= j * Request
  BY <1>2, ILinkAssumption, SMT
<1>3. ASSUME i < j PROVE i * Request + Request <= j * Request
  <2>1. i + 1 <= j /\ i + 1 \in Nat
    BY <1>3
  <2>2. (i + 1) * Request <= j * Request
    BY <2>1, ILinkAssumption, SMT
  <2>3. (i + 1) * Request = i * Request + Request
    BY ILinkAssumption, SMT
  <2> QED BY <2>2, <2>3
<1> QED BY <1>1, <1>2, <1>3

\* What a sequence of pieces holds after the operations on it.
LEMMA ElementsFact ==
    /\ \A s \in Seq(Piece), q \in Piece : Elements(Append(s, q)) = Elements(s) \cup {q}
    /\ \A s \in Seq(Piece) : s # <<>> => Elements(s) = {Head(s)} \cup Elements(Tail(s))
    /\ \A s, u \in Seq(Piece) : Elements(s \o u) = Elements(s) \cup Elements(u)
    /\ \A s \in Seq(Piece) : Elements(s) \subseteq Piece
<1>1. \A s \in Seq(Piece), q \in Piece : Elements(Append(s, q)) = Elements(s) \cup {q}
  <2> TAKE s \in Seq(Piece), q \in Piece
  <2>1. /\ Append(s, q) \in Seq(Piece) /\ DOMAIN Append(s, q) = 1..(Len(s) + 1) /\ DOMAIN s = 1..Len(s)
        /\ Len(s) \in Nat /\ Append(s, q)[Len(s) + 1] = q /\ \A i \in 1..Len(s) : Append(s, q)[i] = s[i]
    BY AppendProperties
  <2>2. 1..(Len(s) + 1) = 1..Len(s) \cup {Len(s) + 1}
    BY <2>1
  <2> QED BY <2>1, <2>2, Zenon DEF Elements
<1>2. \A s \in Seq(Piece) : s # <<>> => Elements(s) = {Head(s)} \cup Elements(Tail(s))
  <2> SUFFICES ASSUME NEW s \in Seq(Piece), s # <<>>
               PROVE  Elements(s) = {Head(s)} \cup Elements(Tail(s))
    OBVIOUS
  <2>1. /\ Len(s) \in Nat /\ DOMAIN s = 1..Len(s) /\ Tail(s) \in Seq(Piece) /\ Head(s) = s[1]
        /\ Len(Tail(s)) = Len(s) - 1 /\ \A i \in 1..(Len(s) - 1) : Tail(s)[i] = s[i + 1]
    BY HeadTailProperties
  <2>2. Len(s) # 0 /\ DOMAIN Tail(s) = 1..(Len(s) - 1)
    BY <2>1, EmptySeq
  <2>3. ASSUME NEW x \in Elements(s) PROVE x = Head(s) \/ x \in Elements(Tail(s))
    <3>1. PICK i \in 1..Len(s) : x = s[i]
      BY <2>1, <2>3 DEF Elements
    <3>2. CASE i = 1
      BY <3>1, <3>2, <2>1
    <3>3. CASE i # 1
      <4>1. i - 1 \in 1..(Len(s) - 1) /\ i - 1 + 1 = i
        BY <3>3, <2>1
      <4>2. Tail(s)[i - 1] = s[i]
        BY <4>1, <2>1
      <4> QED BY <4>1, <4>2, <2>2, <3>1 DEF Elements
    <3> QED BY <3>2, <3>3
  <2>4. ASSUME NEW x \in Elements(Tail(s)) PROVE x \in Elements(s)
    <3>1. PICK i \in 1..(Len(s) - 1) : x = Tail(s)[i]
      BY <2>2, <2>4 DEF Elements
    <3>2. i + 1 \in 1..Len(s) /\ x = s[i + 1]
      BY <3>1, <2>1
    <3> QED BY <3>2, <2>1 DEF Elements
  <2>5. Head(s) \in Elements(s)
    <3>1. 1 \in 1..Len(s)
      BY <2>1, <2>2
    <3> QED BY <3>1, <2>1 DEF Elements
  <2> QED BY <2>3, <2>4, <2>5
<1>3. \A s, u \in Seq(Piece) : Elements(s \o u) = Elements(s) \cup Elements(u)
  <2> TAKE s \in Seq(Piece), u \in Seq(Piece)
  <2>1. /\ Len(s) \in Nat /\ Len(u) \in Nat /\ DOMAIN s = 1..Len(s) /\ DOMAIN u = 1..Len(u)
        /\ s \o u \in Seq(Piece) /\ Len(s \o u) = Len(s) + Len(u)
        /\ \A i \in 1..(Len(s) + Len(u)) : (s \o u)[i] = IF i <= Len(s) THEN s[i] ELSE u[i - Len(s)]
    BY ConcatProperties
  <2>2. DOMAIN (s \o u) = 1..(Len(s) + Len(u))
    BY <2>1
  <2> HIDE DEF Piece
  <2>3. ASSUME NEW x \in Elements(s \o u) PROVE x \in Elements(s) \/ x \in Elements(u)
    <3>1. PICK i \in 1..(Len(s) + Len(u)) : x = (s \o u)[i]
      BY <2>2, <2>3 DEF Elements
    <3>2. CASE i <= Len(s)
      <4>1. i \in 1..Len(s) /\ x = s[i]
        BY <3>1, <3>2, <2>1
      <4> QED BY <4>1, <2>1 DEF Elements
    <3>3. CASE ~(i <= Len(s))
      <4>1. i - Len(s) \in 1..Len(u)
        BY <3>3, <2>1
      <4>2. x = u[i - Len(s)]
        BY <3>1, <3>3, <2>1
      <4> QED BY <4>1, <4>2, <2>1 DEF Elements
    <3> QED BY <3>2, <3>3
  <2>4. ASSUME NEW x \in Elements(s) PROVE x \in Elements(s \o u)
    <3>1. PICK i \in 1..Len(s) : x = s[i]
      BY <2>1, <2>4 DEF Elements
    <3>2. i \in 1..(Len(s) + Len(u)) /\ i <= Len(s)
      BY <2>1
    <3>3. (s \o u)[i] = x
      BY <3>1, <3>2, <2>1
    <3> QED BY <3>2, <3>3, <2>2 DEF Elements
  <2>5. ASSUME NEW x \in Elements(u) PROVE x \in Elements(s \o u)
    <3>1. PICK i \in 1..Len(u) : x = u[i]
      BY <2>1, <2>5 DEF Elements
    <3>2. i + Len(s) \in 1..(Len(s) + Len(u)) /\ ~(i + Len(s) <= Len(s)) /\ i + Len(s) - Len(s) = i
      BY <2>1
    <3>3. (s \o u)[i + Len(s)] = x
      BY <3>1, <3>2, <2>1
    <3> QED BY <3>2, <3>3, <2>2 DEF Elements
  <2> QED BY <2>3, <2>4, <2>5
<1>4. \A s \in Seq(Piece) : Elements(s) \subseteq Piece
  BY DEF Elements
<1> QED BY <1>1, <1>2, <1>3, <1>4

\* The pieces of a request: the first starts it, none reaches past its end, and
\* together they cover it.
Pieces(P, first, last) ==
  /\ P \in Seq(Piece) /\ P # <<>> /\ Head(P).from = first
  /\ \A q \in Elements(P) : q.from + q.count <= last + 1
  /\ \A k \in first..last : \E q \in Elements(P) : k \in Covers(q)

\* The first of such pieces is sent and the others wait.
Split(h, t, first, last) ==
  \E P : /\ Pieces(P, first, last)
         /\ t = [h EXCEPT !.requests = Append(@, Head(P)),
                          !.last_req = Head(P).from + Head(P).count,
                          !.waiting = @ \o Tail(P)]

\* RequestPieces does that.
LEMMA RequestPiecesFact ==
    \A h, first, last :
      first \in Nat \ {0} /\ last \in Nat /\ first <= last =>
        Split(h, RequestPieces(h, first, last), first, last)
<1> SUFFICES ASSUME NEW h, NEW first \in Nat \ {0}, NEW last \in Nat, first <= last
             PROVE  Split(h, RequestPieces(h, first, last), first, last)
  OBVIOUS
<1> DEFINE n == (last - first) \div Request + 1
           From(i) == first + (i - 1) * Request
           piece == [i \in 1..n |-> LET from == From(i)
                                    IN RetransmitRequest(from, Min({Request, last - from + 1}))]
<1>1. last - first \in Nat /\ n \in Nat /\ n >= 1
  BY Division
<1>2. \A i \in 1..n : From(i) \in Nat \ {0} /\ From(i) <= last
  <2> TAKE i \in 1..n
  <2>1. i - 1 \in Nat /\ (last - first) \div Request \in Nat /\ i - 1 <= (last - first) \div Request
    BY <1>1, Division
  <2>2. (i - 1) * Request \in Nat /\ (i - 1) * Request <= ((last - first) \div Request) * Request
    BY <2>1, Multiples
  <2>3. ((last - first) \div Request) * Request <= last - first
    BY <1>1, Division
  <2>4. ((last - first) \div Request) * Request \in Nat
    BY <2>1, Multiples
  <2> QED BY <2>2, <2>3, <2>4
<1>3. \A i \in 1..n : LET c == Min({Request, last - From(i) + 1})
                      IN c \in Nat \ {0} /\ c <= Request /\ c <= last - From(i) + 1
                           /\ c \in {Request, last - From(i) + 1}
  <2> TAKE i \in 1..n
  <2>1. last - From(i) + 1 \in Nat \ {0} /\ Request \in Nat \ {0}
    BY <1>2, ILinkAssumption
  <2> HIDE DEF From
  <2> QED BY <2>1, MinOfTwo
<1>4. \A i \in 1..n : /\ piece[i] \in Piece /\ piece[i].from = From(i)
                      /\ piece[i].count = Min({Request, last - From(i) + 1})
  <2> HIDE DEF From
  <2> QED BY <1>2, <1>3 DEF RetransmitRequest, Piece
<1>5. piece \in Seq(Piece) /\ Len(piece) = n /\ DOMAIN piece = 1..n
  <2> HIDE DEF From
  <2>1. piece \in [1..n -> Piece]
    BY <1>4
  <2> HIDE DEF piece, n
  <2>2. piece \in Seq(Piece)
    BY <2>1, <1>1
  <2> QED BY <2>1, <2>2, <1>1
<1>6. piece # <<>> /\ Head(piece) = piece[1]
  <2> HIDE DEF piece, n
  <2> QED BY <1>5, <1>1, EmptySeq
<1>7. RequestPieces(h, first, last) =
        [h EXCEPT !.requests = Append(@, piece[1]),
                  !.last_req = piece[1].from + piece[1].count, !.waiting = @ \o Tail(piece)]
  BY DEF RequestPieces
<1>8. Head(piece).from = first
  <2>1. 1 \in 1..n
    BY <1>1
  <2>2. piece[1].from = From(1)
    BY <1>4, <2>1
  <2>3. (1 - 1) * Request = 0
    BY ILinkAssumption
  <2> QED BY <2>2, <2>3, <1>6
<1>9. \A q \in Elements(piece) : q.from + q.count <= last + 1
  <2> SUFFICES ASSUME NEW i \in 1..n PROVE piece[i].from + piece[i].count <= last + 1
    BY <1>5 DEF Elements
  <2> HIDE DEF piece, n
  <2>1. From(i) \in Nat /\ Min({Request, last - From(i) + 1}) \in Nat
    BY <1>2, <1>3
  <2>2. Min({Request, last - From(i) + 1}) <= last - From(i) + 1
    BY <1>3
  <2> HIDE DEF From
  <2> QED BY <1>4, <2>1, <2>2
<1>10. \A k \in first..last : \E q \in Elements(piece) : k \in Covers(q)
  <2> TAKE k \in first..last
  <2> DEFINE i == (k - first) \div Request + 1
  <2>1. k - first \in Nat /\ i - 1 \in Nat /\ i - 1 = (k - first) \div Request
    BY Division
  <2>2. (i - 1) * Request <= k - first /\ k - first < (i - 1) * Request + Request /\ (i - 1) * Request \in Nat
    BY <2>1, Division, Multiples
  <2>3. i \in 1..n
    <3>1. SUFFICES ASSUME (last - first) \div Request < i - 1 PROVE FALSE
      BY <2>1, <1>1, Division
    <3>2. ((last - first) \div Request) * Request + Request <= (i - 1) * Request
      BY <3>1, <2>1, <1>1, Division, Multiples
    <3>3. last - first < ((last - first) \div Request) * Request + Request
      BY <1>1, Division
    <3>4. ((last - first) \div Request) * Request \in Nat
      BY <1>1, Division, Multiples
    <3> HIDE DEF i
    <3> QED BY <3>2, <3>3, <3>4, <2>2, ILinkAssumption
  <2>4. From(i) <= k /\ k < From(i) + Request /\ From(i) \in Nat
    <3> HIDE DEF i
    <3>1. \A x \in Nat : x <= k - first /\ k - first < x + Request =>
            first + x <= k /\ k < first + x + Request /\ first + x \in Nat
      BY ILinkAssumption
    <3> QED BY <2>2, <3>1
  <2>5. piece[i] \in Elements(piece)
    <3> HIDE DEF i, piece, n
    <3> QED BY <2>3, <1>5 DEF Elements
  <2>6. k \in Covers(piece[i])
    <3> HIDE DEF i, piece, n
    <3>1. piece[i].from = From(i) /\ piece[i].count = Min({Request, last - From(i) + 1})
      BY <1>4, <2>3
    <3>2. Min({Request, last - From(i) + 1}) \in {Request, last - From(i) + 1}
      BY <1>3, <2>3
    <3> HIDE DEF From
    <3> QED BY <3>1, <3>2, <2>4, ILinkAssumption DEF Covers
  <2> QED BY <2>5, <2>6
<1>11. Pieces(piece, first, last)
  <2> HIDE DEF piece, n
  <2> QED BY <1>5, <1>6, <1>8, <1>9, <1>10 DEF Pieces
<1> HIDE DEF piece
<1> QED BY <1>6, <1>7, <1>11 DEF Split

-----------------------------------------------------------------------------
(* check_seq *)

\* What check_seq leaves alone.
Rest(h) == <<h.phase, h.pre_register, h.asks, h.NextSeqNo, h.nos, h.canc, h.still,
             h.bus_reject_cnt, h.exec_reject_cnt>>

\* The request that is first in line stays first.
HeadKept(h, t) == h.requests # <<>> => t.requests # <<>> /\ Head(t.requests) = Head(h.requests)

\* The first of a sequence that something is appended to.
LEMMA AppendHead ==
    \A s \in Seq(Piece), q \in Piece :
      /\ Append(s, q) \in Seq(Piece) /\ Append(s, q) # <<>>
      /\ Head(Append(s, q)) = IF s = <<>> THEN q ELSE Head(s)
<1> TAKE s \in Seq(Piece), q \in Piece
<1>1. /\ Append(s, q) \in Seq(Piece) /\ Len(Append(s, q)) = Len(s) + 1 /\ Len(s) \in Nat
      /\ Append(s, q)[Len(s) + 1] = q /\ \A i \in 1..Len(s) : Append(s, q)[i] = s[i]
  BY AppendProperties
<1>2. Append(s, q) # <<>> /\ Head(Append(s, q)) = Append(s, q)[1]
  <2>1. Len(Append(s, q)) # 0
    BY <1>1
  <2>2. Append(s, q) # <<>>
    BY <2>1, EmptySeq
  <2> QED BY <2>2, <1>1, HeadTailProperties
<1>3. CASE s = <<>>
  <2>1. Len(s) = 0
    BY <1>3
  <2> QED BY <2>1, <1>1, <1>2, <1>3
<1>4. CASE s # <<>>
  <2>1. Len(s) # 0 /\ Head(s) = s[1]
    BY <1>4, EmptySeq
  <2>2. 1 \in 1..Len(s)
    BY <2>1, <1>1
  <2> QED BY <2>1, <2>2, <1>1, <1>2, <1>4
<1> QED BY <1>3, <1>4

\* SendWaiting moves a piece from the waiting ones to the requests.
LEMMA SendWaitingFact ==
    ASSUME NEW h \in HandlerState, NEW sn \in Nat
    PROVE  LET t == SendWaiting(h, sn)
           IN /\ t \in HandlerState /\ Rest(t) = Rest(h) /\ HeadKept(h, t)
              /\ t.aborted = h.aborted /\ t.lastseq = h.lastseq /\ t.seen = h.seen
              /\ Held(t) = Held(h)
              /\ t.last_req = h.last_req \/ \E q \in Held(h) : t.last_req = q.from + q.count
              /\ h.waiting = <<>> => t.last_req = h.last_req /\ t.requests = h.requests
<1> DEFINE t == SendWaiting(h, sn)
<1>1. CASE ~(h.waiting # <<>> /\ sn = Head(h.waiting).from - 1)
  <2>1. t = h
    BY <1>1 DEF SendWaiting
  <2> HIDE DEF t
  <2> QED BY <2>1 DEF HeadKept, t
<1>2. CASE h.waiting # <<>> /\ sn = Head(h.waiting).from - 1
  <2> DEFINE q == Head(h.waiting)
  <2>1. h.waiting \in Seq(Piece) /\ h.requests \in Seq(Piece)
    BY DEF HandlerState
  <2>2. q \in Piece /\ Tail(h.waiting) \in Seq(Piece)
    BY <2>1, <1>2, HeadTailProperties
  <2>3. q.from + q.count \in Nat
    BY <2>2 DEF Piece
  <2>4. Append(h.requests, q) \in Seq(Piece)
    BY <2>1, <2>2, AppendHead
  <2>5. t = [h EXCEPT !.requests = Append(@, q), !.last_req = q.from + q.count, !.waiting = Tail(@)]
    BY <1>2 DEF SendWaiting
  <2> HIDE DEF t, q
  <2>6. /\ t \in HandlerState /\ Rest(t) = Rest(h) /\ t.aborted = h.aborted
        /\ t.lastseq = h.lastseq /\ t.seen = h.seen /\ t.requests = Append(h.requests, q)
        /\ t.last_req = q.from + q.count /\ t.waiting = Tail(h.waiting)
    BY <2>5, <2>4, <2>3, <2>2 DEF HandlerState, Rest
  <2>7. HeadKept(h, t)
    BY <2>6, <2>1, <2>2, AppendHead DEF HeadKept
  <2>8. Held(t) = Held(h)
    <3>1. Elements(t.requests) = Elements(h.requests) \cup {q}
      BY <2>6, <2>1, <2>2, ElementsFact
    <3>2. Elements(h.waiting) = {q} \cup Elements(t.waiting)
      BY <2>6, <2>1, <1>2, ElementsFact DEF q
    <3> QED BY <3>1, <3>2 DEF Held
  <2>9. q \in Held(h)
    BY <2>1, <1>2, ElementsFact DEF Held, q
  <2> QED BY <1>2, <2>6, <2>7, <2>8, <2>9 DEF t
<1> QED BY <1>1, <1>2

\* What RequestGap does about the gap before sn.
LEMMA RequestGapFact ==
    ASSUME NEW h \in HandlerState, NEW sn \in Nat, sn > h.lastseq + 1, sn - 1 \notin h.seen
    PROVE  LET t == RequestGap(h, sn)
           IN /\ t \in HandlerState /\ Rest(t) = Rest(h) /\ HeadKept(h, t)
              /\ t.lastseq = h.lastseq /\ t.seen = h.seen
              /\ \A M \in Nat : Within(h, M) /\ sn <= M => Within(t, M)
              /\ \A M, n \in Nat : Within(h, M) /\ M < n /\ n < sn => n \in Requested(t)
              /\ h.last_req = 0 /\ h.requests = <<>> =>
                   /\ t.aborted = h.aborted /\ t.requests # <<>>
                   /\ Head(t.requests).from = h.lastseq + 1
              /\ t.aborted /\ ~h.aborted => h.last_req # 0 /\ \A n \in h.seen : n >= sn
<1> DEFINE t == RequestGap(h, sn)
           adj == Max({h.lastseq, h.last_req})
<1>1. /\ h.lastseq \in Nat /\ h.last_req \in Nat /\ h.seen \in SUBSET Nat
      /\ h.requests \in Seq(Piece) /\ h.waiting \in Seq(Piece)
  BY DEF HandlerState
<1>2. adj \in {h.lastseq, h.last_req} /\ h.lastseq <= adj /\ h.last_req <= adj /\ adj \in Nat
  BY <1>1, MaxOfTwo
<1>3. Held(h) \subseteq Piece
  BY <1>1, ElementsFact DEF Held
<1>4. t = IF sn <= adj + 1 THEN GapWithinGap(h, sn) ELSE RequestPieces(h, adj + 1, sn - 1)
  BY DEF RequestGap
<1> HIDE DEF t, adj
<1>5. CASE sn <= adj + 1
  <2> DEFINE smaller == {n \in h.seen : n < sn}
             from == Max(smaller) + 1
             q == RetransmitRequest(from, sn - from)
  <2>0. h.last_req # 0 /\ h.last_req > h.lastseq /\ \A M \in Nat : Within(h, M) => sn <= M + 1
    <3>1. adj = h.last_req /\ h.last_req > h.lastseq
      BY <1>1, <1>2, <1>5
    <3> QED BY <3>1, <1>1, <1>5 DEF Within
  <2>1. CASE smaller = {}
    <3>1. t = [h EXCEPT !.aborted = TRUE]
      BY <1>4, <1>5, <2>1 DEF GapWithinGap
    <3>2. /\ t \in HandlerState /\ Rest(t) = Rest(h) /\ t.lastseq = h.lastseq /\ t.seen = h.seen
          /\ t.requests = h.requests /\ t.waiting = h.waiting /\ t.last_req = h.last_req
      BY <3>1 DEF HandlerState, Rest
    <3>3. \A M \in Nat : Within(h, M) => Within(t, M)
      BY <3>2 DEF Within, Held
    <3>4. \A n \in h.seen : n >= sn
      BY <2>1, <1>1
    <3>5. \A M, n \in Nat : Within(h, M) => ~(M < n /\ n < sn)
      BY <2>0
    <3> QED BY <2>0, <3>2, <3>3, <3>4, <3>5 DEF HeadKept, t
  <2>2. CASE smaller # {}
    <3>1. smaller \in SUBSET Nat /\ \A n \in smaller : n <= sn
      BY <1>1
    <3>2. Max(smaller) \in smaller
      <4> HIDE DEF smaller
      <4> QED BY <3>1, <2>2, MaxFact
    <3>3. Max(smaller) \in Nat /\ Max(smaller) < sn - 1
      <4>1. Max(smaller) \in h.seen /\ Max(smaller) < sn
        BY <3>2
      <4> HIDE DEF smaller
      <4>2. Max(smaller) # sn - 1
        BY <4>1
      <4> QED BY <4>1, <4>2, <1>1
    <3>4. t = [h EXCEPT !.requests = Append(@, q)]
      BY <1>4, <1>5, <2>2 DEF GapWithinGap
    <3> HIDE DEF smaller
    <3>5. q \in Piece /\ q.from + q.count = sn
      BY <3>3 DEF RetransmitRequest, Piece
    <3> HIDE DEF q
    <3>6. Append(h.requests, q) \in Seq(Piece)
      BY <1>1, <3>5, AppendHead
    <3>7. /\ t \in HandlerState /\ Rest(t) = Rest(h) /\ t.lastseq = h.lastseq /\ t.seen = h.seen
          /\ t.requests = Append(h.requests, q) /\ t.waiting = h.waiting /\ t.last_req = h.last_req
          /\ t.aborted = h.aborted
      BY <3>4, <3>6 DEF HandlerState, Rest
    <3>8. Held(t) = Held(h) \cup {q}
      BY <3>7, <3>5, <1>1, ElementsFact DEF Held
    <3>9. \A M \in Nat : Within(h, M) /\ sn <= M => Within(t, M)
      BY <3>5, <3>7, <3>8 DEF Within
    <3>10. \A M, n \in Nat : Within(h, M) => ~(M < n /\ n < sn)
      BY <2>0
    <3>11. HeadKept(h, t)
      BY <3>5, <3>7, <1>1, AppendHead DEF HeadKept
    <3> QED BY <2>0, <3>7, <3>9, <3>10, <3>11 DEF t
  <2> QED BY <2>1, <2>2
<1>6. CASE ~(sn <= adj + 1)
  <2>1. adj + 1 \in Nat \ {0} /\ sn - 1 \in Nat /\ adj + 1 <= sn - 1
    BY <1>2, <1>6
  <2>2. t = RequestPieces(h, adj + 1, sn - 1)
    BY <1>4, <1>6
  <2>3. PICK P : /\ Pieces(P, adj + 1, sn - 1)
                 /\ t = [h EXCEPT !.requests = Append(@, Head(P)),
                                  !.last_req = Head(P).from + Head(P).count,
                                  !.waiting = @ \o Tail(P)]
    <3>1. Split(h, t, adj + 1, sn - 1)
      BY <2>1, <2>2, RequestPiecesFact
    <3> QED BY <3>1 DEF Split
  <2>4. P \in Seq(Piece) /\ P # <<>> /\ Head(P).from = adj + 1
    BY <2>3 DEF Pieces
  <2>5. Head(P) \in Piece /\ Tail(P) \in Seq(Piece)
    BY <2>4, HeadTailProperties
  <2>6. Append(h.requests, Head(P)) \in Seq(Piece) /\ h.waiting \o Tail(P) \in Seq(Piece)
    BY <2>5, <1>1, AppendHead, ConcatProperties
  <2>7. Head(P).from + Head(P).count \in Nat
    BY <2>5 DEF Piece
  <2>8. /\ t \in HandlerState /\ Rest(t) = Rest(h) /\ t.lastseq = h.lastseq /\ t.seen = h.seen
        /\ t.requests = Append(h.requests, Head(P)) /\ t.waiting = h.waiting \o Tail(P)
        /\ t.last_req = Head(P).from + Head(P).count /\ t.aborted = h.aborted
    BY <2>3, <2>6, <2>7 DEF HandlerState, Rest
  <2>9. Held(t) = Held(h) \cup Elements(P)
    <3>1. Elements(t.requests) = Elements(h.requests) \cup {Head(P)}
      BY <2>8, <2>5, <1>1, ElementsFact
    <3>2. Elements(h.waiting \o Tail(P)) = Elements(h.waiting) \cup Elements(Tail(P))
      BY <2>5, <1>1, ElementsFact, Zenon
    <3>3. Elements(P) = {Head(P)} \cup Elements(Tail(P))
      BY <2>4, ElementsFact
    <3> QED BY <3>1, <3>2, <3>3, <2>8 DEF Held
  <2>10. \A q \in Elements(P) : q \in Piece /\ q.from + q.count <= sn
    <3>1. \A q \in Elements(P) : q \in Piece /\ q.from + q.count <= sn - 1 + 1
      BY <2>3, <2>4, ElementsFact DEF Pieces
    <3>2. sn - 1 + 1 = sn
      OBVIOUS
    <3> QED BY <3>1, <3>2
  <2>11. Head(P) \in Elements(P)
    BY <2>4, ElementsFact
  <2>12. \A M \in Nat : Within(h, M) /\ sn <= M => Within(t, M)
    <3> SUFFICES ASSUME NEW M \in Nat, Within(h, M), sn <= M PROVE Within(t, M)
      OBVIOUS
    <3>1. \A q \in Elements(P) : q.from + q.count <= M
      <4> SUFFICES ASSUME NEW q \in Elements(P) PROVE q.from + q.count <= M
        OBVIOUS
      <4>1. q.from + q.count <= sn /\ q.from + q.count \in Nat
        BY <2>10 DEF Piece
      <4> QED BY <4>1
    <3> QED BY <3>1, <2>8, <2>9, <2>11 DEF Within
  <2>13. \A M, n \in Nat : Within(h, M) /\ M < n /\ n < sn => n \in Requested(t)
    <3> SUFFICES ASSUME NEW M \in Nat, NEW n \in Nat, Within(h, M), M < n, n < sn
                 PROVE  n \in Requested(t)
      OBVIOUS
    <3>1. adj <= M
      BY <1>2 DEF Within
    <3>2. n \in (adj + 1)..(sn - 1)
      BY <3>1, <1>2
    <3>3. PICK q \in Elements(P) : n \in Covers(q)
      BY <3>2, <2>3 DEF Pieces
    <3>4. q \in Held(t)
      BY <2>9
    <3> QED BY <3>3, <3>4 DEF Requested, Held, Elements
  <2>14. HeadKept(h, t)
    BY <2>5, <2>8, <1>1, AppendHead DEF HeadKept
  <2>15. h.last_req = 0 /\ h.requests = <<>> => t.requests # <<>> /\ Head(t.requests).from = h.lastseq + 1
    <3>1. h.last_req = 0 => adj = h.lastseq
      BY <1>1, <1>2
    <3> QED BY <3>1, <2>4, <2>5, <2>8, <1>1, AppendHead
  <2> QED BY <2>8, <2>12, <2>13, <2>14, <2>15 DEF t
<1> QED BY <1>5, <1>6

\* check_seq finds no number below sn to start its request from.
Stuck(h, sn) ==
  /\ sn > h.lastseq + 1 /\ (\A n \in h.seen : n >= sn)
  /\ h.last_req # 0 \/ h.waiting # <<>>

\* What check_seq has done about sn when it returns.
Passed(h, t, sn, busmessage) ==
  /\ \A M \in Nat : Within(h, M) /\ sn <= M => Within(t, M)
  /\ busmessage => \A M, n \in Nat : Within(h, M) /\ M < n /\ n < sn => n \in Requested(t)
  /\ t.seen = h.seen \cup {sn}
  /\ t.lastseq = IF sn <= h.lastseq + 1 THEN sn ELSE h.lastseq
  /\ HeadKept(h, t)
  /\ busmessage /\ Clean(h) /\ sn > h.lastseq + 1 =>
       t.requests # <<>> /\ Head(t.requests).from = h.lastseq + 1

\* check_seq either stops the process, stuck, or has passed the number.
LEMMA CheckSeqFact ==
    \A h \in HandlerState, sn \in Nat, b \in BOOLEAN :
      ~h.aborted =>
        LET t == check_seq(h, sn, b)
        IN /\ t \in HandlerState /\ Rest(t) = Rest(h)
           /\ t.aborted => b /\ Stuck(h, sn)
           /\ ~t.aborted => Passed(h, t, sn, b)
<1> SUFFICES ASSUME NEW h \in HandlerState, NEW sn \in Nat, NEW b \in BOOLEAN, ~h.aborted
             PROVE  LET t == check_seq(h, sn, b)
                    IN /\ t \in HandlerState /\ Rest(t) = Rest(h)
                       /\ t.aborted => b /\ Stuck(h, sn)
                       /\ ~t.aborted => Passed(h, t, sn, b)
  OBVIOUS
<1> DEFINE t == check_seq(h, sn, b)
           h1 == IF b THEN SendWaiting(h, sn) ELSE h
           gap == sn - 1 \notin h.seen
           h2 == IF sn <= h.lastseq + 1 THEN [h1 EXCEPT !.lastseq = sn]
                 ELSE IF gap /\ b THEN RequestGap(h1, sn) ELSE h1
<1>1. t = IF h2.aborted THEN h2 ELSE [h2 EXCEPT !.seen = @ \cup {sn}]
  BY DEF check_seq
<1>2. /\ h.lastseq \in Nat /\ h.last_req \in Nat /\ h.seen \in SUBSET Nat
      /\ h.requests \in Seq(Piece) /\ h.waiting \in Seq(Piece)
  BY DEF HandlerState
<1>3. /\ h1 \in HandlerState /\ Rest(h1) = Rest(h) /\ HeadKept(h, h1)
      /\ h1.aborted = h.aborted /\ h1.lastseq = h.lastseq /\ h1.seen = h.seen
      /\ Held(h1) = Held(h)
      /\ h1.last_req = h.last_req \/ \E q \in Held(h) : h1.last_req = q.from + q.count
      /\ h.waiting = <<>> => h1.last_req = h.last_req /\ h1.requests = h.requests
  <2>1. CASE b
    BY <2>1, SendWaitingFact
  <2>2. CASE ~b
    BY <2>2 DEF HeadKept
  <2> QED BY <2>1, <2>2
<1> HIDE DEF h1
<1>4. \A M \in Nat : Within(h, M) => Within(h1, M)
  BY <1>3 DEF Within
\* h2, before sn is added to the numbers seen
<1> DEFINE New ==
             /\ \A M \in Nat : Within(h, M) /\ sn <= M => Within(h2, M)
             /\ b => \A M, n \in Nat : Within(h, M) /\ M < n /\ n < sn => n \in Requested(h2)
             /\ h2.lastseq = IF sn <= h.lastseq + 1 THEN sn ELSE h.lastseq
             /\ HeadKept(h, h2)
             /\ b /\ Clean(h) /\ sn > h.lastseq + 1 =>
                  h2.requests # <<>> /\ Head(h2.requests).from = h.lastseq + 1
<1>5. /\ h2 \in HandlerState /\ Rest(h2) = Rest(h) /\ h2.seen = h.seen
      /\ h2.aborted => b /\ Stuck(h, sn)
      /\ ~h2.aborted => New
  <2>1. CASE sn <= h.lastseq + 1
    <3>1. h2 = [h1 EXCEPT !.lastseq = sn]
      BY <2>1
    <3> HIDE DEF h2
    <3>2. /\ h2 \in HandlerState /\ Rest(h2) = Rest(h) /\ h2.seen = h.seen /\ h2.lastseq = sn
          /\ h2.requests = h1.requests /\ h2.waiting = h1.waiting /\ h2.last_req = h1.last_req
          /\ h2.aborted = h.aborted
      BY <3>1, <1>3 DEF HandlerState, Rest
    <3>3. \A M \in Nat : Within(h1, M) /\ sn <= M => Within(h2, M)
      BY <3>2, <1>3 DEF Within, Held
    <3>4. \A M, n \in Nat : Within(h, M) => ~(M < n /\ n < sn)
      BY <2>1, <1>2 DEF Within
    <3>5. HeadKept(h, h2)
      BY <3>2, <1>3 DEF HeadKept
    <3>6. ~(sn > h.lastseq + 1)
      BY <2>1, <1>2
    <3> QED BY <2>1, <3>2, <3>3, <3>4, <3>5, <3>6, <1>4
  <2>2. CASE ~(sn <= h.lastseq + 1) /\ gap /\ b
    <3>1. h2 = RequestGap(h1, sn)
      BY <2>2
    <3>2. sn > h1.lastseq + 1 /\ sn - 1 \notin h1.seen
      BY <2>2, <1>2, <1>3
    <3> HIDE DEF h2
    <3>3. /\ h2 \in HandlerState /\ Rest(h2) = Rest(h1) /\ HeadKept(h1, h2)
          /\ h2.lastseq = h1.lastseq /\ h2.seen = h1.seen
          /\ \A M \in Nat : Within(h1, M) /\ sn <= M => Within(h2, M)
          /\ \A M, n \in Nat : Within(h1, M) /\ M < n /\ n < sn => n \in Requested(h2)
          /\ h1.last_req = 0 /\ h1.requests = <<>> =>
               /\ h2.aborted = h1.aborted /\ h2.requests # <<>>
               /\ Head(h2.requests).from = h1.lastseq + 1
          /\ h2.aborted /\ ~h1.aborted => h1.last_req # 0 /\ \A n \in h1.seen : n >= sn
      BY <3>1, <3>2, <1>3, RequestGapFact
    <3>4. HeadKept(h, h2)
      BY <3>3, <1>3 DEF HeadKept
    <3>5. h2.aborted => Stuck(h, sn)
      BY <3>2, <3>3, <1>3 DEF Stuck
    <3>6. Clean(h) => h2.requests # <<>> /\ Head(h2.requests).from = h.lastseq + 1
      BY <3>3, <1>3 DEF Clean
    <3> QED BY <2>2, <3>3, <3>4, <3>5, <3>6, <1>3, <1>4
  <2>3. CASE ~(sn <= h.lastseq + 1) /\ ~(gap /\ b)
    <3>1. h2 = h1
      BY <2>3
    <3> HIDE DEF h2
    <3>2. b => \A M, n \in Nat : Within(h, M) => ~(M < n /\ n < sn)
      BY <2>3, <1>2 DEF Within
    <3>3. ~(b /\ Clean(h))
      BY <2>3 DEF Clean
    <3>4. \A M \in Nat : Within(h, M) => Within(h2, M)
      BY <3>1, <1>4
    <3> QED BY <2>3, <3>1, <3>2, <3>3, <3>4, <1>3
  <2> QED BY <2>1, <2>2, <2>3
<1> HIDE DEF h2
<1>6. CASE h2.aborted
  BY <1>1, <1>5, <1>6 DEF t
<1>7. CASE ~h2.aborted
  <2>1. t = [h2 EXCEPT !.seen = @ \cup {sn}]
    BY <1>1, <1>7
  <2> HIDE DEF t
  <2>2. h2.seen \cup {sn} \in SUBSET Nat
    BY <1>2, <1>5
  <2>3. /\ t \in HandlerState /\ Rest(t) = Rest(h) /\ t.seen = h.seen \cup {sn} /\ t.lastseq = h2.lastseq
        /\ t.requests = h2.requests /\ t.waiting = h2.waiting /\ t.last_req = h2.last_req
        /\ t.aborted = h2.aborted
    BY <2>1, <2>2, <1>5 DEF HandlerState, Rest
  <2>4. Held(t) = Held(h2) /\ Requested(t) = Requested(h2)
    BY <2>3 DEF Held, Requested
  <2>5. \A M \in Nat : Within(h, M) /\ sn <= M => Within(t, M)
    BY <2>3, <2>4, <1>5, <1>7 DEF Within
  <2>6. Passed(h, t, sn, b)
    BY <2>3, <2>4, <2>5, <1>5, <1>7 DEF Passed, HeadKept
  <2> QED BY <2>3, <2>6, <1>7 DEF t
<1> QED BY <1>6, <1>7

-----------------------------------------------------------------------------
(* The reports and their handlers *)

Executions == {"New", "Reject", "Cancel", "Elimination", "Trade", "Unknown"}
Whats == {"Ack", "Reject", "CancAck", "CancReject"}

\* What a report of each kind is.
LEMMA ReportFact ==
    \A r \in Report :
      /\ r.kind \in Executions \cup {"BusinessReject", "CancelReject", "PartyDetailsAck", "PartyDetailsReport"}
      /\ r.kind \in {"New", "Reject", "Cancel", "Elimination", "CancelReject", "Trade"} => r.oid \in Order
      /\ r.kind = "Trade" => r.LeavesQty \in 0..(Size - 1)
      /\ r.kind = "BusinessReject" => r.of \in Refusable /\ r.BusinessRejectRefID \in Nat
      /\ r.kind = "PartyDetailsReport" => r = PartyDetailsReport
      /\ r.kind = "Reject" => r = ExecutionReportReject(r.oid)
      /\ r.kind = "CancelReject" => r = OrderCancelReject(r.oid)
      /\ r.kind = "Cancel" => r = ExecutionReportCancel(r.oid)
      /\ r.kind = "Elimination" => r = ExecutionReportElimination(r.oid)
<1> TAKE r \in Report
<1> USE DEF Executions, PartyDetailsReport, ExecutionReportReject, OrderCancelReject,
            ExecutionReportCancel, ExecutionReportElimination
<1>1. CASE r \in [kind : {"New", "Reject", "Cancel", "Elimination", "CancelReject"}, oid : Order]
  BY <1>1
<1>2. CASE r \in [kind : {"Trade"}, oid : Order, LeavesQty : 0..(Size - 1)]
  BY <1>2
<1>3. CASE r \in [kind : {"PartyDetailsAck", "PartyDetailsReport", "Unknown"}]
  BY <1>3
<1>4. CASE r \in [kind : {"BusinessReject"}, of : Refusable, BusinessRejectRefID : Nat]
  BY <1>4
<1> QED BY <1>1, <1>2, <1>3, <1>4 DEF Report

\* What a report tells the SOM of an order.
Hears(h, r, o, what) ==
  \/ what = "Ack" /\ r.kind = "New" /\ r.oid = o
  \/ what = "CancAck" /\ r.kind \in {"Cancel", "Elimination"} /\ r.oid = o
  \/ what = "Reject" /\ \/ r.kind = "Reject" /\ r.oid = o
                        \/ r.kind = "BusinessReject" /\ <<r.BusinessRejectRefID, o>> \in h.nos
  \/ what = "CancReject" /\ \/ r.kind = "CancelReject" /\ r.oid = o
                            \/ r.kind = "BusinessReject" /\ <<r.BusinessRejectRefID, o>> \in h.canc

\* The SOM after a report: what it has heard and what it counts as filled.
Heard(h, s, t, r) ==
  \A o \in Order, what \in Whats : what \in t[o].told <=> what \in s[o].told \/ Hears(h, r, o, what)

Filled(h, s, t, r) ==
  \A o \in Order : t[o].filled =
    IF r.kind = "Trade" /\ r.oid = o /\ h.still[o] - r.LeavesQty > 0
    THEN s[o].filled + (h.still[o] - r.LeavesQty) ELSE s[o].filled

\* The handler after a report that goes through check_seq.
Counted(h) == h.exec_reject_cnt > MaxReject \/ h.bus_reject_cnt > MaxReject

Ends(h, t, sn) ==
  /\ t.aborted => Stuck(h, sn) \/ Counted(t)
  /\ ~t.aborted => Passed(h, t, sn, TRUE)

Keys(h) == <<h.phase, h.pre_register, h.asks, h.NextSeqNo, h.nos, h.canc>>

Opens(h, t, r) ==
  \A o \in Order : t.still[o] = IF r.kind = "Trade" /\ r.oid = o THEN r.LeavesQty ELSE h.still[o]

\* All of it.
Handled(h, s, th, ts, r, sn) ==
  /\ th \in HandlerState /\ ts \in [Order -> Verdict]
  /\ Keys(th) = Keys(h) /\ Opens(h, th, r) /\ Ends(h, th, sn)
  /\ Filled(h, s, ts, r) /\ (~th.aborted => Heard(h, s, ts, r))

\* What the SOM has after Tell.
LEMMA TellFact ==
    \A s \in [Order -> Verdict], o \in Order, what \in Whats :
      /\ Tell(s, o, what) \in [Order -> Verdict]
      /\ \A p \in Order : Tell(s, o, what)[p].filled = s[p].filled
      /\ \A p \in Order, w \in Whats :
           w \in Tell(s, o, what)[p].told <=> w \in s[p].told \/ (w = what /\ p = o)
BY DEF Tell, Verdict, Whats

\* check_seq looks at the numbers of a handler only.
SameNumbers(h, g) ==
  /\ h.lastseq = g.lastseq /\ h.last_req = g.last_req /\ h.waiting = g.waiting
  /\ h.seen = g.seen /\ h.requests = g.requests

\* So check_seq does the same to two handlers with the same numbers.
LEMMA SameNumbersFact ==
    \A h, g, t, sn, b :
      SameNumbers(h, g) => /\ Stuck(g, sn) => Stuck(h, sn)
                           /\ Passed(g, t, sn, b) => Passed(h, t, sn, b)
<1> SUFFICES ASSUME NEW h, NEW g, NEW t, NEW sn, NEW b, SameNumbers(h, g)
             PROVE  /\ Stuck(g, sn) => Stuck(h, sn)
                    /\ Passed(g, t, sn, b) => Passed(h, t, sn, b)
  OBVIOUS
<1>1. Stuck(g, sn) => Stuck(h, sn)
  BY DEF Stuck, SameNumbers
<1>2. \A M : Within(h, M) <=> Within(g, M)
  BY DEF Within, Held, SameNumbers
<1>3. Clean(h) <=> Clean(g)
  BY DEF Clean, SameNumbers
<1>4. HeadKept(g, t) => HeadKept(h, t)
  BY DEF HeadKept, SameNumbers
<1> QED BY <1>1, <1>2, <1>3, <1>4 DEF Passed, SameNumbers

\* executionReport handles the reports of its kinds.
LEMMA ExecutionFact ==
    \A h \in HandlerState, s \in [Order -> Verdict], r \in Report, sn \in Nat :
      ~h.aborted /\ r.kind \in Executions =>
        LET done == executionReport(h, s, r, sn) IN Handled(h, s, done.h, done.s, r, sn)
<1> SUFFICES ASSUME NEW h \in HandlerState, NEW s \in [Order -> Verdict], NEW r \in Report,
                    NEW sn \in Nat, ~h.aborted, r.kind \in Executions
             PROVE  LET done == executionReport(h, s, r, sn) IN Handled(h, s, done.h, done.s, r, sn)
  OBVIOUS
<1> DEFINE first ==
             CASE r.kind = "New"         -> [h |-> h, s |-> Tell(s, r.oid, "Ack")]
               [] r.kind = "Reject"      -> OnReject(h, s, r)
               [] r.kind \in {"Cancel", "Elimination"}
                                         -> [h |-> h, s |-> Tell(s, r.oid, "CancAck")]
               [] r.kind = "Trade"       -> OnTrade(h, s, r)
               [] r.kind = "Unknown"     -> [h |-> h, s |-> s]
           done == executionReport(h, s, r, sn)
<1>1. done = IF first.h.aborted THEN first ELSE [first EXCEPT !.h = check_seq(@, sn, TRUE)]
  BY DEF executionReport
<1>2. /\ r.kind \in {"New", "Reject", "Cancel", "Elimination", "Trade"} => r.oid \in Order
      /\ r.kind = "Trade" => r.LeavesQty \in 0..(Size - 1)
  BY ReportFact
\* what is done before the number is checked
<1>3. /\ first = [h |-> first.h, s |-> first.s]
      /\ first.h \in HandlerState /\ SameNumbers(h, first.h) /\ Keys(first.h) = Keys(h)
      /\ first.h.aborted => Counted(first.h)
      /\ first.s \in [Order -> Verdict] /\ Opens(h, first.h, r)
      /\ Filled(h, s, first.s, r) /\ Heard(h, s, first.s, r)
  <2>1. CASE r.kind = "Trade"
    <3> DEFINE amt == h.still[r.oid] - r.LeavesQty
               g == [h EXCEPT !.still[r.oid] = r.LeavesQty]
               u == IF amt > 0 THEN [s EXCEPT ![r.oid].filled = @ + amt] ELSE s
    <3>1. first = [h |-> g, s |-> u]
      BY <2>1 DEF OnTrade
    <3>2. h.still \in [Order -> 0..Size] /\ r.LeavesQty \in 0..Size
      BY <2>1, <1>2, ILinkAssumption DEF HandlerState
    <3>3. [h.still EXCEPT ![r.oid] = r.LeavesQty] \in [Order -> 0..Size]
      BY <3>2, <2>1, <1>2
    <3>4. /\ g \in HandlerState /\ SameNumbers(h, g) /\ Keys(g) = Keys(h) /\ g.aborted = h.aborted
          /\ g.still = [h.still EXCEPT ![r.oid] = r.LeavesQty]
      BY <3>3 DEF HandlerState, SameNumbers, Keys
    <3>5. Opens(h, g, r)
      BY <3>2, <3>4, <2>1, <1>2 DEF Opens
    <3>6. amt \in Int /\ (amt > 0 => amt \in Nat)
      BY <3>2, <2>1, <1>2, ILinkAssumption
    <3>7. u \in [Order -> Verdict] /\ \A o \in Order : u[o].told = s[o].told
      <4>1. CASE amt > 0
        <5>1. s[r.oid] \in Verdict /\ s[r.oid].filled + amt \in Nat
          BY <3>6, <4>1, <2>1, <1>2 DEF Verdict
        <5> HIDE DEF amt
        <5> QED BY <4>1, <5>1, <2>1, <1>2 DEF Verdict
      <4>2. CASE ~(amt > 0)
        BY <4>2
      <4> QED BY <4>1, <4>2
    <3>8. Filled(h, s, u, r)
      BY <2>1, <1>2 DEF Filled, Verdict
    <3>9. Heard(h, s, u, r)
      BY <3>7, <2>1 DEF Heard, Hears
    <3>10. first.h = g /\ first.s = u /\ first = [h |-> first.h, s |-> first.s]
      <4> HIDE DEF g, u, first
      <4> QED BY <3>1
    <3> HIDE DEF g, u, first
    <3> QED BY <3>4, <3>5, <3>7, <3>8, <3>9, <3>10
  <2>2. CASE r.kind = "Reject"
    <3> DEFINE g == [h EXCEPT !.exec_reject_cnt = @ + 1, !.aborted = h.exec_reject_cnt > MaxReject]
               u == Tell(s, r.oid, "Reject")
    <3>1. first = [h |-> g, s |-> u]
      BY <2>2 DEF OnReject
    <3>2. h.exec_reject_cnt \in Nat /\ h.exec_reject_cnt + 1 \in Nat /\ MaxReject \in Nat
      BY ILinkAssumption DEF HandlerState
    <3>3. (h.exec_reject_cnt > MaxReject) \in BOOLEAN
      OBVIOUS
    <3>4. /\ g \in HandlerState /\ SameNumbers(h, g) /\ Keys(g) = Keys(h)
          /\ g.aborted => h.exec_reject_cnt > MaxReject
          /\ g.exec_reject_cnt = h.exec_reject_cnt + 1
          /\ g.still = h.still
      BY <3>2, <3>3 DEF HandlerState, SameNumbers, Keys
    <3> HIDE DEF g
    <3>5. g.aborted => Counted(g)
      BY <3>2, <3>4 DEF Counted
    <3>6. u \in [Order -> Verdict] /\ Filled(h, s, u, r)
      BY <2>2, <1>2, TellFact DEF Filled, Whats
    <3>7. Heard(h, s, u, r)
      BY <2>2, <1>2, TellFact DEF Heard, Hears, Whats
    <3>8. Opens(h, g, r)
      BY <3>4, <2>2 DEF Opens
    <3>9. first.h = g /\ first.s = u /\ first = [h |-> first.h, s |-> first.s]
      <4> HIDE DEF u, first
      <4> QED BY <3>1
    <3> HIDE DEF u, first
    <3> QED BY <3>4, <3>5, <3>6, <3>7, <3>8, <3>9
  <2>3. CASE r.kind \in {"New", "Cancel", "Elimination", "Unknown"}
    <3> DEFINE u == IF r.kind = "Unknown" THEN s
                    ELSE Tell(s, r.oid, IF r.kind = "New" THEN "Ack" ELSE "CancAck")
    <3>1. first = [h |-> h, s |-> u]
      BY <2>3
    <3>2. u \in [Order -> Verdict] /\ Filled(h, s, u, r)
      BY <2>3, <1>2, TellFact DEF Filled, Whats
    <3>3. Heard(h, s, u, r)
      BY <2>3, <1>2, TellFact DEF Heard, Hears, Whats
    <3>4. Opens(h, h, r)
      BY <2>3 DEF Opens
    <3>5. first.h = h /\ first.s = u /\ first = [h |-> first.h, s |-> first.s]
      <4> HIDE DEF u, first
      <4> QED BY <3>1
    <3> HIDE DEF u, first
    <3> QED BY <3>2, <3>3, <3>4, <3>5 DEF SameNumbers
  <2> QED BY <2>1, <2>2, <2>3 DEF Executions
<1> HIDE DEF first
<1>4. CASE first.h.aborted
  <2>1. done = first
    BY <1>1, <1>4
  <2>2. Ends(h, first.h, sn)
    BY <1>3, <1>4 DEF Ends
  <2> QED BY <2>1, <2>2, <1>3 DEF Handled, done
<1>5. CASE ~first.h.aborted
  <2> DEFINE g == first.h
             t == check_seq(g, sn, TRUE)
  <2>1. done.h = t /\ done.s = first.s
    BY <1>1, <1>3, <1>5
  <2>2. /\ t \in HandlerState /\ Rest(t) = Rest(g)
        /\ t.aborted => Stuck(g, sn)
        /\ ~t.aborted => Passed(g, t, sn, TRUE)
    BY <1>3, <1>5, CheckSeqFact
  <2> HIDE DEF t, done
  <2>3. Keys(t) = Keys(h) /\ t.still = g.still
    BY <2>2, <1>3 DEF Rest, Keys
  <2>4. Opens(h, t, r)
    BY <2>3, <1>3 DEF Opens
  <2>5. Ends(h, t, sn)
    BY <2>2, <1>3, SameNumbersFact DEF Ends
  <2> QED BY <2>1, <2>2, <2>3, <2>4, <2>5, <1>3 DEF Handled, done
<1> QED BY <1>4, <1>5

\* cancelReject handles a refused cancel.
LEMMA CancelRejectFact ==
    \A h \in HandlerState, s \in [Order -> Verdict], r \in Report, sn \in Nat :
      ~h.aborted /\ r.kind = "CancelReject" =>
        LET done == cancelReject(h, s, r, sn) IN Handled(h, s, done.h, done.s, r, sn)
<1> SUFFICES ASSUME NEW h \in HandlerState, NEW s \in [Order -> Verdict], NEW r \in Report,
                    NEW sn \in Nat, ~h.aborted, r.kind = "CancelReject"
             PROVE  LET done == cancelReject(h, s, r, sn) IN Handled(h, s, done.h, done.s, r, sn)
  OBVIOUS
<1> DEFINE t == check_seq(h, sn, TRUE)
           u == Tell(s, r.oid, "CancReject")
<1>1. /\ t \in HandlerState /\ Rest(t) = Rest(h)
      /\ t.aborted => Stuck(h, sn)
      /\ ~t.aborted => Passed(h, t, sn, TRUE)
  BY CheckSeqFact
<1>2. r.oid \in Order
  BY ReportFact
<1>3. u \in [Order -> Verdict] /\ Filled(h, s, u, r)
  BY <1>2, TellFact DEF Filled, Whats
<1>4. Heard(h, s, u, r)
  BY <1>2, TellFact DEF Heard, Hears, Whats
<1>5. cancelReject(h, s, r, sn) = [h |-> t, s |-> u]
  BY DEF cancelReject
<1> HIDE DEF t, u
<1>6. Keys(t) = Keys(h) /\ Opens(h, t, r) /\ Ends(h, t, sn)
  BY <1>1 DEF Rest, Keys, Opens, Ends
<1> QED BY <1>1, <1>3, <1>4, <1>5, <1>6 DEF Handled

\* businessReject handles a refused order or cancel.
LEMMA BusinessRejectFact ==
    \A h \in HandlerState, s \in [Order -> Verdict], r \in Report, sn \in Nat :
      ~h.aborted /\ r.kind = "BusinessReject" =>
        LET done == businessReject(h, s, r, sn) IN Handled(h, s, done.h, done.s, r, sn)
<1> SUFFICES ASSUME NEW h \in HandlerState, NEW s \in [Order -> Verdict], NEW r \in Report,
                    NEW sn \in Nat, ~h.aborted, r.kind = "BusinessReject"
             PROVE  LET done == businessReject(h, s, r, sn) IN Handled(h, s, done.h, done.s, r, sn)
  OBVIOUS
<1> DEFINE h1 == check_seq(h, sn, TRUE)
           t == [h1 EXCEPT !.bus_reject_cnt = @ + 1, !.aborted = @ \/ h1.bus_reject_cnt > MaxReject]
           refused(pairs, what) ==
             [o \in Order |-> IF <<r.BusinessRejectRefID, o>> \in pairs THEN {what} ELSE {}]
           v == [o \in Order |-> [s[o] EXCEPT !.told =
                    @ \cup refused(h.nos, "Reject")[o] \cup refused(h.canc, "CancReject")[o]]]
           u == IF t.aborted THEN s ELSE v
<1>1. /\ h1 \in HandlerState /\ Rest(h1) = Rest(h)
      /\ h1.aborted => Stuck(h, sn)
      /\ ~h1.aborted => Passed(h, h1, sn, TRUE)
  BY CheckSeqFact
<1>2. businessReject(h, s, r, sn) = [h |-> t, s |-> u]
  BY DEF businessReject
<1> HIDE DEF h1
<1>3. h1.bus_reject_cnt \in Nat /\ h1.bus_reject_cnt + 1 \in Nat /\ MaxReject \in Nat /\ h1.aborted \in BOOLEAN
  BY <1>1, ILinkAssumption DEF HandlerState
<1>4. (h1.aborted \/ h1.bus_reject_cnt > MaxReject) \in BOOLEAN
  OBVIOUS
<1>5. /\ t \in HandlerState /\ SameNumbers(t, h1) /\ Keys(t) = Keys(h1) /\ t.still = h1.still
      /\ t.aborted => h1.aborted \/ h1.bus_reject_cnt > MaxReject
      /\ ~t.aborted => ~h1.aborted
      /\ t.bus_reject_cnt = h1.bus_reject_cnt + 1
  BY <1>1, <1>3, <1>4 DEF HandlerState, SameNumbers, Keys
<1> HIDE DEF t
<1>6. Keys(t) = Keys(h) /\ Opens(h, t, r)
  BY <1>1, <1>5 DEF Rest, Keys, Opens
<1>7. t.aborted => Stuck(h, sn) \/ Counted(t)
  BY <1>1, <1>3, <1>5 DEF Counted
<1>8. ~t.aborted => Passed(h, t, sn, TRUE)
  <2>1. SUFFICES ASSUME ~t.aborted PROVE Passed(h, t, sn, TRUE)
    OBVIOUS
  <2>2. Passed(h, h1, sn, TRUE)
    BY <2>1, <1>1, <1>5
  <2>3. \A M : Within(t, M) <=> Within(h1, M)
    BY <1>5 DEF Within, Held, SameNumbers
  <2>4. Requested(t) = Requested(h1)
    BY <1>5 DEF Requested, SameNumbers
  <2> QED BY <2>2, <2>3, <2>4, <1>5 DEF Passed, HeadKept, SameNumbers
<1>9. \A o \in Order : /\ v[o] \in Verdict /\ v[o].filled = s[o].filled
                       /\ v[o].told = s[o].told
                            \cup (IF <<r.BusinessRejectRefID, o>> \in h.nos THEN {"Reject"} ELSE {})
                            \cup (IF <<r.BusinessRejectRefID, o>> \in h.canc THEN {"CancReject"} ELSE {})
  <2> TAKE o \in Order
  <2>1. s[o] \in Verdict
    OBVIOUS
  <2> QED BY <2>1 DEF Verdict
<1>10. v \in [Order -> Verdict]
  <2>1. v = [o \in Order |-> v[o]]
    OBVIOUS
  <2> HIDE DEF v
  <2> QED BY <2>1, <1>9
<1> HIDE DEF v
<1>11. u \in [Order -> Verdict] /\ Filled(h, s, u, r)
  BY <1>9, <1>10 DEF Filled
<1>12. ~t.aborted => Heard(h, s, u, r)
  <2>1. SUFFICES ASSUME ~t.aborted, NEW o \in Order, NEW what \in Whats
                 PROVE  what \in v[o].told <=> what \in s[o].told \/ Hears(h, r, o, what)
    BY DEF Heard
  <2> QED BY <1>9 DEF Hears, Whats
<1> HIDE DEF u
<1>13. Ends(h, t, sn)
  BY <1>7, <1>8 DEF Ends
<1>14. Handled(h, s, t, u, r, sn)
  BY <1>5, <1>6, <1>11, <1>12, <1>13 DEF Handled
<1> QED BY <1>2, <1>14

\* partyDetailsAck takes the number for the last one; the list is asked for next.
LEMMA PartyDetailsAckFact ==
    \A h \in HandlerState, s \in [Order -> Verdict], sn \in Nat :
      ~h.aborted =>
        LET t == partyDetailsAck(h, s, sn).h
        IN /\ t \in HandlerState /\ ~t.aborted /\ partyDetailsAck(h, s, sn).s = s
           /\ t.phase = h.phase /\ t.nos = h.nos /\ t.canc = h.canc /\ t.still = h.still
           /\ t.NextSeqNo = h.NextSeqNo + 1
           /\ t.asks = Append(h.asks, PartyDetailsListRequest(h.NextSeqNo))
           /\ \A M \in Nat : Within(h, M) /\ sn <= M => Within(t, M)
<1> SUFFICES ASSUME NEW h \in HandlerState, NEW s \in [Order -> Verdict], NEW sn \in Nat, ~h.aborted
             PROVE  LET t == partyDetailsAck(h, s, sn).h
                    IN /\ t \in HandlerState /\ ~t.aborted /\ partyDetailsAck(h, s, sn).s = s
                       /\ t.phase = h.phase /\ t.nos = h.nos /\ t.canc = h.canc /\ t.still = h.still
                       /\ t.NextSeqNo = h.NextSeqNo + 1
                       /\ t.asks = Append(h.asks, PartyDetailsListRequest(h.NextSeqNo))
                       /\ \A M \in Nat : Within(h, M) /\ sn <= M => Within(t, M)
  OBVIOUS
<1> DEFINE g == [h EXCEPT !.lastseq = sn]
           h1 == check_seq(g, sn, TRUE)
           t == [h1 EXCEPT !.asks = Append(@, PartyDetailsListRequest(h1.NextSeqNo)),
                           !.NextSeqNo = @ + 1]
<1>1. /\ g \in HandlerState /\ g.lastseq = sn /\ g.last_req = h.last_req /\ g.waiting = h.waiting
      /\ g.seen = h.seen /\ g.requests = h.requests /\ g.aborted = h.aborted /\ Rest(g) = Rest(h)
  BY DEF HandlerState, Rest
<1>2. partyDetailsAck(h, s, sn) = [h |-> t, s |-> s]
  BY DEF partyDetailsAck
<1> HIDE DEF g
<1>3. /\ h1 \in HandlerState /\ Rest(h1) = Rest(g)
      /\ h1.aborted => Stuck(g, sn)
      /\ ~h1.aborted => Passed(g, h1, sn, TRUE)
  BY <1>1, CheckSeqFact
<1>4. ~Stuck(g, sn)
  BY <1>1 DEF Stuck
<1> HIDE DEF h1
<1>5. h1.NextSeqNo \in Nat /\ h1.NextSeqNo + 1 \in Nat /\ h1.asks \in Seq(Refusable \cup Party)
  BY <1>3 DEF HandlerState
<1>6. PartyDetailsListRequest(h1.NextSeqNo) \in Refusable \cup Party
  BY <1>5 DEF PartyDetailsListRequest, Party
<1>7. Append(h1.asks, PartyDetailsListRequest(h1.NextSeqNo)) \in Seq(Refusable \cup Party)
  BY <1>5, <1>6, AppendProperties
<1>8. /\ t \in HandlerState /\ t.phase = h1.phase /\ t.nos = h1.nos /\ t.canc = h1.canc
      /\ t.still = h1.still /\ t.NextSeqNo = h1.NextSeqNo + 1 /\ t.aborted = h1.aborted
      /\ t.asks = Append(h1.asks, PartyDetailsListRequest(h1.NextSeqNo)) /\ SameNumbers(t, h1)
  BY <1>3, <1>5, <1>7 DEF HandlerState, SameNumbers
<1> HIDE DEF t
<1>9. \A M \in Nat : Within(h, M) /\ sn <= M => Within(t, M)
  <2> SUFFICES ASSUME NEW M \in Nat, Within(h, M), sn <= M PROVE Within(t, M)
    OBVIOUS
  <2>1. Within(g, M)
    BY <1>1 DEF Within, Held
  <2>2. Within(h1, M)
    BY <2>1, <1>3, <1>4 DEF Passed
  <2> QED BY <2>2, <1>8 DEF Within, Held, SameNumbers
<1>10. /\ h1.phase = h.phase /\ h1.nos = h.nos /\ h1.canc = h.canc /\ h1.still = h.still
       /\ h1.NextSeqNo = h.NextSeqNo /\ h1.asks = h.asks
  BY <1>1, <1>3 DEF Rest
<1> QED BY <1>2, <1>3, <1>4, <1>8, <1>9, <1>10

\* Handle is the handler of the report's kind.
LEMMA HandleFact ==
    \A h \in HandlerState, s \in [Order -> Verdict], r \in Report, sn \in Nat :
      ~h.aborted =>
        LET done == Handle(h, s, r, sn)
        IN /\ r.kind \notin {"PartyDetailsAck", "PartyDetailsReport"} => Handled(h, s, done.h, done.s, r, sn)
           /\ r.kind = "PartyDetailsAck" => done = partyDetailsAck(h, s, sn)
           /\ r.kind = "PartyDetailsReport" => done.h = h /\ done.s = s
<1> SUFFICES ASSUME NEW h \in HandlerState, NEW s \in [Order -> Verdict], NEW r \in Report,
                    NEW sn \in Nat, ~h.aborted
             PROVE  LET done == Handle(h, s, r, sn)
                    IN /\ r.kind \notin {"PartyDetailsAck", "PartyDetailsReport"} =>
                            Handled(h, s, done.h, done.s, r, sn)
                       /\ r.kind = "PartyDetailsAck" => done = partyDetailsAck(h, s, sn)
                       /\ r.kind = "PartyDetailsReport" => done.h = h /\ done.s = s
  OBVIOUS
<1>1. CASE r.kind = "BusinessReject"
  <2>1. Handle(h, s, r, sn) = businessReject(h, s, r, sn)
    BY <1>1 DEF Handle
  <2> QED BY <1>1, <2>1, BusinessRejectFact
<1>2. CASE r.kind = "CancelReject"
  <2>1. Handle(h, s, r, sn) = cancelReject(h, s, r, sn)
    BY <1>2 DEF Handle
  <2> QED BY <1>2, <2>1, CancelRejectFact
<1>3. CASE r.kind = "PartyDetailsAck"
  BY <1>3 DEF Handle
<1>4. CASE r.kind = "PartyDetailsReport"
  BY <1>4 DEF Handle
<1>5. CASE r.kind \in Executions
  <2>1. Handle(h, s, r, sn) = executionReport(h, s, r, sn)
    BY <1>5 DEF Handle, Executions
  <2> QED BY <1>5, <2>1, ExecutionFact DEF Executions
<1> QED BY <1>1, <1>2, <1>3, <1>4, <1>5, ReportFact

-----------------------------------------------------------------------------
(* The newest number *)

\* Newest and Top as functions of what was received and guessed.
LEMMA NewestFact ==
    \A R \in SUBSET Nat, g, b \in Nat :
      (\A n \in R : n <= b) =>
        LET N == Max({0} \cup R)
            T == Max({0, g} \cup R)
        IN /\ N \in {0} \cup R /\ N \in Nat /\ T \in Nat
           /\ N <= T /\ g <= T /\ (T = N \/ T = g)
           /\ \A n \in R : n <= N /\ n <= T
<1> SUFFICES ASSUME NEW R \in SUBSET Nat, NEW g \in Nat, NEW b \in Nat, \A n \in R : n <= b
             PROVE  LET N == Max({0} \cup R)
                        T == Max({0, g} \cup R)
                    IN /\ N \in {0} \cup R /\ N \in Nat /\ T \in Nat
                       /\ N <= T /\ g <= T /\ (T = N \/ T = g)
                       /\ \A n \in R : n <= N /\ n <= T
  OBVIOUS
<1> DEFINE N == Max({0} \cup R)
           T == Max({0, g} \cup R)
<1>1. N \in {0} \cup R /\ \A n \in {0} \cup R : n <= N
  <2>1. {0} \cup R \in SUBSET Nat /\ {0} \cup R # {} /\ \A n \in {0} \cup R : n <= b
    OBVIOUS
  <2> QED BY <2>1, MaxFact
<1>2. T \in {0, g} \cup R /\ \A n \in {0, g} \cup R : n <= T
  <2>1. {0, g} \cup R \in SUBSET Nat /\ {0, g} \cup R # {} /\ \A n \in {0, g} \cup R : n <= b + g
    OBVIOUS
  <2>2. b + g \in Nat
    OBVIOUS
  <2> QED BY <2>1, <2>2, MaxFact
<1> HIDE DEF N, T
<1>3. /\ N \in {0} \cup R /\ N \in Nat /\ T \in Nat
      /\ N <= T /\ g <= T /\ (T = N \/ T = g)
      /\ \A n \in R : n <= N /\ n <= T
  BY <1>1, <1>2
<1> QED BY <1>3 DEF N, T

\* What is known of the newest number in every state.
TopKnown ==
  /\ Newest \in Nat /\ Top \in Nat /\ Newest \in {0} \cup Received
  /\ Newest <= Top /\ hist.guessed <= Top /\ (Top = Newest \/ Top = hist.guessed)
  /\ \A n \in Received : n <= Newest /\ n <= Top

\* The newest number received, and the newest received or heard of, exist and bound the rest.
LEMMA TopFact == Shape /\ Wire => TopKnown
<1> SUFFICES ASSUME Shape, Wire PROVE TopKnown
  OBVIOUS
<1>1. /\ Received \in SUBSET Nat /\ hist.guessed \in Nat /\ Len(gwy.log) \in Nat
      /\ \A n \in Received : n <= Len(gwy.log)
  BY DEF Shape, Wire, Received, History, GatewayState
<1>2. Newest = Max({0} \cup Received)
  BY DEF Newest, Received
<1> QED BY <1>1, <1>2, NewestFact DEF Top, TopKnown

\* The same of the next state.
LEMMA TopFactNext == Shape' /\ Wire' => TopKnown'
BY TopFact, PTL

-----------------------------------------------------------------------------
(* The initial state *)

\* A handler that was just made, and a gateway that may have sent reports before it.
LEMMA InitOrders == Init => OrdersInv
<1> SUFFICES ASSUME Init PROVE OrdersInv
  OBVIOUS
<1> USE ILinkAssumption
<1>1. /\ hnd.phase = "closed" /\ hnd.lastseq = 0 /\ hnd.last_req = 0 /\ hnd.waiting = <<>>
      /\ hnd.seen = {} /\ hnd.requests = <<>> /\ hnd.asks = <<>> /\ hnd.nos = {} /\ hnd.canc = {}
      /\ hnd.still = [o \in Order |-> 0] /\ ~hnd.aborted /\ hnd.NextSeqNo = FirstSeqNo
  BY DEF Init
<1>2. /\ gwy.log = [n \in 1..Missed |-> UnknownReport] /\ gwy.live = Missed + 1 /\ gwy.rt = <<>>
      /\ gwy.open = {} /\ gwy.leaves = [o \in Order |-> Size]
  BY DEF Init
<1>3. /\ hist.rcvd = {} /\ hist.asked = {} /\ hist.guessed = 0 /\ hist.late = {} /\ ~hist.hole
  BY DEF Init
<1>4. som = [o \in Order |-> [filled |-> 0, told |-> {}]]
  BY DEF Init
<1>5. UnknownReport \in Report
  BY DEF UnknownReport, Report
<1>6. gwy.log \in Seq(Report) /\ Len(gwy.log) = Missed /\ DOMAIN gwy.log = 1..Missed
      /\ \A n \in 1..Missed : gwy.log[n] = UnknownReport
  <2>1. gwy.log \in [1..Missed -> Report]
    BY <1>2, <1>5
  <2>2. gwy.log \in Seq(Report)
    BY <2>1
  <2> QED BY <2>1, <2>2, <1>2
<1>7. Shape
  <2>1. hnd \in HandlerState
    <3>1. [o \in Order |-> 0] \in [Order -> 0..Size]
      OBVIOUS
    <3>2. <<>> \in Seq(Piece) /\ <<>> \in Seq(Refusable \cup Party)
      OBVIOUS
    <3> QED BY <3>1, <3>2 DEF Init, HandlerState
  <2>2. gwy \in GatewayState
    <3>1. [o \in Order |-> Size] \in [Order -> 0..Size]
      OBVIOUS
    <3>2. gwy = [log |-> gwy.log, live |-> Missed + 1, rt |-> <<>>, open |-> {},
                 leaves |-> [o \in Order |-> Size]]
      BY DEF Init
    <3> QED BY <3>1, <3>2, <1>6 DEF GatewayState
  <2>3. som \in [Order -> Verdict]
    BY <1>4 DEF Verdict
  <2>4. hist \in History
    BY DEF Init, History
  <2> QED BY <2>1, <2>2, <2>3, <2>4 DEF Shape
<1>8. Wire
  BY <1>1, <1>2, <1>3, <1>6 DEF Wire, PartyDetailsReport, UnknownReport
<1>9. TopKnown
  BY <1>7, <1>8, TopFact
<1>10. Unbound
  BY <1>1, <1>2, <1>3, <1>6 DEF Unbound, Clean
<1>11. Sequenced
  <2>1. Elements(<<>>) = {}
    BY DEF Elements
  <2> QED BY <2>1, <1>1, <1>2, <1>9 DEF Sequenced, Within, Held, Clean, TopKnown
<1>12. GapRequested /\ AbortExplained
  BY <1>1, <1>3, <1>9 DEF GapRequested, AbortExplained, TopKnown, Received
<1>13. ASSUME NEW o \in Order PROVE Descends(o) /\ Exact(o)
  <2>1. TradesOf(o) = {}
    BY <1>6 DEF TradesOf, UnknownReport
  <2>2. TradesSeen(o) = {}
    BY <1>3 DEF TradesSeen
  <2>3. Low(o) = Size
    <3>1. Low(o) = Min({Size})
      BY <2>2 DEF Low
    <3> QED BY <3>1, MinFact
  <2>4. o \notin Sent
    BY <1>1 DEF Sent
  <2> QED BY <2>1, <2>3, <2>4, <1>2, <1>4 DEF Descends, Exact
<1>14. Numbered
  BY <1>1, <1>6 DEF Numbered, UnknownReport
<1>15. Verdicts
  BY <1>3, <1>4 DEF Verdicts
<1> QED BY <1>7, <1>8, <1>10, <1>11, <1>12, <1>13, <1>14, <1>15 DEF OrdersInv

-----------------------------------------------------------------------------
(* What a step keeps by what it leaves alone *)

LogKept == \A n \in DOMAIN gwy.log : n \in DOMAIN gwy'.log /\ gwy'.log[n] = gwy.log[n]

\* The received reports stay what they are.
LEMMA SeenKept ==
    ASSUME Shape, Wire, LogKept, hist'.rcvd = hist.rcvd
    PROVE  /\ Received' = Received /\ Newest' = Newest
           /\ \A n \in hist.rcvd : gwy'.log[n] = gwy.log[n]
           /\ \A o : TradesSeen(o)' = TradesSeen(o) /\ Low(o)' = Low(o)
<1>1. \A n \in hist.rcvd : gwy'.log[n] = gwy.log[n]
  BY DEF LogKept, Wire, Shape, GatewayState
<1>2. Received' = Received /\ Newest' = Newest
  BY <1>1 DEF Received, Newest
<1>3. ASSUME NEW o PROVE TradesSeen(o)' = TradesSeen(o) /\ Low(o)' = Low(o)
  <2>1. TradesSeen(o)' = TradesSeen(o)
    BY <1>1 DEF TradesSeen
  <2>2. {gwy'.log[n].LeavesQty : n \in TradesSeen(o)} = {gwy.log[n].LeavesQty : n \in TradesSeen(o)}
    BY <1>1 DEF TradesSeen
  <2> QED BY <2>1, <2>2 DEF Low
<1> QED BY <1>1, <1>2, <1>3

\* An order's fills agree with the trades as long as neither side of the equation changes.
LEMMA ExactKept ==
    ASSUME Shape, Wire, LogKept, hist'.rcvd = hist.rcvd, hist'.late = hist.late,
           NEW o \in Order, Exact(o), som'[o].filled = som[o].filled,
           o \in Sent' => hnd'.still[o] = Low(o) \/ (o \in Sent /\ hnd'.still[o] = hnd.still[o])
    PROVE  Exact(o)'
BY SeenKept DEF Exact

\* A step that reports no trade of an order leaves its trades in order.
LEMMA DescendsKept ==
    ASSUME Shape, LogKept, NEW o \in Order, Descends(o), TradesOf(o)' = TradesOf(o),
           gwy'.leaves[o] = gwy.leaves[o],
           Sent \subseteq Sent', o \in gwy'.open => o \in gwy.open \cup Sent'
    PROVE  Descends(o)'
<1>1. \A n \in TradesOf(o) : gwy'.log[n] = gwy.log[n]
  BY DEF LogKept, TradesOf
<1>2. (\A n \in TradesOf(o) : gwy.leaves[o] <= gwy.log[n].LeavesQty)'
  BY <1>1 DEF Descends
<1>3. (\A m, n \in TradesOf(o) : m < n => gwy.log[n].LeavesQty < gwy.log[m].LeavesQty)'
  BY <1>1 DEF Descends
<1>4. (o \notin Sent => TradesOf(o) = {} /\ o \notin gwy.open)'
  BY DEF Descends
<1> QED BY <1>2, <1>3, <1>4 DEF Descends

\* What the SOM was told stays what was reported, when nothing is received.
LEMMA VerdictsKept ==
    ASSUME Shape, Wire, LogKept, hist'.rcvd = hist.rcvd, Verdicts, som' = som,
           ~hnd'.aborted => ~hnd.aborted, hnd'.NextSeqNo \in Nat, hnd.NextSeqNo <= hnd'.NextSeqNo
    PROVE  Verdicts'
<1>1. \A n \in hist.rcvd : gwy'.log[n] = gwy.log[n]
  BY SeenKept
<1>2. hnd'.NextSeqNo <= RefWidth => hnd.NextSeqNo <= RefWidth
  BY ILinkAssumption DEF Shape, HandlerState
<1>3. \A o, what : (\E n \in hist.rcvd : Means(gwy'.log[n], o, what))
                     <=> (\E n \in hist.rcvd : Means(gwy.log[n], o, what))
  BY <1>1
<1> QED BY <1>2, <1>3 DEF Verdicts

\* What is asked for, and refused, comes from the table.
LEMMA NumberedKept ==
    ASSUME Shape, Numbered, hnd'.nos = hnd.nos, hnd'.canc = hnd.canc,
           hnd'.NextSeqNo \in Nat, hnd.NextSeqNo <= hnd'.NextSeqNo,
           \A i \in DOMAIN hnd'.asks :
             \/ hnd'.asks[i].kind \notin {"NewOrder", "CancelRequest"}
             \/ \E j \in DOMAIN hnd.asks : hnd'.asks[i] = hnd.asks[j],
           \A n \in DOMAIN gwy'.log :
             \/ n \in DOMAIN gwy.log /\ gwy'.log[n] = gwy.log[n]
             \/ gwy'.log[n].kind # "BusinessReject"
             \/ \E j \in DOMAIN hnd.asks : /\ hnd.asks[j].kind \in {"NewOrder", "CancelRequest"}
                                           /\ gwy'.log[n] = BusinessReject(hnd.asks[j])
    PROVE  Numbered'
<1>1. Sent' = Sent
  BY DEF Sent
<1>2. \A m : Noted(m)' <=> Noted(m)
  BY DEF Noted
<1>3. (\A p \in hnd.nos \cup hnd.canc : p[1] < hnd.NextSeqNo /\ p[2] \in Sent)'
  <2>1. SUFFICES ASSUME NEW p \in hnd.nos \cup hnd.canc PROVE p[1] < hnd'.NextSeqNo /\ p[2] \in Sent
    BY <1>1
  <2>2. p[1] \in Nat /\ hnd.NextSeqNo \in Nat
    BY DEF Shape, HandlerState
  <2>3. p[1] < hnd.NextSeqNo /\ p[2] \in Sent
    BY DEF Numbered
  <2> QED BY <2>2, <2>3
<1>4. (\A p, q \in hnd.nos \cup hnd.canc : p[1] = q[1] => p = q)' /\ (hnd.nos \cap hnd.canc = {})'
  BY DEF Numbered
<1>5. ASSUME NEW i \in DOMAIN hnd'.asks, hnd'.asks[i].kind \in {"NewOrder", "CancelRequest"}
      PROVE  Noted(hnd'.asks[i])
  BY <1>5 DEF Numbered
<1>6. ASSUME NEW n \in DOMAIN gwy'.log, gwy'.log[n].kind = "BusinessReject"
      PROVE  /\ Noted(gwy'.log[n].of)
             /\ gwy'.log[n].BusinessRejectRefID = gwy'.log[n].of.seqnum % RefWidth
  <2>1. CASE n \in DOMAIN gwy.log /\ gwy'.log[n] = gwy.log[n]
    BY <2>1, <1>6 DEF Numbered
  <2>2. CASE \E j \in DOMAIN hnd.asks : /\ hnd.asks[j].kind \in {"NewOrder", "CancelRequest"}
                                        /\ gwy'.log[n] = BusinessReject(hnd.asks[j])
    <3>1. PICK j \in DOMAIN hnd.asks : /\ hnd.asks[j].kind \in {"NewOrder", "CancelRequest"}
                                       /\ gwy'.log[n] = BusinessReject(hnd.asks[j])
      BY <2>2
    <3>2. Noted(hnd.asks[j])
      BY <3>1 DEF Numbered
    <3>3. /\ gwy'.log[n].of = hnd.asks[j]
          /\ gwy'.log[n].BusinessRejectRefID = hnd.asks[j].seqnum % RefWidth
      BY <3>1 DEF BusinessReject
    <3> QED BY <3>2, <3>3
  <2> QED BY <2>1, <2>2, <1>6
<1>7. (\A i \in DOMAIN hnd.asks : hnd.asks[i].kind \in {"NewOrder", "CancelRequest"} => Noted(hnd.asks[i]))'
  <2>1. ASSUME NEW i \in DOMAIN hnd'.asks, hnd'.asks[i].kind \in {"NewOrder", "CancelRequest"}
        PROVE  Noted(hnd.asks[i])'
    BY <1>5, <2>1 DEF Noted
  <2> QED BY <2>1
<1>8. (\A n \in DOMAIN gwy.log :
         gwy.log[n].kind = "BusinessReject" =>
           /\ Noted(gwy.log[n].of)
           /\ gwy.log[n].BusinessRejectRefID = gwy.log[n].of.seqnum % RefWidth)'
  <2>1. ASSUME NEW n \in DOMAIN gwy'.log, gwy'.log[n].kind = "BusinessReject"
        PROVE  /\ Noted(gwy.log[n].of)'
               /\ gwy'.log[n].BusinessRejectRefID = gwy'.log[n].of.seqnum % RefWidth
    BY <1>6, <2>1 DEF Noted
  <2> QED BY <2>1
<1> QED BY <1>3, <1>4, <1>7, <1>8 DEF Numbered

\* A step that receives nothing and leaves the handler's numbers alone.
LEMMA SequencedKept ==
    ASSUME OrdersInv, LogKept, hist'.rcvd = hist.rcvd, hist'.guessed = hist.guessed,
           hist.asked \subseteq hist'.asked, SameNumbers(hnd', hnd), hnd'.aborted = hnd.aborted,
           hnd'.exec_reject_cnt = hnd.exec_reject_cnt, hnd'.bus_reject_cnt = hnd.bus_reject_cnt,
           hist.hole => hist'.hole, ~hist'.hole => gwy'.rt = gwy.rt
    PROVE  Sequenced' /\ GapRequested' /\ AbortExplained'
<1>1. Received' = Received /\ Newest' = Newest /\ Top' = Top
  BY SeenKept DEF OrdersInv, Top
<1>2. GapRequested' /\ AbortExplained'
  BY <1>1 DEF OrdersInv, GapRequested, AbortExplained
<1>3. Within(hnd, Top) => Within(hnd, Top)'
  BY <1>1 DEF Within, Held, SameNumbers
<1>4. (Based(hnd) => Based(hnd)') /\ (Clean(hnd) => Clean(hnd)')
  BY DEF Based, Clean, SameNumbers
<1>5. ~hist'.hole /\ FirstAsked => FirstAsked'
  BY DEF FirstAsked, SameNumbers
<1>6. Sequenced
  BY DEF OrdersInv
<1> QED BY <1>2, <1>3, <1>4, <1>5, <1>6 DEF Sequenced

-----------------------------------------------------------------------------
(* The operator, the SOM and the wire *)

\* What a queue holds after an entry is added, and after some are taken off.
LEMMA QueueFact ==
    ASSUME NEW S
    PROVE  /\ \A s \in Seq(S), x \in S :
                /\ Append(s, x) \in Seq(S) /\ Len(Append(s, x)) = Len(s) + 1
                /\ DOMAIN Append(s, x) = DOMAIN s \cup {Len(s) + 1}
                /\ \A i \in DOMAIN s : Append(s, x)[i] = s[i]
                /\ Append(s, x)[Len(s) + 1] = x
           /\ \A s \in Seq(S) : s # <<>> =>
                /\ Head(s) = s[1] /\ 1 \in DOMAIN s /\ Tail(s) \in Seq(S)
                /\ \A i \in DOMAIN Tail(s) : i + 1 \in DOMAIN s /\ Tail(s)[i] = s[i + 1]
           /\ \A s \in Seq(S), n \in Nat : n <= Len(s) =>
                /\ SubSeq(s, n + 1, Len(s)) \in Seq(S)
                /\ \A i \in DOMAIN SubSeq(s, n + 1, Len(s)) :
                     n + i \in DOMAIN s /\ SubSeq(s, n + 1, Len(s))[i] = s[n + i]
<1>1. ASSUME NEW s \in Seq(S), NEW x \in S
      PROVE  /\ Append(s, x) \in Seq(S) /\ Len(Append(s, x)) = Len(s) + 1
             /\ DOMAIN Append(s, x) = DOMAIN s \cup {Len(s) + 1}
             /\ \A i \in DOMAIN s : Append(s, x)[i] = s[i]
             /\ Append(s, x)[Len(s) + 1] = x
  <2>1. /\ Append(s, x) \in Seq(S) /\ Len(Append(s, x)) = Len(s) + 1 /\ Len(s) \in Nat
        /\ DOMAIN Append(s, x) = 1..(Len(s) + 1) /\ DOMAIN s = 1..Len(s)
        /\ Append(s, x)[Len(s) + 1] = x /\ \A i \in 1..Len(s) : Append(s, x)[i] = s[i]
    BY AppendProperties
  <2>2. 1..(Len(s) + 1) = 1..Len(s) \cup {Len(s) + 1}
    BY <2>1
  <2> QED BY <2>1, <2>2
<1>2. ASSUME NEW s \in Seq(S), s # <<>>
      PROVE  /\ Head(s) = s[1] /\ 1 \in DOMAIN s /\ Tail(s) \in Seq(S)
             /\ \A i \in DOMAIN Tail(s) : i + 1 \in DOMAIN s /\ Tail(s)[i] = s[i + 1]
  <2>1. /\ Len(s) \in Nat /\ DOMAIN s = 1..Len(s) /\ Tail(s) \in Seq(S) /\ Head(s) = s[1]
        /\ Len(Tail(s)) = Len(s) - 1 /\ \A i \in 1..(Len(s) - 1) : Tail(s)[i] = s[i + 1]
    BY <1>2, HeadTailProperties
  <2>2. Len(s) # 0
    BY <1>2, <2>1, EmptySeq
  <2>3. DOMAIN Tail(s) = 1..(Len(s) - 1)
    BY <2>1
  <2>4. 1 \in 1..Len(s) /\ \A i \in 1..(Len(s) - 1) : i + 1 \in 1..Len(s)
    BY <2>1, <2>2
  <2> QED BY <2>1, <2>3, <2>4
<1>3. ASSUME NEW s \in Seq(S), NEW n \in Nat, n <= Len(s)
      PROVE  /\ SubSeq(s, n + 1, Len(s)) \in Seq(S)
             /\ \A i \in DOMAIN SubSeq(s, n + 1, Len(s)) :
                  n + i \in DOMAIN s /\ SubSeq(s, n + 1, Len(s))[i] = s[n + i]
  <2>1. Len(s) \in Nat /\ DOMAIN s = 1..Len(s)
    OBVIOUS
  <2>2. /\ SubSeq(s, n + 1, Len(s)) \in Seq(S)
        /\ Len(SubSeq(s, n + 1, Len(s))) = IF n + 1 <= Len(s) THEN Len(s) - (n + 1) + 1 ELSE 0
        /\ \A i \in 1..(Len(s) - (n + 1) + 1) : SubSeq(s, n + 1, Len(s))[i] = s[n + 1 + i - 1]
    BY <2>1, <1>3, SubSeqProperties
  <2>3. DOMAIN SubSeq(s, n + 1, Len(s)) = 1..(Len(s) - n)
    BY <2>1, <2>2, <1>3
  <2>4. \A i \in 1..(Len(s) - n) : n + i \in 1..Len(s) /\ n + 1 + i - 1 = n + i
    BY <2>1
  <2>5. Len(s) - (n + 1) + 1 = Len(s) - n
    BY <2>1
  <2> QED BY <2>1, <2>2, <2>3, <2>4, <2>5
<1> QED BY <1>1, <1>2, <1>3

\* doBind: the session binds, and goes on from the number it was told.
LEMMA BindKeeps == OrdersInv /\ doBind => OrdersInv'
<1> SUFFICES ASSUME OrdersInv, doBind PROVE OrdersInv'
  OBVIOUS
<1> USE DEF OrdersInv
<1>1. PICK l \in 0..Missed : /\ hnd' = [hnd EXCEPT !.phase = "binding", !.lastseq = l]
                             /\ hist' = [hist EXCEPT !.rcvd = 1..l]
  BY DEF doBind
<1>2. hnd.phase = "closed" /\ gwy' = gwy /\ som' = som
  BY DEF doBind
<1>3. /\ Clean(hnd) /\ ~hnd.aborted /\ hnd.asks = <<>> /\ hnd.nos = {} /\ hnd.canc = {}
      /\ gwy.rt = <<>> /\ gwy.live = Missed + 1 /\ Len(gwy.log) = Missed /\ gwy.open = {}
      /\ \A n \in DOMAIN gwy.log : gwy.log[n] = UnknownReport
      /\ hist.guessed = 0 /\ hist.rcvd = 1..hnd.lastseq /\ hnd.lastseq = 0
  BY <1>2 DEF Unbound
<1>4. gwy.log \in Seq(Report) /\ DOMAIN gwy.log = 1..Missed /\ l \in Nat /\ 1..l \subseteq 1..Missed
  BY <1>3, ILinkAssumption DEF Shape, GatewayState
<1>5. /\ hnd' \in HandlerState /\ hnd'.phase = "binding" /\ hnd'.lastseq = l
      /\ hnd'.last_req = hnd.last_req /\ hnd'.waiting = hnd.waiting /\ hnd'.seen = hnd.seen
      /\ hnd'.requests = hnd.requests /\ hnd'.asks = hnd.asks /\ hnd'.NextSeqNo = hnd.NextSeqNo
      /\ hnd'.nos = hnd.nos /\ hnd'.canc = hnd.canc /\ hnd'.still = hnd.still /\ hnd'.aborted = hnd.aborted
  BY <1>1, <1>4 DEF Shape, HandlerState
<1>6. /\ hist' \in History /\ hist'.rcvd = 1..l /\ hist'.guessed = 0 /\ hist'.late = hist.late
      /\ hist'.hole = hist.hole
  BY <1>1, <1>3, <1>4 DEF Shape, History
<1>7. Shape'
  BY <1>2, <1>5, <1>6 DEF Shape
<1>8. Wire'
  BY <1>2, <1>3, <1>4, <1>5, <1>6 DEF Wire, PartyDetailsReport, UnknownReport
<1>9. TopKnown'
  BY <1>7, <1>8, TopFactNext
<1>10. Clean(hnd)'
  BY <1>3, <1>5 DEF Clean
<1>11. Unbound'
  BY <1>2, <1>3, <1>4, <1>5, <1>6, <1>10 DEF Unbound
<1>12. Received' = 1..l
  BY <1>2, <1>3, <1>4, <1>6 DEF Received, UnknownReport, PartyDetailsReport
<1>13. Sequenced'
  <2>1. l <= Top' /\ Top' \in Nat
    <3>1. CASE l = 0
      BY <3>1, <1>9 DEF TopKnown
    <3>2. CASE l # 0
      <4>1. l \in Received'
        BY <3>2, <1>4, <1>12
      <4> QED BY <4>1, <1>9 DEF TopKnown
    <3> QED BY <3>1, <3>2
  <2>2. Elements(<<>>) = {}
    BY DEF Elements
  <2>3. Within(hnd, Top)'
    BY <2>1, <2>2, <1>5, <1>10 DEF Within, Held, Clean
  <2> QED BY <2>3, <1>10, <1>2, <1>3 DEF Sequenced
<1>14. GapRequested' /\ AbortExplained'
  <2>1. Newest' \in {0} \cup 1..l
    BY <1>9, <1>12 DEF TopKnown
  <2>2. \A n \in 1..Newest' : n \in 1..l
    BY <2>1, <1>4
  <2> QED BY <2>2, <1>3, <1>5, <1>6 DEF GapRequested, AbortExplained
<1>15. ASSUME NEW o \in Order PROVE Descends(o)' /\ Exact(o)'
  <2>1. TradesOf(o)' = TradesOf(o) /\ Sent' = Sent
    BY <1>2, <1>5 DEF TradesOf, Sent
  <2>2. Descends(o)'
    BY <2>1, <1>2 DEF Descends
  <2>3. TradesSeen(o)' = {} /\ TradesSeen(o) = {}
    BY <1>2, <1>3, <1>4, <1>6, ILinkAssumption DEF TradesSeen, UnknownReport
  <2>4. Low(o)' = Low(o)
    BY <2>3, <1>2 DEF Low
  <2> QED BY <2>1, <2>2, <2>4, <1>2, <1>5, <1>6 DEF Exact
<1>16. Numbered'
  BY <1>3, <1>2, <1>4, <1>5 DEF Numbered, UnknownReport
<1>17. Verdicts'
  <2>1. \A n \in DOMAIN gwy.log : \A o, what : ~Means(gwy.log[n], o, what)
    BY <1>3 DEF Means, UnknownReport
  <2>2. hist.rcvd = {}
    BY <1>3
  <2> QED BY <2>1, <2>2, <1>2, <1>4, <1>5, <1>6 DEF Verdicts
<1> QED BY <1>7, <1>8, <1>11, <1>13, <1>14, <1>15, <1>16, <1>17

\* The handler sends a message, or none: its numbers of reports, the gateway and the SOM stay.
LEMMA SendKeeps ==
    ASSUME OrdersInv, gwy' = gwy, som' = som, hist' = hist, hnd' \in HandlerState,
           hnd'.phase = "established", SameNumbers(hnd', hnd), hnd'.aborted = hnd.aborted,
           hnd'.exec_reject_cnt = hnd.exec_reject_cnt, hnd'.bus_reject_cnt = hnd.bus_reject_cnt,
           hnd.NextSeqNo <= hnd'.NextSeqNo, hnd.nos \subseteq hnd'.nos,
           \A i \in DOMAIN hnd'.asks : hnd'.asks[i].kind # "PartyList"
                                         \/ \E j \in DOMAIN hnd.asks : hnd'.asks[i] = hnd.asks[j],
           \A o \in Order : o \in Sent' =>
             hnd'.still[o] = Low(o) \/ (o \in Sent /\ hnd'.still[o] = hnd.still[o]),
           Numbered'
    PROVE  OrdersInv'
<1> USE DEF OrdersInv
<1>1. Shape' /\ Unbound'
  BY DEF Shape, Unbound
<1>2. Wire'
  BY DEF Wire
<1>3. LogKept
  BY DEF LogKept
<1>4. Sequenced' /\ GapRequested' /\ AbortExplained'
  BY <1>3, SequencedKept
<1>5. ASSUME NEW o \in Order PROVE Descends(o)' /\ Exact(o)'
  <2>1. Sent \subseteq Sent' /\ TradesOf(o)' = TradesOf(o)
    BY DEF Sent, TradesOf
  <2>2. Descends(o)'
    BY <2>1, <1>3, DescendsKept
  <2> QED BY <2>2, <1>3, ExactKept
<1>6. Verdicts'
  <2>1. hnd'.NextSeqNo \in Nat
    BY DEF HandlerState
  <2> QED BY <2>1, <1>3, VerdictsKept
<1> QED BY <1>1, <1>2, <1>4, <1>5, <1>6

\* establishmentAck: the session is up; the party definition may go out.
LEMMA EstablishKeeps == OrdersInv /\ establishmentAck => OrdersInv'
<1> SUFFICES ASSUME OrdersInv, establishmentAck PROVE OrdersInv'
  OBVIOUS
<1> USE DEF OrdersInv
<1>1. hnd \in HandlerState /\ gwy' = gwy /\ som' = som /\ hist' = hist /\ hnd.phase = "binding"
  BY DEF Shape, establishmentAck
<1>2. hnd.NextSeqNo \in Nat /\ hnd.NextSeqNo + 1 \in Nat /\ hnd.asks = <<>>
  BY <1>1 DEF HandlerState, Unbound
<1> DEFINE m == PartyDetailsDefinition(hnd.NextSeqNo)
<1>3. m \in Refusable \cup Party /\ m.kind = "PartyDefinition"
  BY <1>2 DEF PartyDetailsDefinition, Party
<1> HIDE DEF m
<1>4. /\ hnd' \in HandlerState /\ hnd'.phase = "established" /\ SameNumbers(hnd', hnd)
      /\ hnd'.aborted = hnd.aborted /\ hnd'.exec_reject_cnt = hnd.exec_reject_cnt
      /\ hnd'.bus_reject_cnt = hnd.bus_reject_cnt /\ hnd'.nos = hnd.nos /\ hnd'.canc = hnd.canc
      /\ hnd'.still = hnd.still /\ hnd'.NextSeqNo \in {hnd.NextSeqNo, hnd.NextSeqNo + 1}
      /\ hnd'.asks \in {hnd.asks, Append(hnd.asks, m)}
  <2>1. CASE hnd.pre_register
    <3>1. hnd' = [hnd EXCEPT !.phase = "established", !.NextSeqNo = @ + 1, !.asks = Append(@, m)]
      BY <2>1 DEF establishmentAck, m
    <3>2. Append(hnd.asks, m) \in Seq(Refusable \cup Party)
      <4>1. hnd.asks \in Seq(Refusable \cup Party)
        BY <1>1 DEF HandlerState
      <4> QED BY <4>1, <1>3, QueueFact
    <3> QED BY <1>1, <1>2, <3>1, <3>2 DEF HandlerState, SameNumbers
  <2>2. CASE ~hnd.pre_register
    <3>1. hnd' = [hnd EXCEPT !.phase = "established"]
      BY <2>2 DEF establishmentAck
    <3> QED BY <1>1, <1>2, <3>1 DEF HandlerState, SameNumbers
  <2> QED BY <2>1, <2>2
<1>5. \A i \in DOMAIN hnd'.asks : hnd'.asks[i] = m
  <2>1. CASE hnd'.asks = hnd.asks
    BY <2>1, <1>2
  <2>2. CASE hnd'.asks = Append(hnd.asks, m)
    <3>1. hnd.asks \in Seq(Refusable \cup Party) /\ Len(hnd.asks) = 0 /\ DOMAIN hnd.asks = {}
      BY <1>1, <1>2 DEF HandlerState
    <3> QED BY <3>1, <2>2, <1>3, QueueFact
  <2> QED BY <2>1, <2>2, <1>4
<1>a. hnd'.NextSeqNo \in Nat /\ hnd.NextSeqNo <= hnd'.NextSeqNo
  BY <1>2, <1>4
<1>6. Numbered'
  <2>1. \A i \in DOMAIN hnd'.asks : hnd'.asks[i].kind \notin {"NewOrder", "CancelRequest"}
    BY <1>3, <1>5
  <2>2. \A n \in DOMAIN gwy'.log : n \in DOMAIN gwy.log /\ gwy'.log[n] = gwy.log[n]
    BY <1>1
  <2> QED BY <2>1, <2>2, <1>4, <1>a, NumberedKept
<1>7. Sent' = Sent
  BY <1>4 DEF Sent
<1> QED BY <1>1, <1>3, <1>4, <1>5, <1>6, <1>7, <1>a, SendKeeps

\* A message the handler numbers and notes in its table.
LEMMA NumberedSends ==
    ASSUME Shape, Numbered, gwy' = gwy, NEW m \in Refusable, m.seqnum = hnd.NextSeqNo,
           hnd'.NextSeqNo = hnd.NextSeqNo + 1, hnd'.asks = Append(hnd.asks, m),
           hnd'.nos = IF m.kind = "NewOrder" THEN hnd.nos \cup {Pair(m)} ELSE hnd.nos,
           hnd'.canc = IF m.kind = "NewOrder" THEN hnd.canc ELSE hnd.canc \cup {Pair(m)},
           m.oid \in Sent', Sent \subseteq Sent'
    PROVE  Numbered'
<1> DEFINE p == Pair(m)
<1>1. /\ hnd.NextSeqNo \in Nat /\ hnd.asks \in Seq(Refusable \cup Party)
      /\ hnd.nos \in SUBSET (Nat \X Order) /\ hnd.canc \in SUBSET (Nat \X Order)
  BY DEF Shape, HandlerState
<1>2. p \in Nat \X Order /\ p[1] = hnd.NextSeqNo /\ p[2] = m.oid /\ m.kind \in {"NewOrder", "CancelRequest"}
  BY DEF Refusable, Pair
<1> HIDE DEF p
<1>3. hnd'.nos \cup hnd'.canc = hnd.nos \cup hnd.canc \cup {p} /\ hnd.nos \subseteq hnd'.nos /\ hnd.canc \subseteq hnd'.canc
  BY DEF p
<1>4. \A q \in hnd.nos \cup hnd.canc : q \in Nat \X Order /\ q[1] < hnd.NextSeqNo /\ q[2] \in Sent
  BY <1>1 DEF Numbered
<1>5. (\A q \in hnd.nos \cup hnd.canc : q[1] < hnd.NextSeqNo /\ q[2] \in Sent)'
  <2> SUFFICES ASSUME NEW q \in hnd.nos \cup hnd.canc \cup {p}
               PROVE  q[1] < hnd.NextSeqNo + 1 /\ q[2] \in Sent'
    BY <1>3
  <2>1. CASE q = p
    BY <2>1, <1>1, <1>2
  <2>2. CASE q # p
    <3>1. q[1] \in Nat /\ q[1] < hnd.NextSeqNo /\ q[2] \in Sent
      BY <2>2, <1>4
    <3> QED BY <3>1, <1>1
  <2> QED BY <2>1, <2>2
<1>6. \A q \in hnd.nos \cup hnd.canc : q[1] # p[1]
  BY <1>4, <1>1, <1>2
<1>7. (\A q, r \in hnd.nos \cup hnd.canc : q[1] = r[1] => q = r)'
  <2>1. \A q, r \in hnd.nos \cup hnd.canc : q[1] = r[1] => q = r
    BY DEF Numbered
  <2> QED BY <2>1, <1>3, <1>6
<1>8. (hnd.nos \cap hnd.canc = {})'
  BY <1>6 DEF Numbered, p
<1>9. (\A i \in DOMAIN hnd.asks : hnd.asks[i].kind \in {"NewOrder", "CancelRequest"} => Noted(hnd.asks[i]))'
  <2> SUFFICES ASSUME NEW i \in DOMAIN hnd'.asks, hnd'.asks[i].kind \in {"NewOrder", "CancelRequest"}
               PROVE  Noted(hnd.asks[i])'
    OBVIOUS
  <2>1. \/ hnd'.asks[i] = m
        \/ i \in DOMAIN hnd.asks /\ hnd'.asks[i] = hnd.asks[i]
    BY <1>1, QueueFact
  <2>2. CASE hnd'.asks[i] = m
    BY <2>2, <1>2 DEF Noted
  <2>3. CASE i \in DOMAIN hnd.asks /\ hnd'.asks[i] = hnd.asks[i]
    <3>1. Noted(hnd.asks[i])
      BY <2>3 DEF Numbered
    <3> QED BY <2>3, <3>1, <1>3 DEF Noted
  <2> QED BY <2>1, <2>2, <2>3
<1>10. (\A n \in DOMAIN gwy.log :
          gwy.log[n].kind = "BusinessReject" =>
            /\ Noted(gwy.log[n].of)
            /\ gwy.log[n].BusinessRejectRefID = gwy.log[n].of.seqnum % RefWidth)'
  <2> SUFFICES ASSUME NEW n \in DOMAIN gwy.log, gwy.log[n].kind = "BusinessReject"
               PROVE  /\ Noted(gwy.log[n].of)'
                      /\ gwy.log[n].BusinessRejectRefID = gwy.log[n].of.seqnum % RefWidth
    OBVIOUS
  <2>1. Noted(gwy.log[n].of) /\ gwy.log[n].BusinessRejectRefID = gwy.log[n].of.seqnum % RefWidth
    BY DEF Numbered
  <2> QED BY <2>1, <1>3 DEF Noted
<1> QED BY <1>5, <1>7, <1>8, <1>9, <1>10 DEF Numbered

\* order: a new order takes the next number, and is noted under it.
LEMMA OrderKeeps == ASSUME NEW o \in Order, OrdersInv, order(o) PROVE OrdersInv'
<1> USE DEF OrdersInv
<1>1. /\ hnd \in HandlerState /\ gwy' = gwy /\ som' = som /\ hist' = hist
      /\ hnd.phase = "established" /\ o \notin Sent
  BY DEF Shape, order, Up
<1>2. hnd.NextSeqNo \in Nat /\ hnd.NextSeqNo + 1 \in Nat /\ hnd.asks \in Seq(Refusable \cup Party)
      /\ hnd.nos \in SUBSET (Nat \X Order) /\ hnd.canc \in SUBSET (Nat \X Order)
      /\ hnd.still \in [Order -> 0..Size]
  BY <1>1 DEF HandlerState
<1>3. PICK m \in Refusable : m = NewOrderSingle(hnd.NextSeqNo, o)
  BY <1>2 DEF NewOrderSingle, Refusable
<1>4. m.kind = "NewOrder" /\ m.seqnum = hnd.NextSeqNo /\ m.oid = o /\ Pair(m) \in Nat \X Order
      /\ Pair(m)[2] = o /\ Pair(m) = <<hnd.NextSeqNo, o>>
  BY <1>2, <1>3 DEF NewOrderSingle, Pair
<1>5. hnd' = [hnd EXCEPT !.asks = Append(@, m), !.nos = @ \cup {Pair(m)}, !.NextSeqNo = @ + 1, !.still[o] = Size]
  BY <1>3, <1>4 DEF order
<1>6. /\ Append(hnd.asks, m) \in Seq(Refusable \cup Party)
      /\ \A i \in DOMAIN Append(hnd.asks, m) :
           Append(hnd.asks, m)[i] = m \/ (i \in DOMAIN hnd.asks /\ Append(hnd.asks, m)[i] = hnd.asks[i])
  <2>1. m \in Refusable \cup Party
    OBVIOUS
  <2> QED BY <1>2, <2>1, QueueFact
<1>7. hnd.nos \cup {Pair(m)} \in SUBSET (Nat \X Order) /\ [hnd.still EXCEPT ![o] = Size] \in [Order -> 0..Size]
  BY <1>2, <1>4, ILinkAssumption
<1>8. /\ hnd' \in HandlerState /\ hnd'.phase = "established" /\ SameNumbers(hnd', hnd)
      /\ hnd'.aborted = hnd.aborted /\ hnd'.exec_reject_cnt = hnd.exec_reject_cnt
      /\ hnd'.bus_reject_cnt = hnd.bus_reject_cnt /\ hnd'.nos = hnd.nos \cup {Pair(m)}
      /\ hnd'.canc = hnd.canc /\ hnd'.still = [hnd.still EXCEPT ![o] = Size]
      /\ hnd'.NextSeqNo = hnd.NextSeqNo + 1 /\ hnd'.asks = Append(hnd.asks, m)
  BY <1>1, <1>2, <1>5, <1>6, <1>7 DEF HandlerState, SameNumbers
<1>9. Sent' = Sent \cup {o}
  BY <1>4, <1>8 DEF Sent
<1>10. Low(o) = Size
  <2>1. TradesOf(o) = {}
    BY <1>1 DEF Descends
  <2>2. TradesSeen(o) = {}
    BY <2>1 DEF TradesSeen, TradesOf, Wire, Shape, GatewayState
  <2>3. Low(o) = Min({Size})
    BY <2>2 DEF Low
  <2> QED BY <2>3, MinFact, ILinkAssumption
<1>11. Numbered'
  BY <1>1, <1>4, <1>8, <1>9, NumberedSends
<1>12. \A i \in DOMAIN hnd'.asks : hnd'.asks[i].kind # "PartyList"
                                     \/ \E j \in DOMAIN hnd.asks : hnd'.asks[i] = hnd.asks[j]
  BY <1>4, <1>6, <1>8
<1>13. \A q \in Order : q \in Sent' =>
         hnd'.still[q] = Low(q) \/ (q \in Sent /\ hnd'.still[q] = hnd.still[q])
  BY <1>2, <1>8, <1>9, <1>10
<1>14. hnd.NextSeqNo <= hnd'.NextSeqNo /\ hnd.nos \subseteq hnd'.nos
  BY <1>2, <1>8
<1> QED BY <1>1, <1>8, <1>11, <1>12, <1>13, <1>14, SendKeeps

\* cancel: a cancel takes the next number, and is noted under it.
LEMMA CancelKeeps == ASSUME NEW o \in Order, OrdersInv, cancel(o) PROVE OrdersInv'
<1> USE DEF OrdersInv
<1>1. /\ hnd \in HandlerState /\ gwy' = gwy /\ som' = som /\ hist' = hist
      /\ hnd.phase = "established" /\ o \in Sent
  BY DEF Shape, cancel, Up
<1>2. hnd.NextSeqNo \in Nat /\ hnd.NextSeqNo + 1 \in Nat /\ hnd.asks \in Seq(Refusable \cup Party)
      /\ hnd.canc \in SUBSET (Nat \X Order)
  BY <1>1 DEF HandlerState
<1>3. PICK m \in Refusable : m = OrderCancelRequest(hnd.NextSeqNo, o)
  BY <1>2 DEF OrderCancelRequest, Refusable
<1>4. /\ m.kind = "CancelRequest" /\ m.seqnum = hnd.NextSeqNo /\ m.oid = o
      /\ Pair(m) \in Nat \X Order /\ Pair(m) = <<hnd.NextSeqNo, o>>
  BY <1>2, <1>3 DEF OrderCancelRequest, Pair
<1>5. hnd' = [hnd EXCEPT !.asks = Append(@, m), !.canc = @ \cup {Pair(m)}, !.NextSeqNo = @ + 1]
  BY <1>3, <1>4 DEF cancel
<1>6. /\ Append(hnd.asks, m) \in Seq(Refusable \cup Party)
      /\ \A i \in DOMAIN Append(hnd.asks, m) :
           Append(hnd.asks, m)[i] = m \/ (i \in DOMAIN hnd.asks /\ Append(hnd.asks, m)[i] = hnd.asks[i])
  <2>1. m \in Refusable \cup Party
    OBVIOUS
  <2> QED BY <1>2, <2>1, QueueFact
<1>7. hnd.canc \cup {Pair(m)} \in SUBSET (Nat \X Order)
  BY <1>2, <1>4
<1>8. /\ hnd' \in HandlerState /\ hnd'.phase = "established" /\ SameNumbers(hnd', hnd)
      /\ hnd'.aborted = hnd.aborted /\ hnd'.exec_reject_cnt = hnd.exec_reject_cnt
      /\ hnd'.bus_reject_cnt = hnd.bus_reject_cnt /\ hnd'.nos = hnd.nos
      /\ hnd'.canc = hnd.canc \cup {Pair(m)} /\ hnd'.still = hnd.still
      /\ hnd'.NextSeqNo = hnd.NextSeqNo + 1 /\ hnd'.asks = Append(hnd.asks, m)
  BY <1>1, <1>2, <1>5, <1>6, <1>7 DEF HandlerState, SameNumbers
<1>9. Sent' = Sent
  BY <1>8 DEF Sent
<1>10. Numbered'
  BY <1>1, <1>4, <1>8, <1>9, NumberedSends
<1>11. \A i \in DOMAIN hnd'.asks : hnd'.asks[i].kind # "PartyList"
                                     \/ \E j \in DOMAIN hnd.asks : hnd'.asks[i] = hnd.asks[j]
  BY <1>4, <1>6, <1>8
<1>12. hnd.NextSeqNo <= hnd'.NextSeqNo /\ hnd.nos \subseteq hnd'.nos
  BY <1>2, <1>8
<1> QED BY <1>1, <1>8, <1>9, <1>10, <1>11, <1>12, SendKeeps

\* A report is lost on the way, sent for the first time or again.
LEMMA LoseKeeps == OrdersInv /\ (Lose \/ LoseRetransmitted) => OrdersInv'
<1> SUFFICES ASSUME OrdersInv, Lose \/ LoseRetransmitted PROVE OrdersInv'
  OBVIOUS
<1> USE DEF OrdersInv
<1>1. hnd' = hnd /\ som' = som /\ hnd.phase = "established"
  BY DEF Lose, LoseRetransmitted, Up
<1>2. /\ gwy \in GatewayState /\ hist \in History /\ gwy.live \in Nat /\ gwy.live + 1 \in Nat \ {0}
      /\ hist.lost + 1 \in Nat /\ Len(gwy.log) \in Nat
  BY DEF Shape, GatewayState, History
<1>3. /\ gwy' \in GatewayState /\ hist' \in History /\ gwy'.log = gwy.log /\ gwy'.open = gwy.open
      /\ gwy'.leaves = gwy.leaves /\ hist'.rcvd = hist.rcvd /\ hist'.guessed = hist.guessed
      /\ hist'.asked = hist.asked /\ hist'.late = hist.late
      /\ hist.hole => hist'.hole
      /\ ~hist'.hole => gwy'.rt = gwy.rt
      /\ Wire'
  <2>1. CASE Lose
    <3>1. /\ gwy' \in GatewayState /\ hist' \in History /\ gwy'.log = gwy.log /\ gwy'.open = gwy.open
          /\ gwy'.leaves = gwy.leaves /\ hist'.rcvd = hist.rcvd /\ hist'.guessed = hist.guessed
          /\ hist'.asked = hist.asked /\ hist'.late = hist.late
          /\ hist'.hole = hist.hole /\ gwy'.rt = gwy.rt /\ gwy'.live = gwy.live + 1
          /\ gwy.live <= Len(gwy.log)
      BY <2>1, <1>2 DEF Lose, GatewayState, History
    <3>2. hist.rcvd \in SUBSET Nat /\ (gwy.rt # <<>> => gwy.rt[2] \in Nat)
      BY <1>2 DEF History, GatewayState
    <3>3. Wire'
      BY <3>1, <3>2, <1>1, <1>2 DEF Wire
    <3> QED BY <3>1, <3>3
  <2>2. CASE LoseRetransmitted
    <3>1. gwy.rt # <<>> /\ gwy.rt \in Nat \X Nat /\ Head(gwy.rt) = gwy.rt[1]
      BY <2>2, <1>2 DEF LoseRetransmitted, GatewayState
    <3>2. Advance(gwy.rt) \in {<<>>} \cup (Nat \X Nat)
      BY <3>1 DEF Advance
    <3>3. /\ gwy' \in GatewayState /\ hist' \in History /\ gwy'.log = gwy.log /\ gwy'.open = gwy.open
          /\ gwy'.leaves = gwy.leaves /\ hist'.rcvd = hist.rcvd /\ hist'.guessed = hist.guessed
          /\ hist'.asked = hist.asked /\ hist'.late = hist.late
          /\ hist'.hole /\ gwy'.rt = Advance(gwy.rt) /\ gwy'.live = gwy.live
      BY <2>2, <3>2, <1>2 DEF LoseRetransmitted, GatewayState, History
    <3>4. Wire'
      <4>1. Advance(gwy.rt) # <<>> => /\ Advance(gwy.rt)[1] = gwy.rt[1] + 1 /\ Advance(gwy.rt)[2] = gwy.rt[2]
                                     /\ gwy.rt[1] # gwy.rt[2]
        BY <3>1 DEF Advance
      <4>2. gwy.rt[1] \in Nat /\ gwy.rt[2] \in Nat
        BY <3>1
      <4> HIDE DEF Advance
      <4> QED BY <3>1, <3>3, <4>1, <4>2, <1>1, <1>2 DEF Wire
    <3> QED BY <3>3, <3>4
  <2> QED BY <2>1, <2>2
<1>4. LogKept /\ SameNumbers(hnd', hnd) /\ Sent' = Sent
  BY <1>1, <1>3 DEF LogKept, SameNumbers, Sent
<1>5. Shape' /\ Unbound'
  BY <1>1, <1>3 DEF Shape, Unbound
<1>6. Sequenced' /\ GapRequested' /\ AbortExplained'
  BY <1>1, <1>3, <1>4, SequencedKept
<1>7. ASSUME NEW o \in Order PROVE Descends(o)' /\ Exact(o)'
  <2>1. TradesOf(o)' = TradesOf(o)
    BY <1>3 DEF TradesOf
  <2>2. Descends(o)'
    BY <2>1, <1>3, <1>4, DescendsKept
  <2> QED BY <2>2, <1>1, <1>3, <1>4, ExactKept
<1>8. hnd.NextSeqNo \in Nat /\ hnd.NextSeqNo <= hnd.NextSeqNo
  BY DEF Shape, HandlerState
<1>9. Verdicts'
  BY <1>1, <1>3, <1>4, <1>8, VerdictsKept
<1>10. Numbered'
  BY <1>1, <1>3, <1>8, NumberedKept
<1> QED BY <1>3, <1>5, <1>6, <1>7, <1>9, <1>10

-----------------------------------------------------------------------------
(* Numbers the handler only hears of *)

\* A larger bound is a bound too.
LEMMA WithinMore ==
    \A h \in HandlerState, M, N \in Nat : Within(h, M) /\ M <= N => Within(h, N)
<1> SUFFICES ASSUME NEW h \in HandlerState, NEW M \in Nat, NEW N \in Nat, Within(h, M), M <= N
             PROVE  Within(h, N)
  OBVIOUS
<1>1. /\ h.lastseq \in Nat /\ h.last_req \in Nat /\ h.seen \in SUBSET Nat
      /\ h.requests \in Seq(Piece) /\ h.waiting \in Seq(Piece)
  BY DEF HandlerState
<1>2. Held(h) \subseteq Piece
  BY <1>1, ElementsFact DEF Held
<1>3. \A q \in Piece : q.from + q.count \in Nat
  BY DEF Piece
<1>4. \A x \in Nat : x <= M => x <= N
  OBVIOUS
<1> QED BY <1>1, <1>2, <1>3, <1>4 DEF Within

\* What is requested are numbers.
LEMMA RequestedFact == \A h \in HandlerState : Requested(h) \in SUBSET Nat
<1> TAKE h \in HandlerState
<1>1. h.requests \in Seq(Piece) /\ h.waiting \in Seq(Piece)
  BY DEF HandlerState
<1>2. Held(h) \subseteq Piece
  BY <1>1, ElementsFact DEF Held
<1>3. \A q \in Piece : Covers(q) \subseteq Nat
  BY DEF Covers, Piece
<1>4. Requested(h) = UNION {Covers(q) : q \in Held(h)}
  BY DEF Requested, Held, Elements
<1> QED BY <1>2, <1>3, <1>4

\* The handler's numbers change, and perhaps what it has guessed; nothing is received.
LEMMA HeardKeeps ==
    ASSUME OrdersInv, ~hnd.aborted, som' = som, hist' \in History, hnd' \in HandlerState,
           gwy' \in GatewayState, gwy'.log = gwy.log, gwy'.open = gwy.open, gwy'.leaves = gwy.leaves,
           hist'.rcvd = hist.rcvd, hist'.late = hist.late, hist.asked \subseteq hist'.asked,
           hist.guessed <= hist'.guessed, hnd'.phase = "established", hnd'.NextSeqNo = hnd.NextSeqNo,
           hnd'.nos = hnd.nos, hnd'.canc = hnd.canc, hnd'.still = hnd.still,
           \A i \in DOMAIN hnd'.asks : \E j \in DOMAIN hnd.asks : hnd'.asks[i] = hnd.asks[j],
           Wire', TopKnown' /\ Top <= Top' => Sequenced' /\ AbortExplained'
    PROVE  OrdersInv'
<1> USE DEF OrdersInv
<1>1. LogKept /\ Sent' = Sent
  BY DEF LogKept, Sent
<1>2. Shape' /\ Unbound'
  BY DEF Shape, Unbound
<1>3. hist.guessed \in Nat /\ hist'.guessed \in Nat
  BY <1>2 DEF Shape, History
<1>5. TopKnown /\ TopKnown'
  BY <1>2, TopFact, TopFactNext
<1>6. Received' = Received /\ Newest' = Newest
  BY <1>1, SeenKept
<1>7. Top <= Top'
  BY <1>3, <1>5, <1>6 DEF TopKnown
<1>8. Sequenced' /\ AbortExplained'
  BY <1>5, <1>7
<1>9. GapRequested'
  <2> SUFFICES ASSUME NEW n \in 1..Newest
               PROVE  n \in hist'.rcvd \cup hist'.asked \/ n <= hist'.guessed
    BY <1>6 DEF GapRequested
  <2>1. n \in hist.rcvd \cup hist.asked \/ n <= hist.guessed
    BY DEF GapRequested
  <2>2. n \in Nat
    BY <1>5 DEF TopKnown
  <2> QED BY <2>1, <2>2, <1>3
<1>10. ASSUME NEW o \in Order PROVE Descends(o)' /\ Exact(o)'
  <2>1. TradesOf(o)' = TradesOf(o)
    BY DEF TradesOf
  <2>2. Descends(o)'
    BY <2>1, <1>1, DescendsKept
  <2> QED BY <2>2, <1>1, ExactKept
<1>11. hnd.NextSeqNo \in Nat /\ hnd.NextSeqNo <= hnd.NextSeqNo
  BY DEF Shape, HandlerState
<1>12. Verdicts'
  BY <1>1, <1>11, VerdictsKept
<1>13. Numbered'
  BY <1>11, NumberedKept
<1> QED BY <1>2, <1>8, <1>9, <1>10, <1>12, <1>13

\* sequence: the handler checks the number of the newest report the gateway announces.
LEMMA SequenceKeeps == OrdersInv /\ sequence => OrdersInv'
<1> SUFFICES ASSUME OrdersInv, sequence PROVE OrdersInv'
  OBVIOUS
<1> USE DEF OrdersInv
<1> DEFINE sn == gwy.live - 1
<1>1. hnd \in HandlerState /\ ~hnd.aborted /\ hnd.phase = "established" /\ gwy' = gwy /\ som' = som
  BY DEF Shape, sequence, Up
<1>2. sn \in Nat /\ hist \in History /\ hist.guessed \in Nat
  BY DEF Shape, GatewayState, History
<1> HIDE DEF sn
<1>3. /\ hnd' = check_seq(hnd, sn, FALSE)
      /\ hist' = [hist EXCEPT !.guessed = IF sn \in hnd.seen THEN @ ELSE Max({@, sn})]
  BY DEF sequence, sn
<1>4. hnd' \in HandlerState /\ Rest(hnd') = Rest(hnd) /\ ~hnd'.aborted /\ Passed(hnd, hnd', sn, FALSE)
  BY <1>1, <1>2, <1>3, CheckSeqFact
<1>5. Max({hist.guessed, sn}) \in Nat /\ hist.guessed <= Max({hist.guessed, sn}) /\ sn <= Max({hist.guessed, sn})
  BY <1>2, MaxOfTwo
<1>6. /\ hist' \in History /\ hist'.rcvd = hist.rcvd /\ hist'.late = hist.late /\ hist'.asked = hist.asked
      /\ hist'.hole = hist.hole
      /\ hist'.guessed = IF sn \in hnd.seen THEN hist.guessed ELSE Max({hist.guessed, sn})
  BY <1>2, <1>3, <1>5 DEF History
<1>7. hist.guessed <= hist'.guessed /\ hist'.guessed \in Nat /\ (sn \notin hnd.seen => sn <= hist'.guessed)
  BY <1>2, <1>5, <1>6
<1>8. /\ hnd'.phase = "established" /\ hnd'.NextSeqNo = hnd.NextSeqNo /\ hnd'.nos = hnd.nos
      /\ hnd'.canc = hnd.canc /\ hnd'.still = hnd.still /\ hnd'.asks = hnd.asks
  BY <1>1, <1>4 DEF Rest
<1>9. ASSUME TopKnown', Top <= Top' PROVE Sequenced' /\ AbortExplained'
  <2>1. TopKnown
    BY TopFact
  <2>2. Within(hnd, Top)
    BY <1>1 DEF Sequenced
  <2>3. Within(hnd, Top')
    BY <2>1, <2>2, <1>1, <1>9, WithinMore DEF TopKnown
  <2>4. sn <= Top'
    <3>1. CASE sn \in hnd.seen
      BY <3>1, <2>3 DEF Within
    <3>2. CASE sn \notin hnd.seen
      BY <3>2, <1>2, <1>7, <1>9 DEF TopKnown
    <3> QED BY <3>1, <3>2
  <2>5. Within(hnd', Top')
    BY <2>3, <2>4, <1>4, <1>9 DEF Passed, TopKnown
  <2>6. ASSUME hist'.guessed = 0, ~hist'.hole
        PROVE  Based(hnd') \/ FirstAsked'
    <3>1. hist.guessed = 0 /\ ~hist.hole
      BY <2>6, <1>2, <1>6, <1>7
    <3>2. hnd.lastseq \in Nat
      BY <1>1 DEF HandlerState
    <3>3. CASE sn <= hnd.lastseq + 1
      <4>1. hnd'.lastseq = sn /\ sn \in hnd'.seen
        BY <3>3, <1>4 DEF Passed
      <4> QED BY <4>1, <1>2 DEF Based
    <3>4. CASE ~(sn <= hnd.lastseq + 1)
      <4>1. sn \in hnd.seen
        BY <3>4, <3>2, <2>6, <1>2, <1>7
      <4>2. hnd'.lastseq = hnd.lastseq /\ hnd.seen \subseteq hnd'.seen /\ HeadKept(hnd, hnd')
        BY <3>4, <1>4 DEF Passed
      <4>3. Based(hnd) \/ FirstAsked
        BY <3>1, <4>1, <1>1 DEF Sequenced, Clean
      <4>4. CASE Based(hnd)
        BY <4>4, <4>2 DEF Based
      <4>5. CASE FirstAsked
        BY <4>5, <4>2, <1>1 DEF FirstAsked, HeadKept
      <4> QED BY <4>3, <4>4, <4>5
    <3> QED BY <3>3, <3>4
  <2>7. Sequenced'
    BY <2>5, <2>6 DEF Sequenced, Within, Based
  <2> QED BY <2>7, <1>4 DEF AbortExplained
<1>10. Wire'
  <2>1. hist'.guessed = 0 => hist.guessed = 0
    BY <1>2, <1>7
  <2> QED BY <2>1, <1>1, <1>6, <1>8 DEF Wire
<1>11. gwy \in GatewayState
  BY DEF Shape
<1> QED BY <1>1, <1>4, <1>6, <1>7, <1>8, <1>9, <1>10, <1>11, HeardKeeps

\* notApplied: the handler checks the count of its own lost messages as a number of the gateway.
LEMMA NotAppliedKeeps == OrdersInv /\ notApplied => OrdersInv'
<1> SUFFICES ASSUME OrdersInv, notApplied PROVE OrdersInv'
  OBVIOUS
<1> USE DEF OrdersInv
<1>1. /\ hnd \in HandlerState /\ ~hnd.aborted /\ hnd.phase = "established" /\ gwy' = gwy /\ som' = som
      /\ hist \in History /\ hist.guessed \in Nat /\ hist.lost + 1 \in Nat
      /\ hnd.asks \in Seq(Refusable \cup Party)
  <2>1. ~hnd.aborted /\ hnd.phase = "established" /\ gwy' = gwy /\ som' = som
    BY DEF notApplied, Up
  <2>2. hnd \in HandlerState /\ hist \in History
    BY DEF Shape
  <2>3. hist.guessed \in Nat /\ hist.lost + 1 \in Nat
    BY <2>2 DEF History
  <2> QED BY <2>1, <2>2, <2>3 DEF HandlerState
<1>2. PICK sn \in 1..Len(hnd.asks) :
        LET h == check_seq(hnd, sn, TRUE)
        IN /\ hnd' = [h EXCEPT !.asks = SubSeq(@, sn + 1, Len(@))]
           /\ hist' = [hist EXCEPT !.lost = @ + 1, !.guessed = Max({@, sn}),
                                   !.asked = @ \cup Requested(h)]
  BY DEF notApplied
<1> DEFINE h == check_seq(hnd, sn, TRUE)
<1>3. sn \in Nat /\ sn # 0 /\ sn <= Len(hnd.asks)
  BY <1>1
<1>4. h \in HandlerState /\ Rest(h) = Rest(hnd) /\ (~h.aborted => Passed(hnd, h, sn, TRUE))
  BY <1>1, <1>3, CheckSeqFact
<1>5. /\ hnd' = [h EXCEPT !.asks = SubSeq(@, sn + 1, Len(@))]
      /\ hist' = [hist EXCEPT !.lost = @ + 1, !.guessed = Max({@, sn}), !.asked = @ \cup Requested(h)]
  BY <1>2
<1> HIDE DEF h
<1>6. /\ h.phase = "established" /\ h.NextSeqNo = hnd.NextSeqNo /\ h.nos = hnd.nos
      /\ h.canc = hnd.canc /\ h.still = hnd.still /\ h.asks = hnd.asks
  BY <1>1, <1>4 DEF Rest
<1>7. /\ SubSeq(hnd.asks, sn + 1, Len(hnd.asks)) \in Seq(Refusable \cup Party)
      /\ \A i \in DOMAIN SubSeq(hnd.asks, sn + 1, Len(hnd.asks)) :
           /\ sn + i \in DOMAIN hnd.asks
           /\ SubSeq(hnd.asks, sn + 1, Len(hnd.asks))[i] = hnd.asks[sn + i]
  BY <1>1, <1>3, QueueFact
<1>8. /\ hnd' \in HandlerState /\ hnd'.phase = "established" /\ hnd'.NextSeqNo = hnd.NextSeqNo
      /\ hnd'.nos = hnd.nos /\ hnd'.canc = hnd.canc /\ hnd'.still = hnd.still
      /\ hnd'.asks = SubSeq(hnd.asks, sn + 1, Len(hnd.asks)) /\ SameNumbers(hnd', h)
      /\ hnd'.aborted = h.aborted
  BY <1>4, <1>5, <1>6, <1>7 DEF HandlerState, SameNumbers
<1>9. Requested(h) \in SUBSET Nat
  BY <1>4, RequestedFact
<1>10. Max({hist.guessed, sn}) \in Nat /\ hist.guessed <= Max({hist.guessed, sn}) /\ sn <= Max({hist.guessed, sn})
  BY <1>1, <1>3, MaxOfTwo
<1>11. /\ hist' \in History /\ hist'.rcvd = hist.rcvd /\ hist'.late = hist.late
       /\ hist'.asked = hist.asked \cup Requested(h) /\ hist'.guessed = Max({hist.guessed, sn})
  BY <1>1, <1>5, <1>9, <1>10 DEF History
<1>12. hist'.guessed # 0 /\ hist'.guessed > 0 /\ hist'.guessed \in Nat
  BY <1>3, <1>10, <1>11
<1>13. ASSUME TopKnown', Top <= Top' PROVE Sequenced' /\ AbortExplained'
  <2>1. TopKnown
    BY TopFact
  <2>2. Within(hnd, Top)
    BY <1>1 DEF Sequenced
  <2>3. Within(hnd, Top')
    BY <2>1, <2>2, <1>1, <1>13, WithinMore DEF TopKnown
  <2>4. sn <= Top'
    BY <1>3, <1>10, <1>11, <1>13 DEF TopKnown
  <2>5. ~h.aborted => Within(h, Top')
    BY <2>3, <2>4, <1>4, <1>13 DEF Passed, TopKnown
  <2>6. ~hnd'.aborted => Within(hnd', Top')
    BY <2>5, <1>8 DEF Within, Held, SameNumbers
  <2>7. Sequenced'
    BY <2>6, <1>12 DEF Sequenced, Within
  <2> QED BY <2>7, <1>12 DEF AbortExplained
<1>14. \A i \in DOMAIN hnd'.asks : \E j \in DOMAIN hnd.asks : hnd'.asks[i] = hnd.asks[j]
  BY <1>7, <1>8
<1>15. Wire'
  BY <1>1, <1>11, <1>12, <1>14 DEF Wire
<1>16. gwy \in GatewayState
  BY DEF Shape
<1> QED BY <1>1, <1>8, <1>10, <1>11, <1>13, <1>14, <1>15, <1>16, HeardKeeps

-----------------------------------------------------------------------------
(* The gateway *)

\* The gateway numbers a report: r is new in the log, and the handler's asks may
\* be one fewer.
LEMMA ReportKeeps ==
    ASSUME OrdersInv, NEW r \in Report, gwy' \in GatewayState, gwy'.log = Append(gwy.log, r),
           gwy'.live = gwy.live, gwy'.rt = gwy.rt, som' = som, hist' = hist,
           hnd.phase = "established", hnd' \in HandlerState,
           SameNumbers(hnd', hnd), hnd'.phase = hnd.phase, hnd'.aborted = hnd.aborted,
           hnd'.exec_reject_cnt = hnd.exec_reject_cnt, hnd'.bus_reject_cnt = hnd.bus_reject_cnt,
           hnd'.NextSeqNo = hnd.NextSeqNo, hnd'.nos = hnd.nos, hnd'.canc = hnd.canc,
           hnd'.still = hnd.still,
           \A i \in DOMAIN hnd'.asks : \E j \in DOMAIN hnd.asks : hnd'.asks[i] = hnd.asks[j],
           hist.guessed = 0 => r # PartyDetailsReport,
           \/ r.kind # "BusinessReject"
           \/ \E j \in DOMAIN hnd.asks : /\ hnd.asks[j].kind \in {"NewOrder", "CancelRequest"}
                                         /\ r = BusinessReject(hnd.asks[j]),
           \A o \in Order : (r.kind = "Trade" /\ r.oid = o) \/ gwy'.leaves[o] = gwy.leaves[o],
           \A o \in Order : o \in gwy'.open => o \in gwy.open \cup Sent,
           r.kind = "Trade" => /\ r.oid \in Sent /\ r.LeavesQty < gwy.leaves[r.oid]
                               /\ gwy'.leaves[r.oid] = r.LeavesQty
    PROVE  OrdersInv'
<1> USE DEF OrdersInv
<1> DEFINE k == Len(gwy.log) + 1
<1>1. /\ gwy.log \in Seq(Report) /\ Len(gwy.log) \in Nat /\ Len(gwy'.log) = k /\ k \in Nat
      /\ DOMAIN gwy.log = 1..Len(gwy.log)
  <2>1. gwy.log \in Seq(Report)
    BY DEF Shape, GatewayState
  <2> QED BY <2>1, QueueFact
<1>2. /\ DOMAIN gwy'.log = DOMAIN gwy.log \cup {k} /\ k \notin DOMAIN gwy.log
      /\ \A n \in DOMAIN gwy.log : gwy'.log[n] = gwy.log[n]
      /\ gwy'.log[k] = r
  BY <1>1, QueueFact
<1>3. LogKept /\ Sent' = Sent
  BY <1>2 DEF LogKept, Sent
<1>4. Shape' /\ Unbound'
  BY DEF Shape, Unbound
<1>5. Wire'
  <2>1. (hist.rcvd \subseteq 1..Len(gwy.log) /\ gwy.live <= Len(gwy.log) + 1)'
    <3>1. gwy.live \in Nat
      BY DEF Shape, GatewayState
    <3> QED BY <3>1, <1>1 DEF Wire
  <2>2. (gwy.rt # <<>> => /\ gwy.rt[1] >= 1 /\ gwy.rt[1] <= gwy.rt[2] /\ gwy.rt[2] <= Len(gwy.log))'
    <3>1. gwy.rt # <<>> => gwy.rt[2] \in Nat
      BY DEF Shape, GatewayState
    <3> QED BY <3>1, <1>1 DEF Wire
  <2>3. hist.guessed = 0 => \A n \in DOMAIN gwy'.log : gwy'.log[n] # PartyDetailsReport
    BY <1>2 DEF Wire
  <2>4. hist.guessed = 0 => \A i \in DOMAIN hnd'.asks : hnd'.asks[i].kind # "PartyList"
    BY DEF Wire
  <2> QED BY <2>1, <2>2, <2>3, <2>4 DEF Wire
<1>6. Sequenced' /\ GapRequested' /\ AbortExplained'
  BY <1>3, SequencedKept
<1>7. hnd.NextSeqNo \in Nat /\ hnd.NextSeqNo <= hnd.NextSeqNo
  BY DEF Shape, HandlerState
<1>8. Verdicts'
  BY <1>3, <1>7, VerdictsKept
<1>9. Numbered'
  <2>1. \A n \in DOMAIN gwy'.log :
          \/ n \in DOMAIN gwy.log /\ gwy'.log[n] = gwy.log[n]
          \/ gwy'.log[n].kind # "BusinessReject"
          \/ \E j \in DOMAIN hnd.asks : /\ hnd.asks[j].kind \in {"NewOrder", "CancelRequest"}
                                        /\ gwy'.log[n] = BusinessReject(hnd.asks[j])
    BY <1>2
  <2> QED BY <2>1, <1>7, NumberedKept
<1>10. ASSUME NEW o \in Order PROVE Exact(o)'
  BY <1>3, ExactKept
<1>11. ASSUME NEW o \in Order PROVE Descends(o)'
  <2> HIDE DEF k
  <2>1. CASE ~(r.kind = "Trade" /\ r.oid = o)
    <3>1. TradesOf(o)' = TradesOf(o)
      BY <2>1, <1>2 DEF TradesOf
    <3> QED BY <3>1, <2>1, <1>3, DescendsKept
  <2>2. CASE r.kind = "Trade" /\ r.oid = o
    <3>1. TradesOf(o)' = TradesOf(o) \cup {k}
      BY <2>2, <1>2 DEF TradesOf
    <3>2. \A n \in TradesOf(o) : /\ n \in DOMAIN gwy.log /\ gwy'.log[n] = gwy.log[n] /\ n \in Nat /\ n < k
                                 /\ gwy.log[n].LeavesQty \in Nat /\ gwy.leaves[o] <= gwy.log[n].LeavesQty
      <4> SUFFICES ASSUME NEW n \in TradesOf(o)
                   PROVE  /\ n \in DOMAIN gwy.log /\ gwy'.log[n] = gwy.log[n] /\ n \in Nat /\ n < k
                          /\ gwy.log[n].LeavesQty \in Nat /\ gwy.leaves[o] <= gwy.log[n].LeavesQty
        OBVIOUS
      <4>1. n \in DOMAIN gwy.log /\ gwy.log[n].kind = "Trade"
        BY DEF TradesOf
      <4>2. n \in Nat /\ n < k
        BY <4>1, <1>1 DEF k
      <4>3. gwy.log[n] \in Report
        BY <4>1, <1>1
      <4>4. gwy.log[n].LeavesQty \in Nat
        BY <4>1, <4>3, ReportFact, ILinkAssumption
      <4> QED BY <4>1, <4>2, <4>4, <1>2 DEF Descends
    <3>3. gwy'.log[k].LeavesQty = r.LeavesQty /\ r.LeavesQty \in Nat /\ gwy.leaves[o] \in Nat /\ k \in Nat
      BY <2>2, <1>1, <1>2, ReportFact, ILinkAssumption DEF Shape, GatewayState
    <3>4. (\A n \in TradesOf(o) : gwy.leaves[o] <= gwy.log[n].LeavesQty)'
      <4> SUFFICES ASSUME NEW n \in TradesOf(o) \cup {k} PROVE r.LeavesQty <= gwy'.log[n].LeavesQty
        BY <3>1, <2>2
      <4>1. CASE n = k
        BY <4>1, <3>3
      <4>2. CASE n # k
        BY <4>2, <3>2, <3>3, <2>2
      <4> QED BY <4>1, <4>2
    <3>5. (\A m, n \in TradesOf(o) : m < n => gwy.log[n].LeavesQty < gwy.log[m].LeavesQty)'
      <4> SUFFICES ASSUME NEW m \in TradesOf(o) \cup {k}, NEW n \in TradesOf(o) \cup {k}, m < n
                   PROVE  gwy'.log[n].LeavesQty < gwy'.log[m].LeavesQty
        BY <3>1
      <4>1. m # k
        BY <3>2, <3>3
      <4>2. CASE n = k
        <5>1. /\ gwy'.log[m].LeavesQty \in Nat /\ gwy.leaves[o] <= gwy'.log[m].LeavesQty
              /\ r.LeavesQty < gwy.leaves[o]
          BY <4>1, <3>2, <2>2
        <5>a. \A x, y, z \in Nat : x < y /\ y <= z => x < z
          OBVIOUS
        <5>2. r.LeavesQty < gwy'.log[m].LeavesQty
          BY <5>1, <5>a, <3>3, Zenon
        <5> QED BY <5>2, <4>2, <3>3
      <4>3. CASE n # k
        BY <4>1, <4>3, <3>2 DEF Descends
      <4> QED BY <4>2, <4>3
    <3> QED BY <3>4, <3>5, <2>2, <1>3 DEF Descends
  <2> QED BY <2>1, <2>2
<1> QED BY <1>4, <1>5, <1>6, <1>8, <1>9, <1>10, <1>11

\* The gateway takes the first message.
LEMMA TookFact ==
    ASSUME hnd \in HandlerState, hnd.asks # <<>>, Took
    PROVE  /\ hnd' \in HandlerState /\ SameNumbers(hnd', hnd) /\ hnd'.phase = hnd.phase
           /\ hnd'.aborted = hnd.aborted /\ hnd'.exec_reject_cnt = hnd.exec_reject_cnt
           /\ hnd'.bus_reject_cnt = hnd.bus_reject_cnt /\ hnd'.NextSeqNo = hnd.NextSeqNo
           /\ hnd'.nos = hnd.nos /\ hnd'.canc = hnd.canc /\ hnd'.still = hnd.still
           /\ \A i \in DOMAIN hnd'.asks : \E j \in DOMAIN hnd.asks : hnd'.asks[i] = hnd.asks[j]
           /\ 1 \in DOMAIN hnd.asks /\ Head(hnd.asks) = hnd.asks[1]
           /\ Head(hnd.asks) \in Refusable \cup Party
<1>1. hnd.asks \in Seq(Refusable \cup Party)
  BY DEF HandlerState
<1>2. /\ Head(hnd.asks) = hnd.asks[1] /\ 1 \in DOMAIN hnd.asks /\ Tail(hnd.asks) \in Seq(Refusable \cup Party)
      /\ \A i \in DOMAIN Tail(hnd.asks) : i + 1 \in DOMAIN hnd.asks /\ Tail(hnd.asks)[i] = hnd.asks[i + 1]
  BY <1>1, QueueFact
<1>3. hnd.asks[1] \in Refusable \cup Party
  BY <1>1, <1>2
<1>4. hnd' = [hnd EXCEPT !.asks = Tail(hnd.asks)]
  BY DEF Took
<1>5. /\ hnd' \in HandlerState /\ SameNumbers(hnd', hnd) /\ hnd'.phase = hnd.phase
      /\ hnd'.aborted = hnd.aborted /\ hnd'.exec_reject_cnt = hnd.exec_reject_cnt
      /\ hnd'.bus_reject_cnt = hnd.bus_reject_cnt /\ hnd'.NextSeqNo = hnd.NextSeqNo
      /\ hnd'.nos = hnd.nos /\ hnd'.canc = hnd.canc /\ hnd'.still = hnd.still
      /\ hnd'.asks = Tail(hnd.asks)
  BY <1>2, <1>4 DEF HandlerState, SameNumbers
<1> QED BY <1>2, <1>3, <1>5

\* Reports that are none of the trades.
LEMMA NewReports ==
    ASSUME NEW o \in Order
    PROVE  /\ \A r \in {ExecutionReportNew(o), ExecutionReportReject(o), ExecutionReportCancel(o),
                        ExecutionReportElimination(o), OrderCancelReject(o), PartyDetailsAck,
                        PartyDetailsReport} :
                r \in Report /\ r.kind \notin {"Trade", "BusinessReject"}
           /\ \A r \in {ExecutionReportNew(o), ExecutionReportReject(o), ExecutionReportCancel(o),
                        ExecutionReportElimination(o), OrderCancelReject(o), PartyDetailsAck} :
                r # PartyDetailsReport
<1> USE DEF ExecutionReportNew, ExecutionReportReject, ExecutionReportCancel,
            ExecutionReportElimination, OrderCancelReject, PartyDetailsAck, PartyDetailsReport
<1>1. \A r \in {ExecutionReportNew(o), ExecutionReportReject(o), ExecutionReportCancel(o),
                ExecutionReportElimination(o), OrderCancelReject(o), PartyDetailsAck, PartyDetailsReport} :
        r \in Report
  BY DEF Report
<1>2. \A r \in {ExecutionReportNew(o), ExecutionReportReject(o), ExecutionReportCancel(o),
                ExecutionReportElimination(o), OrderCancelReject(o), PartyDetailsAck, PartyDetailsReport} :
        r.kind \notin {"Trade", "BusinessReject"}
  OBVIOUS
<1>3. \A r \in {ExecutionReportNew(o), ExecutionReportReject(o), ExecutionReportCancel(o),
                ExecutionReportElimination(o), OrderCancelReject(o), PartyDetailsAck} :
        r # PartyDetailsReport
  <2>1. \A r \in {ExecutionReportNew(o), ExecutionReportReject(o), ExecutionReportCancel(o),
                  ExecutionReportElimination(o), OrderCancelReject(o), PartyDetailsAck} :
          r.kind # PartyDetailsReport.kind
    OBVIOUS
  <2> QED BY <2>1
<1> QED BY <1>1, <1>2, <1>3

\* A business reject carries the number of the message it refuses, cut to its width.
LEMMA BusinessRejects ==
    \A m \in Refusable : /\ BusinessReject(m) \in Report /\ BusinessReject(m).kind = "BusinessReject"
                         /\ BusinessReject(m) # PartyDetailsReport
<1> TAKE m \in Refusable
<1>1. m.seqnum \in Nat
  BY DEF Refusable
<1>2. m.seqnum % RefWidth \in Nat
  BY <1>1, ILinkAssumption
<1>3. BusinessReject(m) \in Report /\ BusinessReject(m).kind = "BusinessReject"
  BY <1>2 DEF BusinessReject, Report
<1>4. PartyDetailsReport.kind = "PartyDetailsReport"
  BY DEF PartyDetailsReport
<1> QED BY <1>3, <1>4

\* A report that is no trade, with the orders open after it.
LEMMA QuietReport ==
    ASSUME OrdersInv, NEW r \in Report, NEW open \in SUBSET Order, som' = som, hist' = hist,
           gwy' = [gwy EXCEPT !.log = Append(@, r), !.open = open],
           hnd.phase = "established", hnd' = hnd \/ (hnd.asks # <<>> /\ Took),
           r.kind # "Trade", hist.guessed = 0 => r # PartyDetailsReport,
           \/ r.kind # "BusinessReject"
           \/ \E j \in DOMAIN hnd.asks : /\ hnd.asks[j].kind \in {"NewOrder", "CancelRequest"}
                                         /\ r = BusinessReject(hnd.asks[j]),
           open \subseteq gwy.open \cup Sent
    PROVE  OrdersInv'
<1>1. hnd \in HandlerState /\ gwy \in GatewayState
  BY DEF OrdersInv, Shape
<1>2. gwy.log \in Seq(Report)
  BY <1>1 DEF GatewayState
<1>3. Append(gwy.log, r) \in Seq(Report)
  BY <1>2, QueueFact
<1>4. /\ gwy' \in GatewayState /\ gwy'.log = Append(gwy.log, r) /\ gwy'.live = gwy.live
      /\ gwy'.rt = gwy.rt /\ gwy'.open = open /\ gwy'.leaves = gwy.leaves
  BY <1>1, <1>3 DEF GatewayState
<1>5. /\ hnd' \in HandlerState /\ SameNumbers(hnd', hnd) /\ hnd'.phase = hnd.phase
      /\ hnd'.aborted = hnd.aborted /\ hnd'.exec_reject_cnt = hnd.exec_reject_cnt
      /\ hnd'.bus_reject_cnt = hnd.bus_reject_cnt /\ hnd'.NextSeqNo = hnd.NextSeqNo
      /\ hnd'.nos = hnd.nos /\ hnd'.canc = hnd.canc /\ hnd'.still = hnd.still
      /\ \A i \in DOMAIN hnd'.asks : \E j \in DOMAIN hnd.asks : hnd'.asks[i] = hnd.asks[j]
  <2>1. CASE hnd' = hnd
    BY <2>1, <1>1 DEF SameNumbers
  <2>2. CASE hnd.asks # <<>> /\ Took
    BY <2>2, <1>1, TookFact
  <2> QED BY <2>1, <2>2
<1> QED BY <1>4, <1>5, ReportKeeps

\* The gateway answers an order: accepted, rejected or refused.
LEMMA TakeOrderKeeps == OrdersInv /\ TakeOrder => OrdersInv'
<1> SUFFICES ASSUME OrdersInv, TakeOrder PROVE OrdersInv'
  OBVIOUS
<1>1. /\ hnd \in HandlerState /\ gwy \in GatewayState /\ som' = som /\ hist' = hist
      /\ hnd.phase = "established" /\ hnd.asks # <<>> /\ Took /\ Head(hnd.asks).kind = "NewOrder"
  BY DEF OrdersInv, Shape, TakeOrder, Up
<1>2. PICK m : m = Head(hnd.asks)
  OBVIOUS
<1>3. 1 \in DOMAIN hnd.asks /\ m = hnd.asks[1] /\ m \in Refusable
  <2>1. 1 \in DOMAIN hnd.asks /\ m = hnd.asks[1] /\ m \in Refusable \cup Party
    BY <1>1, <1>2, TookFact
  <2> QED BY <2>1, <1>1, <1>2 DEF Party
<1>4. m.oid \in Order /\ m.oid \in Sent
  <2>1. m.oid \in Order /\ m.kind = "NewOrder"
    BY <1>1, <1>2, <1>3 DEF Refusable
  <2>2. Pair(m) \in hnd.nos
    BY <2>1, <1>3 DEF OrdersInv, Numbered, Noted
  <2>3. Pair(m)[2] = m.oid
    BY DEF Pair
  <2> QED BY <2>1, <2>2, <2>3 DEF Sent
<1>5. gwy.open \in SUBSET Order /\ gwy.open \cup {m.oid} \in SUBSET Order
  BY <1>1, <1>4 DEF GatewayState
<1>6. CASE gwy' = [Number(ExecutionReportNew(m.oid)) EXCEPT !.open = @ \cup {m.oid}]
  <2>1. PICK r \in Report : r = ExecutionReportNew(m.oid) /\ r.kind \notin {"Trade", "BusinessReject"} /\ r # PartyDetailsReport
    BY <1>4, NewReports
  <2>2. PICK open \in SUBSET Order : open = gwy.open \cup {m.oid}
    BY <1>5
  <2>3. gwy' = [gwy EXCEPT !.log = Append(@, r), !.open = open]
    BY <1>1, <1>6, <2>1, <2>2 DEF Number, GatewayState
  <2> QED BY <2>1, <2>2, <2>3, <1>1, <1>4, QuietReport
<1>7. CASE gwy' = Number(ExecutionReportReject(m.oid))
  <2>1. PICK r \in Report : r = ExecutionReportReject(m.oid) /\ r.kind \notin {"Trade", "BusinessReject"} /\ r # PartyDetailsReport
    BY <1>4, NewReports
  <2>2. PICK open \in SUBSET Order : open = gwy.open
    BY <1>5
  <2>3. gwy' = [gwy EXCEPT !.log = Append(@, r), !.open = open]
    BY <1>1, <1>7, <2>1, <2>2 DEF Number, GatewayState
  <2> QED BY <2>1, <2>2, <2>3, <1>1, QuietReport
<1>8. CASE gwy' = Number(BusinessReject(m))
  <2>1. PICK r \in Report : r = BusinessReject(m) /\ r.kind = "BusinessReject" /\ r # PartyDetailsReport
    BY <1>3, BusinessRejects
  <2>2. PICK open \in SUBSET Order : open = gwy.open
    BY <1>5
  <2>3. gwy' = [gwy EXCEPT !.log = Append(@, r), !.open = open]
    BY <1>1, <1>8, <2>1, <2>2 DEF Number, GatewayState
  <2>4. \E j \in DOMAIN hnd.asks : /\ hnd.asks[j].kind \in {"NewOrder", "CancelRequest"}
                                   /\ r = BusinessReject(hnd.asks[j])
    BY <1>1, <1>2, <1>3, <2>1
  <2> QED BY <2>1, <2>2, <2>3, <2>4, <1>1, QuietReport
<1> QED BY <1>2, <1>6, <1>7, <1>8 DEF TakeOrder

\* The gateway answers a cancel: done, rejected or refused.
LEMMA TakeCancelKeeps == OrdersInv /\ TakeCancel => OrdersInv'
<1> SUFFICES ASSUME OrdersInv, TakeCancel PROVE OrdersInv'
  OBVIOUS
<1>1. /\ hnd \in HandlerState /\ gwy \in GatewayState /\ som' = som /\ hist' = hist
      /\ hnd.phase = "established" /\ hnd.asks # <<>> /\ Took /\ Head(hnd.asks).kind = "CancelRequest"
  BY DEF OrdersInv, Shape, TakeCancel, Up
<1>2. PICK m : m = Head(hnd.asks)
  OBVIOUS
<1>3. 1 \in DOMAIN hnd.asks /\ m = hnd.asks[1] /\ m \in Refusable
  <2>1. 1 \in DOMAIN hnd.asks /\ m = hnd.asks[1] /\ m \in Refusable \cup Party
    BY <1>1, <1>2, TookFact
  <2> QED BY <2>1, <1>1, <1>2 DEF Party
<1>4. m.oid \in Order
  BY <1>3 DEF Refusable
<1>5. gwy.open \in SUBSET Order /\ gwy.open \ {m.oid} \in SUBSET Order
  BY <1>1 DEF GatewayState
<1>6. CASE gwy' = [Number(ExecutionReportCancel(m.oid)) EXCEPT !.open = @ \ {m.oid}]
  <2>1. PICK r \in Report : r = ExecutionReportCancel(m.oid) /\ r.kind \notin {"Trade", "BusinessReject"} /\ r # PartyDetailsReport
    BY <1>4, NewReports
  <2>2. PICK open \in SUBSET Order : open = gwy.open \ {m.oid}
    BY <1>5
  <2>3. gwy' = [gwy EXCEPT !.log = Append(@, r), !.open = open]
    BY <1>1, <1>6, <2>1, <2>2 DEF Number, GatewayState
  <2> QED BY <2>1, <2>2, <2>3, <1>1, QuietReport
<1>7. CASE gwy' = Number(OrderCancelReject(m.oid))
  <2>1. PICK r \in Report : r = OrderCancelReject(m.oid) /\ r.kind \notin {"Trade", "BusinessReject"} /\ r # PartyDetailsReport
    BY <1>4, NewReports
  <2>2. PICK open \in SUBSET Order : open = gwy.open
    BY <1>5
  <2>3. gwy' = [gwy EXCEPT !.log = Append(@, r), !.open = open]
    BY <1>1, <1>7, <2>1, <2>2 DEF Number, GatewayState
  <2> QED BY <2>1, <2>2, <2>3, <1>1, QuietReport
<1>8. CASE gwy' = Number(BusinessReject(m))
  <2>1. PICK r \in Report : r = BusinessReject(m) /\ r.kind = "BusinessReject" /\ r # PartyDetailsReport
    BY <1>3, BusinessRejects
  <2>2. PICK open \in SUBSET Order : open = gwy.open
    BY <1>5
  <2>3. gwy' = [gwy EXCEPT !.log = Append(@, r), !.open = open]
    BY <1>1, <1>8, <2>1, <2>2 DEF Number, GatewayState
  <2>4. \E j \in DOMAIN hnd.asks : /\ hnd.asks[j].kind \in {"NewOrder", "CancelRequest"}
                                   /\ r = BusinessReject(hnd.asks[j])
    BY <1>1, <1>2, <1>3, <2>1
  <2> QED BY <2>1, <2>2, <2>3, <2>4, <1>1, QuietReport
<1> QED BY <1>2, <1>6, <1>7, <1>8 DEF TakeCancel

\* The gateway answers a party definition or a list request.
LEMMA TakePartyKeeps == OrdersInv /\ TakeParty => OrdersInv'
<1> SUFFICES ASSUME OrdersInv, TakeParty PROVE OrdersInv'
  OBVIOUS
<1>1. /\ hnd \in HandlerState /\ gwy \in GatewayState /\ som' = som /\ hist' = hist
      /\ hnd.phase = "established" /\ hnd.asks # <<>> /\ Took
  BY DEF OrdersInv, Shape, TakeParty, Up
<1>2. gwy.open \in SUBSET Order
  BY <1>1 DEF GatewayState
<1>3. /\ PartyDetailsAck \in Report /\ PartyDetailsReport \in Report
      /\ PartyDetailsAck.kind = "PartyDetailsAck" /\ PartyDetailsReport.kind = "PartyDetailsReport"
  BY DEF PartyDetailsAck, PartyDetailsReport, Report
<1>4. PICK r \in Report : /\ gwy' = Number(r) /\ r.kind \notin {"Trade", "BusinessReject"}
                          /\ r = PartyDetailsReport => Head(hnd.asks).kind = "PartyList"
  BY <1>3 DEF TakeParty
<1>5. hist.guessed = 0 => r # PartyDetailsReport
  <2>1. 1 \in DOMAIN hnd.asks /\ Head(hnd.asks) = hnd.asks[1]
    BY <1>1, TookFact
  <2> QED BY <2>1, <1>4 DEF OrdersInv, Wire
<1>6. PICK open \in SUBSET Order : open = gwy.open
  BY <1>2
<1>7. gwy' = [gwy EXCEPT !.log = Append(@, r), !.open = open]
  BY <1>1, <1>4, <1>6 DEF Number, GatewayState
<1> QED BY <1>1, <1>4, <1>5, <1>6, <1>7, QuietReport

\* The gateway ends an open order by itself.
LEMMA EliminateKeeps == OrdersInv /\ Eliminate => OrdersInv'
<1> SUFFICES ASSUME OrdersInv, Eliminate PROVE OrdersInv'
  OBVIOUS
<1>1. /\ gwy \in GatewayState /\ som' = som /\ hist' = hist /\ hnd' = hnd /\ hnd.phase = "established"
  BY DEF OrdersInv, Shape, Eliminate, Up
<1>2. PICK o \in gwy.open : gwy' = [Number(ExecutionReportElimination(o)) EXCEPT !.open = @ \ {o}]
  BY DEF Eliminate
<1>3. o \in Order /\ gwy.open \ {o} \in SUBSET Order
  BY <1>1, <1>2 DEF GatewayState
<1>4. PICK r \in Report : r = ExecutionReportElimination(o) /\ r.kind \notin {"Trade", "BusinessReject"} /\ r # PartyDetailsReport
  BY <1>3, NewReports
<1>5. PICK open \in SUBSET Order : open = gwy.open \ {o}
  BY <1>3
<1>6. gwy' = [gwy EXCEPT !.log = Append(@, r), !.open = open]
  BY <1>1, <1>2, <1>4, <1>5 DEF Number, GatewayState
<1> QED BY <1>1, <1>4, <1>5, <1>6, QuietReport

\* An open order trades: its leaves go down, and the report says so.
LEMMA TradeKeeps == OrdersInv /\ Trade => OrdersInv'
<1> SUFFICES ASSUME OrdersInv, Trade PROVE OrdersInv'
  OBVIOUS
<1>1. /\ hnd \in HandlerState /\ gwy \in GatewayState /\ som' = som /\ hist' = hist /\ hnd' = hnd
      /\ hnd.phase = "established"
  BY DEF OrdersInv, Shape, Trade, Up
<1>2. PICK o \in gwy.open, left \in 0..(Size - 1) :
        /\ left < gwy.leaves[o]
        /\ gwy' = [Number(ExecutionReportTrade(o, left)) EXCEPT
                     !.leaves[o] = left, !.open = IF left = 0 THEN @ \ {o} ELSE @]
  BY DEF Trade
<1>3. o \in Order /\ o \in Sent /\ left \in 0..Size
  <2>1. o \in Order
    BY <1>1, <1>2 DEF GatewayState
  <2>2. Descends(o)
    BY <2>1 DEF OrdersInv
  <2> QED BY <2>1, <2>2, <1>2, ILinkAssumption DEF Descends
<1>4. PICK r \in Report : /\ r = ExecutionReportTrade(o, left) /\ r.kind = "Trade" /\ r.oid = o
                          /\ r.LeavesQty = left /\ r # PartyDetailsReport
  <2>1. ExecutionReportTrade(o, left) \in Report /\ ExecutionReportTrade(o, left).kind = "Trade"
    BY <1>3 DEF ExecutionReportTrade, Report
  <2>2. ExecutionReportTrade(o, left).oid = o /\ ExecutionReportTrade(o, left).LeavesQty = left
    BY DEF ExecutionReportTrade
  <2>3. PartyDetailsReport.kind = "PartyDetailsReport"
    BY DEF PartyDetailsReport
  <2> QED BY <2>1, <2>2, <2>3
<1>5. gwy.log \in Seq(Report) /\ gwy.leaves \in [Order -> 0..Size] /\ gwy.open \in SUBSET Order
  BY <1>1 DEF GatewayState
<1>6. /\ Append(gwy.log, r) \in Seq(Report) /\ [gwy.leaves EXCEPT ![o] = left] \in [Order -> 0..Size]
      /\ (IF left = 0 THEN gwy.open \ {o} ELSE gwy.open) \in SUBSET Order
  BY <1>3, <1>5, QueueFact
<1>7. gwy' = [gwy EXCEPT !.log = Append(gwy.log, r), !.leaves = [gwy.leaves EXCEPT ![o] = left],
                         !.open = IF left = 0 THEN gwy.open \ {o} ELSE gwy.open]
  BY <1>1, <1>2, <1>4 DEF Number, GatewayState
<1>8. /\ gwy' \in GatewayState /\ gwy'.log = Append(gwy.log, r) /\ gwy'.live = gwy.live
      /\ gwy'.rt = gwy.rt /\ gwy'.leaves = [gwy.leaves EXCEPT ![o] = left] /\ gwy'.open \subseteq gwy.open
  BY <1>1, <1>6, <1>7 DEF GatewayState
<1>9. /\ \A p \in Order : (r.kind = "Trade" /\ r.oid = p) \/ gwy'.leaves[p] = gwy.leaves[p]
      /\ gwy'.leaves[r.oid] = r.LeavesQty
  BY <1>3, <1>4, <1>5, <1>8
<1>10. SameNumbers(hnd', hnd)
  BY <1>1 DEF SameNumbers
<1> QED BY <1>1, <1>2, <1>3, <1>4, <1>8, <1>9, <1>10, ReportKeeps

\* The gateway answers the first retransmission request: it begins to send, or refuses.
LEMMA AnswerKeeps == OrdersInv /\ AnswerRequest => OrdersInv'
<1> SUFFICES ASSUME OrdersInv, AnswerRequest PROVE OrdersInv'
  OBVIOUS
<1> USE DEF OrdersInv
<1>1. /\ hnd \in HandlerState /\ gwy \in GatewayState /\ hist \in History /\ som' = som
      /\ hnd.phase = "established" /\ ~hnd.aborted /\ hnd.requests # <<>>
      /\ hnd' = [hnd EXCEPT !.requests = Tail(@)]
  BY DEF Shape, AnswerRequest, Up
<1> DEFINE q == Head(hnd.requests)
           last == q.from + q.count - 1
           granted == gwy.rt = <<>> /\ last <= Len(gwy.log)
<1>2. /\ gwy' = IF granted THEN [gwy EXCEPT !.rt = <<q.from, last>>] ELSE gwy
      /\ hist' = IF granted THEN hist ELSE [hist EXCEPT !.refused = TRUE]
  BY DEF AnswerRequest
<1>3. hnd.requests \in Seq(Piece) /\ hnd.waiting \in Seq(Piece)
  BY <1>1 DEF HandlerState
<1>4. q \in Piece /\ Tail(hnd.requests) \in Seq(Piece)
      /\ Elements(hnd.requests) = {q} \cup Elements(Tail(hnd.requests))
  BY <1>1, <1>3, HeadTailProperties, ElementsFact
<1>5. q.from \in Nat \ {0} /\ q.count \in Nat \ {0} /\ last \in Nat /\ q.from <= last /\ q.from + q.count = last + 1
  BY <1>4 DEF Piece
<1> HIDE DEF q, last
<1>6. /\ hnd' \in HandlerState /\ hnd'.phase = hnd.phase /\ hnd'.lastseq = hnd.lastseq
      /\ hnd'.last_req = hnd.last_req /\ hnd'.waiting = hnd.waiting /\ hnd'.seen = hnd.seen
      /\ hnd'.requests = Tail(hnd.requests) /\ hnd'.asks = hnd.asks /\ hnd'.NextSeqNo = hnd.NextSeqNo
      /\ hnd'.nos = hnd.nos /\ hnd'.canc = hnd.canc /\ hnd'.still = hnd.still /\ hnd'.aborted = hnd.aborted
  BY <1>1, <1>4 DEF HandlerState
<1>7. <<q.from, last>> \in Nat \X Nat
  BY <1>5
<1>8. /\ gwy' \in GatewayState /\ gwy'.log = gwy.log /\ gwy'.open = gwy.open /\ gwy'.leaves = gwy.leaves
      /\ gwy'.live = gwy.live /\ gwy'.rt = IF granted THEN <<q.from, last>> ELSE gwy.rt
  BY <1>1, <1>2, <1>7 DEF GatewayState
<1>9. /\ hist' \in History /\ hist'.rcvd = hist.rcvd /\ hist'.late = hist.late /\ hist'.asked = hist.asked
      /\ hist'.hole = hist.hole /\ hist'.guessed = hist.guessed
  BY <1>1, <1>2 DEF History
<1>10. TopKnown
  BY TopFact
<1>11. Within(hnd, Top) /\ q \in Held(hnd)
  BY <1>1, <1>4 DEF Sequenced, Held
<1>12. last < Top /\ Top \in Nat
  <2>1. q.from + q.count <= Top
    BY <1>11 DEF Within
  <2> QED BY <2>1, <1>5, <1>10 DEF TopKnown
<1>13. hist.guessed = 0 => last < gwy.live /\ last <= Len(gwy.log)
  <2>1. SUFFICES ASSUME hist.guessed = 0 PROVE last < gwy.live /\ last <= Len(gwy.log)
    OBVIOUS
  <2>2. Top \in {0} \cup Received
    BY <2>1, <1>10 DEF TopKnown
  <2>3. Top \in hist.rcvd
    BY <2>2, <1>5, <1>12 DEF Received
  <2>4. Top < gwy.live /\ gwy.live <= Len(gwy.log) + 1
    BY <2>1, <2>3 DEF Wire
  <2>5. gwy.live \in Nat /\ Len(gwy.log) \in Nat
    BY <1>1 DEF GatewayState
  <2> QED BY <2>4, <2>5, <1>5, <1>12
<1>14. Wire'
  <2>1. granted => /\ <<q.from, last>>[1] >= 1 /\ <<q.from, last>>[1] <= <<q.from, last>>[2]
                   /\ <<q.from, last>>[2] <= Len(gwy.log)
                   /\ (hist.guessed = 0 => <<q.from, last>>[2] < gwy.live)
    BY <1>5, <1>13
  <2> QED BY <2>1, <1>6, <1>8, <1>9 DEF Wire
<1>15. ASSUME TopKnown', Top <= Top' PROVE Sequenced' /\ AbortExplained'
  <2>1. Within(hnd, Top')
    BY <1>1, <1>10, <1>11, <1>15, WithinMore DEF TopKnown
  <2>2. Held(hnd') \subseteq Held(hnd)
    BY <1>4, <1>6 DEF Held
  <2>3. Within(hnd', Top')
    BY <2>1, <2>2, <1>6 DEF Within
  <2>4. ASSUME hist'.guessed = 0, ~hist'.hole
        PROVE  Based(hnd') \/ FirstAsked'
    <3>1. Based(hnd) \/ FirstAsked
      BY <2>4, <1>1, <1>9 DEF Sequenced, Clean
    <3>2. CASE Based(hnd)
      BY <3>2, <1>6 DEF Based
    <3>3. CASE FirstAsked /\ gwy.rt = <<>>
      <4>1. granted /\ q.from = hnd.lastseq + 1 /\ hnd.seen # {}
        BY <3>3, <2>4, <1>9, <1>13 DEF FirstAsked, q
      <4>2. gwy'.rt = <<q.from, last>>
        BY <4>1, <1>8
      <4>3. gwy'.rt # <<>> /\ Head(gwy'.rt) = q.from
        BY <4>2
      <4> QED BY <4>1, <4>3, <1>6 DEF FirstAsked
    <3>4. CASE FirstAsked /\ gwy.rt # <<>>
      <4>1. gwy'.rt = gwy.rt
        BY <3>4, <1>8
      <4> QED BY <3>4, <4>1, <1>6 DEF FirstAsked
    <3> QED BY <3>1, <3>2, <3>3, <3>4
  <2>5. Sequenced'
    BY <2>3, <2>4 DEF Sequenced, Within, Based
  <2> QED BY <2>5, <1>1, <1>6 DEF AbortExplained
<1>16. hist.guessed <= hist'.guessed
  BY <1>1, <1>9 DEF History
<1> QED BY <1>1, <1>6, <1>8, <1>9, <1>14, <1>15, <1>16, HeardKeeps

-----------------------------------------------------------------------------
(* A report reaches the handler *)

\* What Receive has done with report r of number sn.
Got(sn, r) ==
  /\ sn \in DOMAIN gwy.log /\ sn \in Nat \ {0} /\ r = gwy.log[sn] /\ r \in Report
  /\ hnd' \in HandlerState /\ som' \in [Order -> Verdict] /\ hist' \in History
  /\ hist'.rcvd = hist.rcvd \cup {sn} /\ hist'.asked = hist.asked \cup Requested(hnd')
  /\ hist'.hole = hist.hole /\ hist.guessed <= hist'.guessed
  /\ IF r.kind = "PartyDetailsAck" THEN sn <= hist'.guessed ELSE hist'.guessed = hist.guessed
  /\ hist'.late = IF r.kind = "Trade" /\ \E n \in TradesSeen(r.oid) : n > sn
                  THEN hist.late \cup {r.oid} ELSE hist.late
  /\ hnd'.phase = hnd.phase /\ hnd'.nos = hnd.nos /\ hnd'.canc = hnd.canc
  /\ hnd.NextSeqNo <= hnd'.NextSeqNo
  /\ \A i \in DOMAIN hnd'.asks : \/ i \in DOMAIN hnd.asks /\ hnd'.asks[i] = hnd.asks[i]
                                 \/ r.kind = "PartyDetailsAck" /\ hnd'.asks[i].kind = "PartyList"
  /\ Opens(hnd, hnd', r) /\ Filled(hnd, som, som', r) /\ (~hnd'.aborted => Heard(hnd, som, som', r))
  /\ CASE r.kind = "PartyDetailsAck" ->
            ~hnd'.aborted /\ \A M \in Nat : Within(hnd, M) /\ sn <= M => Within(hnd', M)
       [] r.kind = "PartyDetailsReport" -> hnd' = hnd
       [] OTHER -> Ends(hnd, hnd', sn)

\* Receive does that: what each callback does to a handler, over the kinds of report.
LEMMA ReceiveFact ==
    ASSUME OrdersInv, ~hnd.aborted, NEW sn \in DOMAIN gwy.log, Receive(sn)
    PROVE  Got(sn, gwy.log[sn])
<1> DEFINE r == gwy.log[sn]
           done == Handle(hnd, som, r, sn)
<1>1. /\ hnd \in HandlerState /\ gwy \in GatewayState /\ som \in [Order -> Verdict] /\ hist \in History
  BY DEF OrdersInv, Shape
<1>2. gwy.log \in Seq(Report)
  BY <1>1 DEF GatewayState
<1>3. sn \in Nat \ {0} /\ r \in Report
  BY <1>2
<1>4. /\ hnd' = done.h /\ som' = done.s
      /\ hist' = [hist EXCEPT
           !.rcvd = @ \cup {sn},
           !.asked = @ \cup Requested(done.h),
           !.guessed = IF r.kind = "PartyDetailsAck" THEN Max({@, sn}) ELSE @,
           !.late = IF r.kind = "Trade" /\ \E n \in TradesSeen(r.oid) : n > sn
                    THEN @ \cup {r.oid} ELSE @]
  BY DEF Receive
<1> HIDE DEF r, done
<1>5. /\ r.kind \notin {"PartyDetailsAck", "PartyDetailsReport"} => Handled(hnd, som, hnd', som', r, sn)
      /\ r.kind = "PartyDetailsAck" => done = partyDetailsAck(hnd, som, sn)
      /\ r.kind = "PartyDetailsReport" => hnd' = hnd /\ som' = som
  BY <1>1, <1>3, <1>4, HandleFact DEF done
<1>6. hnd.NextSeqNo \in Nat /\ hnd.asks \in Seq(Refusable \cup Party)
  BY <1>1 DEF HandlerState
<1> DEFINE After ==
             /\ hnd' \in HandlerState /\ som' \in [Order -> Verdict]
             /\ hnd'.phase = hnd.phase /\ hnd'.nos = hnd.nos /\ hnd'.canc = hnd.canc
             /\ hnd.NextSeqNo <= hnd'.NextSeqNo
             /\ \A i \in DOMAIN hnd'.asks :
                  \/ i \in DOMAIN hnd.asks /\ hnd'.asks[i] = hnd.asks[i]
                  \/ r.kind = "PartyDetailsAck" /\ hnd'.asks[i].kind = "PartyList"
             /\ Opens(hnd, hnd', r) /\ Filled(hnd, som, som', r)
             /\ ~hnd'.aborted => Heard(hnd, som, som', r)
             /\ CASE r.kind = "PartyDetailsAck" ->
                       ~hnd'.aborted /\ \A M \in Nat : Within(hnd, M) /\ sn <= M => Within(hnd', M)
                  [] r.kind = "PartyDetailsReport" -> hnd' = hnd
                  [] OTHER -> Ends(hnd, hnd', sn)
<1>7. After
  <2>1. CASE r.kind \notin {"PartyDetailsAck", "PartyDetailsReport"}
    <3>1. Handled(hnd, som, hnd', som', r, sn)
      BY <2>1, <1>5
    <3>2. /\ hnd'.phase = hnd.phase /\ hnd'.nos = hnd.nos /\ hnd'.canc = hnd.canc
          /\ hnd'.NextSeqNo = hnd.NextSeqNo /\ hnd'.asks = hnd.asks
      BY <3>1 DEF Handled, Keys
    <3>3. hnd.NextSeqNo <= hnd'.NextSeqNo
      BY <3>2, <1>6
    <3> QED BY <3>1, <3>2, <3>3, <2>1 DEF Handled
  <2>2. CASE r.kind = "PartyDetailsReport"
    <3>1. hnd' = hnd /\ som' = som
      BY <2>2, <1>5
    <3>2. Opens(hnd, hnd, r) /\ Filled(hnd, som, som, r) /\ Heard(hnd, som, som, r)
      BY <2>2 DEF Opens, Filled, Heard, Hears
    <3>3. hnd.NextSeqNo <= hnd.NextSeqNo
      BY <1>6
    <3> QED BY <3>1, <3>2, <3>3, <2>2, <1>1
  <2>3. CASE r.kind = "PartyDetailsAck"
    <3>1. done = partyDetailsAck(hnd, som, sn)
      BY <2>3, <1>5
    <3>2. /\ hnd' \in HandlerState /\ ~hnd'.aborted /\ som' = som
          /\ hnd'.phase = hnd.phase /\ hnd'.nos = hnd.nos /\ hnd'.canc = hnd.canc /\ hnd'.still = hnd.still
          /\ hnd'.NextSeqNo = hnd.NextSeqNo + 1
          /\ hnd'.asks = Append(hnd.asks, PartyDetailsListRequest(hnd.NextSeqNo))
          /\ \A M \in Nat : Within(hnd, M) /\ sn <= M => Within(hnd', M)
      BY <3>1, <1>1, <1>3, <1>4, PartyDetailsAckFact
    <3>3. Opens(hnd, hnd', r) /\ Filled(hnd, som, som', r) /\ Heard(hnd, som, som', r)
      BY <2>3, <3>2 DEF Opens, Filled, Heard, Hears
    <3>4. hnd.NextSeqNo <= hnd'.NextSeqNo
      BY <3>2, <1>6
    <3>5. /\ PartyDetailsListRequest(hnd.NextSeqNo) \in Refusable \cup Party
          /\ PartyDetailsListRequest(hnd.NextSeqNo).kind = "PartyList"
      BY <1>6 DEF PartyDetailsListRequest, Party
    <3>6. \A i \in DOMAIN hnd'.asks : \/ i \in DOMAIN hnd.asks /\ hnd'.asks[i] = hnd.asks[i]
                                      \/ hnd'.asks[i].kind = "PartyList"
      BY <3>2, <3>5, <1>6, QueueFact
    <3> QED BY <3>2, <3>3, <3>4, <3>6, <2>3, <1>1
  <2> QED BY <2>1, <2>2, <2>3
<1> HIDE DEF After
<1>8. hnd' \in HandlerState
  BY <1>7 DEF After
<1>9. Requested(done.h) \in SUBSET Nat
  BY <1>4, <1>8, RequestedFact
<1>10. /\ hist.guessed \in Nat /\ Max({hist.guessed, sn}) \in Nat
       /\ hist.guessed <= Max({hist.guessed, sn}) /\ sn <= Max({hist.guessed, sn})
  <2>1. hist.guessed \in Nat
    BY <1>1 DEF History
  <2> QED BY <2>1, <1>3, MaxOfTwo
<1>11. hist.late \in SUBSET Order /\ (r.kind = "Trade" => hist.late \cup {r.oid} \in SUBSET Order)
  BY <1>1, <1>3, ReportFact DEF History
<1>12. hist.rcvd \cup {sn} \in SUBSET Nat /\ hist.asked \cup Requested(done.h) \in SUBSET Nat
  BY <1>1, <1>3, <1>9 DEF History
<1>13. /\ hist' \in History
       /\ hist'.rcvd = hist.rcvd \cup {sn} /\ hist'.asked = hist.asked \cup Requested(hnd')
       /\ hist'.hole = hist.hole
       /\ hist'.guessed = IF r.kind = "PartyDetailsAck" THEN Max({hist.guessed, sn}) ELSE hist.guessed
       /\ hist'.late = IF r.kind = "Trade" /\ \E n \in TradesSeen(r.oid) : n > sn
                       THEN hist.late \cup {r.oid} ELSE hist.late
  <2> DEFINE L == IF r.kind = "Trade" /\ \E n \in TradesSeen(r.oid) : n > sn
                  THEN hist.late \cup {r.oid} ELSE hist.late
             G == IF r.kind = "PartyDetailsAck" THEN Max({hist.guessed, sn}) ELSE hist.guessed
  <2>1. L \in SUBSET Order /\ G \in Nat
    BY <1>10, <1>11
  <2>2. hist' = [hist EXCEPT !.rcvd = hist.rcvd \cup {sn}, !.asked = hist.asked \cup Requested(hnd'),
                             !.guessed = G, !.late = L]
    BY <1>1, <1>4 DEF History
  <2> HIDE DEF L, G
  <2>3. /\ hist' \in History
        /\ hist'.rcvd = hist.rcvd \cup {sn} /\ hist'.asked = hist.asked \cup Requested(hnd')
        /\ hist'.hole = hist.hole /\ hist'.guessed = G /\ hist'.late = L
    BY <2>1, <2>2, <1>1, <1>4, <1>12 DEF History
  <2> QED BY <2>3 DEF L, G
<1>14. /\ hist.guessed <= hist'.guessed
       /\ IF r.kind = "PartyDetailsAck" THEN sn <= hist'.guessed ELSE hist'.guessed = hist.guessed
  BY <1>10, <1>13
<1>15. Got(sn, r)
  BY <1>3, <1>7, <1>13, <1>14 DEF Got, After, r
<1> QED BY <1>15 DEF r

\* The fills after a report.
LEMMA ReceiveTrades ==
    ASSUME OrdersInv, NEW sn, NEW r, Got(sn, r), gwy'.log = gwy.log, gwy'.open = gwy.open,
           gwy'.leaves = gwy.leaves, NEW o \in Order
    PROVE  Descends(o)' /\ Exact(o)'
<1> USE DEF OrdersInv
<1>1. LogKept /\ Sent' = Sent /\ TradesOf(o)' = TradesOf(o)
  BY DEF LogKept, Sent, TradesOf, Got
<1>2. Descends(o)'
  BY <1>1, DescendsKept
<1>3. /\ gwy.log \in Seq(Report) /\ hist.rcvd \subseteq 1..Len(gwy.log) /\ som \in [Order -> Verdict]
      /\ DOMAIN gwy.log = 1..Len(gwy.log) /\ Size \in Nat \ {0}
  BY ILinkAssumption DEF Shape, GatewayState, Wire
<1>4. TradesSeen(o) \subseteq TradesOf(o) /\ \A n \in TradesOf(o) : n \in Nat /\ gwy.log[n].LeavesQty \in 0..(Size - 1)
  BY <1>3, ReportFact DEF TradesSeen, TradesOf
<1> DEFINE L == {gwy.log[n].LeavesQty : n \in TradesSeen(o)}
<1>5. /\ {Size} \cup L \in SUBSET Nat /\ Low(o) \in {Size} \cup L /\ \A y \in {Size} \cup L : Low(o) <= y
  <2>1. {Size} \cup L \in SUBSET Nat
    BY <1>3, <1>4
  <2>2. Low(o) = Min({Size} \cup L)
    BY DEF Low
  <2> HIDE DEF L
  <2> QED BY <2>1, <2>2, MinFact
<1>6. CASE ~(r.kind = "Trade" /\ r.oid = o)
  <2>1. TradesSeen(o)' = TradesSeen(o)
    BY <1>6 DEF TradesSeen, Got
  <2>2. Low(o)' = Low(o)
    BY <2>1 DEF Low
  <2>3. hnd'.still[o] = hnd.still[o] /\ som'[o].filled = som[o].filled
    BY <1>6 DEF Got, Opens, Filled
  <2>4. o \in hist.late => o \in hist'.late
    BY DEF Got
  <2> QED BY <1>1, <1>2, <2>2, <2>3, <2>4 DEF Exact
<1>7. CASE r.kind = "Trade" /\ r.oid = o
  <2> DEFINE l == r.LeavesQty
  <2>1. sn \in TradesOf(o) /\ TradesSeen(o)' = TradesSeen(o) \cup {sn}
    BY <1>7 DEF TradesOf, TradesSeen, Got
  <2>2. l \in 0..(Size - 1) /\ gwy.log[sn].LeavesQty = l
    BY <2>1, <1>4 DEF Got
  <2>3. SUFFICES ASSUME o \notin hist'.late
                 PROVE  som'[o].filled = Size - Low(o)' /\ hnd'.still[o] = Low(o)'
    BY <1>2 DEF Exact
  <2>4. o \notin hist.late /\ \A n \in TradesSeen(o) : ~(n > sn)
    BY <2>3, <1>7 DEF Got
  <2>5. \A n \in TradesSeen(o) : l <= gwy.log[n].LeavesQty
    <3> SUFFICES ASSUME NEW n \in TradesSeen(o) PROVE l <= gwy.log[n].LeavesQty
      OBVIOUS
    <3>1. n \in TradesOf(o) /\ n \in Nat /\ sn \in Nat /\ gwy.log[n].LeavesQty \in Nat
      BY <2>1, <1>3, <1>4
    <3>2. CASE n = sn
      BY <3>2, <2>2, <1>3
    <3>3. CASE n # sn
      <4>1. n < sn
        BY <3>1, <3>3, <2>4
      <4>2. gwy.log[sn].LeavesQty < gwy.log[n].LeavesQty
        BY <4>1, <3>1, <2>1 DEF Descends
      <4> QED BY <4>2, <3>1, <2>2, <1>3
    <3> QED BY <3>2, <3>3
  <2>6. l <= Low(o) /\ l \in Nat /\ Low(o) \in Nat /\ Low(o) <= Size
    <3>1. \A y \in {Size} \cup L : l <= y
      BY <2>5, <2>2, <1>3
    <3> HIDE DEF L, l
    <3> QED BY <3>1, <1>5, <2>2, <1>3
  <2>7. Low(o)' = l
    <3>1. Low(o)' = Min({Size} \cup {gwy.log[n].LeavesQty : n \in TradesSeen(o) \cup {sn}})
      BY <2>1 DEF Low
    <3>2. {gwy.log[n].LeavesQty : n \in TradesSeen(o) \cup {sn}} = L \cup {l}
      BY <2>2
    <3> HIDE DEF L
    <3>3. {Size} \cup (L \cup {l}) \in SUBSET Nat /\ {Size} \cup (L \cup {l}) # {}
      BY <1>5, <2>6
    <3>4. \A y \in {Size} \cup (L \cup {l}) : l <= y
      BY <1>5, <2>6
    <3>5. Min({Size} \cup (L \cup {l})) \in {Size} \cup (L \cup {l}) /\ Min({Size} \cup (L \cup {l})) <= l
      BY <3>3, MinFact
    <3>6. l <= Min({Size} \cup (L \cup {l})) /\ Min({Size} \cup (L \cup {l})) \in Nat
      BY <3>3, <3>4, <3>5
    <3>7. Min({Size} \cup (L \cup {l})) = l
      BY <3>5, <3>6, <2>6
    <3> QED BY <3>1, <3>2, <3>7
  <2>8. o \in Sent
    BY <2>1 DEF Descends
  <2>9. som[o].filled = Size - Low(o) /\ hnd.still[o] = Low(o)
    BY <2>4, <2>8 DEF Exact
  <2>10. hnd'.still[o] = l
    BY <1>7 DEF Got, Opens
  <2>11. som'[o].filled = IF Low(o) - l > 0 THEN Size - Low(o) + (Low(o) - l) ELSE Size - Low(o)
    BY <1>7, <2>9 DEF Got, Filled
  <2> HIDE DEF l
  <2>12. Low(o) - l > 0 => Size - Low(o) + (Low(o) - l) = Size - l
    BY <2>6, <1>3
  <2>13. ~(Low(o) - l > 0) => Low(o) = l
    BY <2>6
  <2> QED BY <2>7, <2>10, <2>11, <2>12, <2>13
<1> QED BY <1>6, <1>7

\* The verdicts after a report.
LEMMA ReceiveVerdicts ==
    ASSUME OrdersInv, ~hnd.aborted, NEW sn, NEW r, Got(sn, r), gwy'.log = gwy.log
    PROVE  Verdicts'
<1> USE DEF OrdersInv
<1> SUFFICES ASSUME ~hnd'.aborted, hnd'.NextSeqNo <= RefWidth,
                    NEW o \in Order, NEW what \in {"Reject", "CancReject", "CancAck"}
             PROVE  what \in som'[o].told <=> \E n \in hist'.rcvd : Means(gwy'.log[n], o, what)
  BY DEF Verdicts
<1>1. hnd.NextSeqNo \in Nat /\ hnd'.NextSeqNo \in Nat /\ hnd.NextSeqNo <= hnd'.NextSeqNo
      /\ hnd.nos \in SUBSET (Nat \X Order) /\ hnd.canc \in SUBSET (Nat \X Order)
  BY DEF Got, Shape, HandlerState
<1>2. hnd.NextSeqNo <= RefWidth
  BY <1>1, ILinkAssumption
<1>3. what \in som[o].told <=> \E n \in hist.rcvd : Means(gwy.log[n], o, what)
  BY <1>2 DEF Verdicts
<1>4. what \in som'[o].told <=> what \in som[o].told \/ Hears(hnd, r, o, what)
  BY DEF Got, Heard, Whats
<1>5. (\E n \in hist'.rcvd : Means(gwy'.log[n], o, what))
        <=> (\E n \in hist.rcvd : Means(gwy.log[n], o, what)) \/ Means(r, o, what)
  BY DEF Got
<1>6. Hears(hnd, r, o, what) <=> Means(r, o, what)
  <2>1. CASE r.kind # "BusinessReject"
    BY <2>1 DEF Hears, Means
  <2>2. CASE r.kind = "BusinessReject"
    <3> DEFINE m == r.of
    <3>1. m \in Refusable /\ m.seqnum \in Nat /\ m.oid \in Order /\ m.kind \in {"NewOrder", "CancelRequest"}
      <4>1. m \in Refusable
        BY <2>2, ReportFact DEF Got
      <4> HIDE DEF m
      <4> QED BY <4>1 DEF Refusable
    <3>2. Noted(m) /\ r.BusinessRejectRefID = m.seqnum % RefWidth
      BY <2>2 DEF Got, Numbered
    <3> HIDE DEF m
    <3>3. Pair(m) \in hnd.nos \cup hnd.canc /\ Pair(m)[1] = m.seqnum /\ Pair(m)[2] = m.oid
      BY <3>2 DEF Noted, Pair
    <3>4. m.seqnum < hnd.NextSeqNo
      BY <3>3 DEF Numbered
    <3>5. m.seqnum < RefWidth
      BY <3>1, <3>4, <1>1, <1>2, ILinkAssumption
    <3>6. r.BusinessRejectRefID = m.seqnum
      BY <3>1, <3>2, <3>5, ILinkAssumption
    <3> DEFINE p == <<m.seqnum, o>>
    <3>7. p[1] = m.seqnum /\ p[2] = o /\ <<r.BusinessRejectRefID, o>> = p
      BY <3>6
    <3> HIDE DEF p
    <3>8. p \in hnd.nos \cup hnd.canc => p = Pair(m)
      BY <3>3, <3>7 DEF Numbered
    <3>9. p = Pair(m) <=> m.oid = o
      BY <3>3, <3>7 DEF Pair, p
    <3>10. p \in hnd.nos <=> m.kind = "NewOrder" /\ m.oid = o
      BY <3>1, <3>2, <3>8, <3>9 DEF Noted, Numbered
    <3>11. p \in hnd.canc <=> m.kind = "CancelRequest" /\ m.oid = o
      BY <3>1, <3>2, <3>8, <3>9 DEF Noted, Numbered
    <3> QED BY <2>2, <3>7, <3>10, <3>11 DEF Hears, Means, m
  <2> QED BY <2>1, <2>2
<1> QED BY <1>3, <1>4, <1>5, <1>6

\* The numbers after a report that goes through check_seq.  It came live, or it is the next
\* of a retransmission.
LEMMA ReceiveSequenced ==
    ASSUME OrdersInv, ~hnd.aborted, NEW sn, NEW r, Got(sn, r), gwy'.log = gwy.log, Wire',
           \/ sn = gwy.live /\ gwy'.rt = gwy.rt
           \/ gwy.rt # <<>> /\ sn = Head(gwy.rt)
    PROVE  Sequenced' /\ GapRequested' /\ AbortExplained'
<1> USE DEF OrdersInv
<1>1. hnd \in HandlerState /\ hnd.lastseq \in Nat /\ hnd.seen \in SUBSET Nat
      /\ sn \in Nat /\ sn # 0 /\ hist.guessed \in Nat /\ hist'.guessed \in Nat /\ gwy.live \in Nat \ {0}
  BY DEF Shape, HandlerState, GatewayState, Got, History
<1>2. TopKnown /\ TopKnown'
  <2>1. gwy' \in GatewayState => Shape'
    BY DEF Got, Shape
  <2>2. Received' \in SUBSET Nat /\ \A n \in Received' : n <= Len(gwy.log)
    BY DEF Wire, Received, Got, History, Shape, GatewayState
  <2>3. Len(gwy.log) \in Nat
    BY DEF Shape, GatewayState
  <2>4. Newest' = Max({0} \cup Received') /\ Top' = Max({0, hist'.guessed} \cup Received')
    BY DEF Newest, Received, Top
  <2>5. TopKnown'
    BY <2>2, <2>3, <2>4, <1>1, NewestFact DEF TopKnown
  <2> QED BY <2>5, TopFact
<1>3. Within(hnd, Top)
  BY DEF Sequenced
<1>4. Received' = IF r = PartyDetailsReport THEN Received ELSE Received \cup {sn}
  BY DEF Received, Got
<1>5. Newest \in {0} \cup Received' /\ Newest <= Newest' /\ Top <= Top' /\ (Newest' = Newest \/ Newest' = sn)
  <2>1. Newest \in {0} \cup Received' /\ Newest <= Newest'
    BY <1>2, <1>4 DEF TopKnown
  <2>2. Newest' = Newest \/ Newest' = sn
    BY <2>1, <1>2, <1>4 DEF TopKnown
  <2>3. hist.guessed <= hist'.guessed
    BY DEF Got
  <2> QED BY <2>1, <2>2, <2>3, <1>1, <1>2 DEF TopKnown
<1>6. Within(hnd, Top')
  BY <1>1, <1>2, <1>3, <1>5, WithinMore DEF TopKnown
<1>7. \A n \in 1..Newest : n \in hist.rcvd \cup hist.asked \/ n <= hist.guessed
  BY DEF GapRequested
<1>8. hist.rcvd \subseteq hist'.rcvd /\ hist.asked \subseteq hist'.asked /\ sn \in hist'.rcvd
      /\ hist.guessed <= hist'.guessed
  BY DEF Got
<1>9. \A n \in 1..Newest : n \in hist'.rcvd \cup hist'.asked \/ n <= hist'.guessed
  <2> SUFFICES ASSUME NEW n \in 1..Newest PROVE n \in hist'.rcvd \cup hist'.asked \/ n <= hist'.guessed
    OBVIOUS
  <2>1. n \in Nat
    BY <1>2 DEF TopKnown
  <2> QED BY <2>1, <1>1, <1>7, <1>8
<1>10. CASE r.kind = "PartyDetailsAck"
  <2>1. ~hnd'.aborted /\ sn <= hist'.guessed /\ hist'.guessed # 0
    BY <1>10, <1>1 DEF Got
  <2>2. sn <= Top'
    BY <2>1, <1>1, <1>2 DEF TopKnown
  <2>3. Within(hnd', Top')
    BY <2>2, <1>2, <1>6, <1>10 DEF Got, TopKnown
  <2>4. Sequenced' /\ AbortExplained'
    BY <2>1, <2>3 DEF Sequenced, AbortExplained, Within
  <2>5. GapRequested'
    <3> SUFFICES ASSUME NEW n \in 1..Newest' PROVE n \in hist'.rcvd \cup hist'.asked \/ n <= hist'.guessed
      BY DEF GapRequested
    <3>1. n \in 1..Newest \/ (n \in Nat /\ n <= sn)
      BY <1>1, <1>2, <1>5 DEF TopKnown
    <3> QED BY <3>1, <2>1, <1>1, <1>9
  <2> QED BY <2>4, <2>5
<1>11. CASE r.kind = "PartyDetailsReport"
  <2>1. hnd' = hnd /\ hist'.guessed = hist.guessed
    BY <1>11 DEF Got
  <2>0. r = PartyDetailsReport /\ sn \in DOMAIN gwy.log /\ gwy.log[sn] = r
    BY <1>11, ReportFact DEF Got
  <2>2. hist.guessed # 0
    BY <2>0 DEF Wire
  <2>3. Sequenced' /\ AbortExplained'
    BY <2>1, <2>2, <1>6 DEF Sequenced, AbortExplained, Within
  <2>4. Newest' = Newest
    <3>1. r = PartyDetailsReport
      BY <1>11, ReportFact DEF Got
    <3> QED BY <3>1, <1>4 DEF Newest, Received
  <2> QED BY <2>3, <2>4, <1>9 DEF GapRequested
<1>12. CASE r.kind \notin {"PartyDetailsAck", "PartyDetailsReport"}
  <2>1. Ends(hnd, hnd', sn) /\ hist'.guessed = hist.guessed /\ hist'.hole = hist.hole
    BY <1>12 DEF Got
  <2>2. sn \in Received'
    BY <1>12, <1>4 DEF PartyDetailsReport
  <2>3. sn <= Top' /\ Top' \in Nat
    BY <2>2, <1>2 DEF TopKnown
  \* a report that came live is newer than every number the handler keeps
  <2>4. ASSUME hist.guessed = 0 PROVE Top < gwy.live
    <3>1. Top \in {0} \cup Received
      BY <2>4, <1>2 DEF TopKnown
    <3>2. \A n \in Received : n < gwy.live
      BY <2>4 DEF Wire, Received
    <3> QED BY <3>1, <3>2, <1>1
  <2>5. ASSUME hist.guessed = 0, ~hist.hole PROVE ~Stuck(hnd, sn)
    <3>1. SUFFICES ASSUME Stuck(hnd, sn) PROVE FALSE
      OBVIOUS
    <3>2. Based(hnd) \/ FirstAsked
      BY <3>1, <2>5 DEF Sequenced, Stuck, Clean
    <3>3. CASE Based(hnd)
      <4>1. PICK n \in hnd.seen : n <= hnd.lastseq
        BY <3>3 DEF Based
      <4>2. n >= sn /\ sn > hnd.lastseq + 1 /\ n \in Nat
        BY <3>1, <1>1 DEF Stuck
      <4> QED BY <4>1, <4>2, <1>1
    <3>4. CASE FirstAsked
      <4>1. CASE gwy.rt # <<>> /\ sn = Head(gwy.rt)
        <5>1. sn = hnd.lastseq + 1
          BY <3>4, <4>1 DEF FirstAsked
        <5> QED BY <5>1, <3>1, <1>1 DEF Stuck
      <4>2. CASE sn = gwy.live
        <5>1. PICK n \in hnd.seen : TRUE
          BY <3>4 DEF FirstAsked
        <5>2. n <= Top /\ n >= gwy.live /\ n \in Nat
          BY <4>2, <3>1, <1>1, <1>3 DEF Within, Stuck
        <5> QED BY <5>2, <2>4, <2>5, <1>1, <1>2 DEF TopKnown
      <4> QED BY <4>1, <4>2
    <3> QED BY <3>2, <3>3, <3>4
  <2>6. AbortExplained'
    <3>1. hnd'.aborted => Stuck(hnd, sn) \/ Counted(hnd')
      BY <2>1 DEF Ends
    <3>2. Stuck(hnd, sn) => hist.hole \/ hist.guessed > 0
      BY <2>5, <1>1
    <3> QED BY <3>1, <3>2, <2>1 DEF AbortExplained, Counted
  <2>7. CASE hnd'.aborted
    BY <2>6, <2>7 DEF Sequenced, GapRequested
  <2>8. CASE ~hnd'.aborted
    <3>1. Passed(hnd, hnd', sn, TRUE)
      BY <2>1, <2>8 DEF Ends
    <3>2. Within(hnd', Top')
      BY <3>1, <2>3, <1>6 DEF Passed
    <3>3. ASSUME hist'.guessed = 0, ~hist'.hole PROVE Based(hnd') \/ FirstAsked'
      <4>1. hist.guessed = 0 /\ ~hist.hole
        BY <3>3, <2>1
      <4>2. hnd'.seen = hnd.seen \cup {sn} /\ HeadKept(hnd, hnd')
        BY <3>1 DEF Passed
      <4>3. CASE sn <= hnd.lastseq + 1
        <5>1. hnd'.lastseq = sn
          BY <4>3, <3>1 DEF Passed
        <5>2. sn \in hnd'.seen /\ sn <= hnd'.lastseq
          BY <5>1, <4>2, <1>1
        <5>3. Based(hnd')
          BY <5>2 DEF Based
        <5> QED BY <5>3
      <4>4. CASE ~(sn <= hnd.lastseq + 1)
        <5>1. hnd'.lastseq = hnd.lastseq /\ sn > hnd.lastseq + 1
          BY <4>4, <3>1, <1>1 DEF Passed
        <5>2. CASE Based(hnd)
          BY <5>1, <5>2, <4>2 DEF Based
        <5>3. CASE Clean(hnd) /\ gwy.rt = <<>>
          <6>1. hnd'.requests # <<>> /\ Head(hnd'.requests).from = hnd.lastseq + 1
            BY <5>1, <5>3, <3>1 DEF Passed
          <6>2. gwy'.rt = <<>>
            BY <5>3
          <6> QED BY <6>1, <6>2, <5>1, <4>2 DEF FirstAsked
        <5>4. CASE FirstAsked
          <6>1. CASE sn = gwy.live /\ gwy'.rt = gwy.rt
            BY <6>1, <5>4, <5>1, <4>2 DEF FirstAsked, HeadKept
          <6>2. CASE gwy.rt # <<>> /\ sn = Head(gwy.rt)
            BY <6>2, <5>4, <5>1, <1>1 DEF FirstAsked
          <6> QED BY <6>1, <6>2
        <5> QED BY <5>2, <5>3, <5>4, <4>1 DEF Sequenced
      <4> QED BY <4>3, <4>4
    <3>4. Sequenced'
      BY <3>2, <3>3 DEF Sequenced, Within, Based
    <3>5. GapRequested'
      <4> SUFFICES ASSUME NEW n \in 1..Newest' PROVE n \in hist'.rcvd \cup hist'.asked \/ n <= hist'.guessed
        BY DEF GapRequested
      <4>1. n \in Nat /\ n <= Newest' /\ n >= 1
        BY <1>2 DEF TopKnown
      <4>2. CASE n <= Newest \/ n = sn \/ n <= hist.guessed
        BY <4>1, <4>2, <1>1, <1>2, <1>8, <1>9 DEF TopKnown
      <4>3. CASE ~(n <= Newest \/ n = sn \/ n <= hist.guessed)
        <5>1. Top < n /\ n < sn /\ Top \in Nat
          BY <4>1, <4>3, <1>1, <1>2, <1>5 DEF TopKnown
        <5>2. n \in Requested(hnd')
          BY <5>1, <4>1, <3>1, <1>3 DEF Passed
        <5> QED BY <5>2 DEF Got
      <4> QED BY <4>2, <4>3
    <3> QED BY <3>4, <3>5, <2>6
  <2> QED BY <2>7, <2>8
<1> QED BY <1>10, <1>11, <1>12

\* All of it after a report.
LEMMA ReceiveKeeps ==
    ASSUME OrdersInv, Up, NEW sn \in DOMAIN gwy.log, Receive(sn),
           gwy' \in GatewayState, gwy'.log = gwy.log, gwy'.open = gwy.open, gwy'.leaves = gwy.leaves,
           gwy.live <= gwy'.live, gwy'.live <= Len(gwy.log) + 1,
           \/ sn = gwy.live /\ gwy'.rt = gwy.rt /\ gwy'.live = gwy.live + 1
           \/ gwy.rt # <<>> /\ sn = Head(gwy.rt) /\ gwy'.rt = Advance(gwy.rt)
    PROVE  OrdersInv'
<1> USE DEF OrdersInv
<1>1. ~hnd.aborted /\ hnd.phase = "established"
  BY DEF Up
<1>2. PICK r : r = gwy.log[sn] /\ Got(sn, r)
  BY <1>1, ReceiveFact
<1>3. Shape' /\ Unbound'
  BY <1>1, <1>2 DEF Shape, Unbound, Got
<1>4. /\ sn \in Nat \ {0} /\ sn \in 1..Len(gwy.log) /\ gwy.live \in Nat /\ gwy'.live \in Nat
      /\ Len(gwy.log) \in Nat /\ gwy.log \in Seq(Report) /\ hist.guessed \in Nat /\ hist'.guessed \in Nat
      /\ hist.rcvd \in SUBSET Nat /\ gwy.rt \in {<<>>} \cup (Nat \X Nat)
  <2>1. gwy.log \in Seq(Report)
    BY DEF Shape, GatewayState
  <2> QED BY <2>1, <1>2, <1>3 DEF Shape, GatewayState, History, Got
<1>5. gwy.rt # <<>> => /\ Head(gwy.rt) = gwy.rt[1] /\ gwy.rt[1] \in Nat /\ gwy.rt[2] \in Nat
                       /\ gwy.rt[1] >= 1 /\ gwy.rt[1] <= gwy.rt[2] /\ gwy.rt[2] <= Len(gwy.log)
  BY <1>4 DEF Wire
<1>6. gwy'.rt # <<>> => /\ gwy.rt # <<>> /\ gwy'.rt[2] = gwy.rt[2]
                        /\ gwy'.rt[1] >= 1 /\ gwy'.rt[1] <= gwy'.rt[2]
  <2>1. CASE gwy'.rt = gwy.rt
    BY <2>1, <1>5
  <2>2. CASE gwy.rt # <<>> /\ gwy'.rt = Advance(gwy.rt)
    <3>1. Advance(gwy.rt) # <<>> => /\ Advance(gwy.rt)[1] = gwy.rt[1] + 1 /\ Advance(gwy.rt)[2] = gwy.rt[2]
                                    /\ gwy.rt[1] # gwy.rt[2]
      BY <2>2, <1>5 DEF Advance
    <3> QED BY <3>1, <2>2, <1>5
  <2> QED BY <2>1, <2>2
<1>7. hist.guessed = 0 => sn < gwy'.live
  <2>1. SUFFICES ASSUME hist.guessed = 0 PROVE sn < gwy'.live
    OBVIOUS
  <2>2. gwy.rt # <<>> => gwy.rt[2] < gwy.live
    BY <2>1 DEF Wire
  <2> QED BY <2>2, <1>4, <1>5
<1>8. Wire'
  <2>1. hist'.rcvd = hist.rcvd \cup {sn} /\ hist.guessed <= hist'.guessed
    BY <1>2 DEF Got
  <2>2. (hist.rcvd \subseteq 1..Len(gwy.log) /\ gwy.live <= Len(gwy.log) + 1)'
    BY <2>1, <1>4 DEF Wire
  <2>3. (gwy.rt # <<>> => /\ gwy.rt[1] >= 1 /\ gwy.rt[1] <= gwy.rt[2] /\ gwy.rt[2] <= Len(gwy.log))'
    BY <1>5, <1>6
  <2>4. ASSUME hist'.guessed = 0
        PROVE  /\ \A n \in hist'.rcvd : n < gwy'.live
               /\ gwy'.rt # <<>> => gwy'.rt[2] < gwy'.live
               /\ \A n \in DOMAIN gwy'.log : gwy'.log[n] # PartyDetailsReport
               /\ \A i \in DOMAIN hnd'.asks : hnd'.asks[i].kind # "PartyList"
    <3>1. hist.guessed = 0 /\ r.kind # "PartyDetailsAck"
      BY <2>1, <2>4, <1>2, <1>4 DEF Got
    <3>2. \A n \in hist'.rcvd : n < gwy'.live
      <4>1. \A n \in hist.rcvd : n \in Nat /\ n < gwy.live
        BY <3>1, <1>4 DEF Wire
      <4> QED BY <4>1, <3>1, <2>1, <1>4, <1>7
    <3>3. gwy'.rt # <<>> => gwy'.rt[2] < gwy'.live
      <4>1. gwy.rt # <<>> => gwy.rt[2] < gwy.live
        BY <3>1 DEF Wire
      <4> QED BY <4>1, <1>4, <1>5, <1>6
    <3>4. \A n \in DOMAIN gwy'.log : gwy'.log[n] # PartyDetailsReport
      BY <3>1 DEF Wire
    <3>5. \A i \in DOMAIN hnd'.asks : hnd'.asks[i].kind # "PartyList"
      BY <3>1, <1>2 DEF Wire, Got
    <3> QED BY <3>2, <3>3, <3>4, <3>5
  <2> QED BY <2>2, <2>3, <2>4 DEF Wire
<1>9. Sequenced' /\ GapRequested' /\ AbortExplained'
  BY <1>1, <1>2, <1>8, ReceiveSequenced
<1>10. ASSUME NEW o \in Order PROVE Descends(o)' /\ Exact(o)'
  BY <1>2, ReceiveTrades
<1>11. Verdicts'
  BY <1>1, <1>2, ReceiveVerdicts
<1>12. Numbered'
  <2>1. hnd'.NextSeqNo \in Nat /\ hnd.NextSeqNo <= hnd'.NextSeqNo /\ hnd'.nos = hnd.nos /\ hnd'.canc = hnd.canc
    BY <1>2 DEF Got, HandlerState
  <2>2. \A i \in DOMAIN hnd'.asks :
          \/ hnd'.asks[i].kind \notin {"NewOrder", "CancelRequest"}
          \/ \E j \in DOMAIN hnd.asks : hnd'.asks[i] = hnd.asks[j]
    BY <1>2 DEF Got
  <2> QED BY <2>1, <2>2, NumberedKept
<1> QED BY <1>3, <1>8, <1>9, <1>10, <1>11, <1>12

\* The next report arrives for the first time.
LEMMA LiveKeeps == OrdersInv /\ Live => OrdersInv'
<1> SUFFICES ASSUME OrdersInv, Live PROVE OrdersInv'
  OBVIOUS
<1>1. gwy \in GatewayState /\ gwy.log \in Seq(Report) /\ gwy.live \in Nat \ {0} /\ Len(gwy.log) \in Nat
  BY DEF OrdersInv, Shape, GatewayState
<1>2. Up /\ gwy.live <= Len(gwy.log) /\ Receive(gwy.live) /\ gwy' = [gwy EXCEPT !.live = @ + 1]
  BY DEF Live
<1>3. PICK sn : sn = gwy.live
  OBVIOUS
<1>4. sn \in DOMAIN gwy.log /\ Receive(sn)
  BY <1>1, <1>2, <1>3
<1>5. gwy.live + 1 \in Nat \ {0}
  BY <1>1
<1>6. /\ gwy' \in GatewayState /\ gwy'.log = gwy.log /\ gwy'.open = gwy.open /\ gwy'.leaves = gwy.leaves
      /\ gwy'.rt = gwy.rt /\ gwy'.live = gwy.live + 1
  BY <1>1, <1>2, <1>5 DEF GatewayState
<1>7. gwy.live <= gwy'.live /\ gwy'.live <= Len(gwy.log) + 1
  BY <1>1, <1>2, <1>6
<1> QED BY <1>2, <1>3, <1>4, <1>6, <1>7, ReceiveKeeps

\* The next report of a retransmission arrives.
LEMMA RetransmitKeeps == OrdersInv /\ Retransmit => OrdersInv'
<1> SUFFICES ASSUME OrdersInv, Retransmit PROVE OrdersInv'
  OBVIOUS
<1>1. /\ gwy \in GatewayState /\ gwy.log \in Seq(Report) /\ gwy.live \in Nat \ {0} /\ Len(gwy.log) \in Nat
      /\ gwy.rt \in {<<>>} \cup (Nat \X Nat)
  BY DEF OrdersInv, Shape, GatewayState
<1>2. Up /\ gwy.rt # <<>> /\ Receive(Head(gwy.rt)) /\ gwy' = [gwy EXCEPT !.rt = Advance(@)]
  BY DEF Retransmit
<1>3. PICK sn : sn = Head(gwy.rt)
  OBVIOUS
<1>4. gwy.rt \in Nat \X Nat /\ sn = gwy.rt[1] /\ sn \in Nat
  BY <1>1, <1>2, <1>3
<1>5. sn \in DOMAIN gwy.log /\ Receive(sn)
  <2>1. sn >= 1 /\ sn <= gwy.rt[2] /\ gwy.rt[2] <= Len(gwy.log) /\ gwy.rt[2] \in Nat
    BY <1>2, <1>4 DEF OrdersInv, Wire
  <2> QED BY <2>1, <1>1, <1>2, <1>3, <1>4
<1>6. Advance(gwy.rt) \in {<<>>} \cup (Nat \X Nat)
  BY <1>3, <1>4 DEF Advance
<1>7. /\ gwy' \in GatewayState /\ gwy'.log = gwy.log /\ gwy'.open = gwy.open /\ gwy'.leaves = gwy.leaves
      /\ gwy'.rt = Advance(gwy.rt) /\ gwy'.live = gwy.live
  BY <1>1, <1>2, <1>6 DEF GatewayState
<1>8. gwy.live <= gwy'.live /\ gwy'.live <= Len(gwy.log) + 1
  BY <1>1, <1>7 DEF OrdersInv, Wire
<1> QED BY <1>2, <1>3, <1>5, <1>7, <1>8, ReceiveKeeps

-----------------------------------------------------------------------------
(* The theorems *)

\* Every step keeps the inductive invariant.
LEMMA NextKeeps == OrdersInv /\ [Next]_vars => OrdersInv'
<1> SUFFICES ASSUME OrdersInv, [Next]_vars PROVE OrdersInv'
  OBVIOUS
<1>1. CASE Next
  BY <1>1, BindKeeps, EstablishKeeps, OrderKeeps, CancelKeeps, LiveKeeps, LoseKeeps, RetransmitKeeps,
     SequenceKeeps, NotAppliedKeeps, TakeOrderKeeps, TakeCancelKeeps, TakePartyKeeps, TradeKeeps,
     EliminateKeeps, AnswerKeeps DEF Next
<1>2. CASE UNCHANGED vars
  <2>1. hnd' = hnd /\ gwy' = gwy /\ som' = som /\ hist' = hist
    BY <1>2 DEF vars
  <2>2. Shape' /\ Wire' /\ Unbound'
    BY <2>1 DEF OrdersInv, Shape, Wire, Unbound, Clean
  <2>3. Sequenced'
    BY <2>1 DEF OrdersInv, Sequenced, FirstAsked, Top, Received
  <2>4. GapRequested' /\ AbortExplained'
    BY <2>1 DEF OrdersInv, GapRequested, AbortExplained, Newest
  <2>5. ASSUME NEW o \in Order PROVE Descends(o)' /\ Exact(o)'
    BY <2>1 DEF OrdersInv, Descends, Exact, TradesOf, TradesSeen, Low, Sent
  <2>6. Numbered'
    BY <2>1 DEF OrdersInv, Numbered, Noted, Sent
  <2>7. Verdicts'
    BY <2>1 DEF OrdersInv, Verdicts
  <2> QED BY <2>2, <2>3, <2>4, <2>5, <2>6, <2>7 DEF OrdersInv
<1> QED BY <1>1, <1>2

\* The inductive invariant: every state of a session, whatever is lost, announced,
\* retransmitted and refused, has the shape and the orders the handlers rely on.
THEOREM OrdersCorrect == Spec => []OrdersInv
<1>1. Init => OrdersInv
  BY InitOrders
<1>2. OrdersInv /\ [Next]_vars => OrdersInv'
  BY NextKeeps
<1> QED BY <1>1, <1>2, PTL DEF Spec

\* No report found missing by check_seq goes unrequested, and the handler stops only
\* over a hole, a number it only heard of, or too many rejects.
THEOREM SequenceCorrect == Spec => []SequenceInv
<1>1. OrdersInv => SequenceInv
  <2> SUFFICES ASSUME OrdersInv PROVE SequenceInv
    OBVIOUS
  <2>1. TypeOK
    <3>1. hnd.lastseq \in Nat /\ hnd.seen \subseteq Nat
      BY DEF OrdersInv, Shape, HandlerState
    <3>2. \A o \in Order : hnd.still[o] \in 0..Size /\ som[o].filled \in Nat
      BY DEF OrdersInv, Shape, HandlerState, Verdict
    <3>3. gwy.rt = <<>> \/ (Len(gwy.rt) = 2 /\ Head(gwy.rt) <= gwy.rt[2] /\ gwy.rt[2] <= Len(gwy.log))
      <4>1. gwy.rt \in {<<>>} \cup (Nat \X Nat)
        BY DEF OrdersInv, Shape, GatewayState
      <4>2. gwy.rt \in Nat \X Nat => Len(gwy.rt) = 2 /\ Head(gwy.rt) = gwy.rt[1]
        OBVIOUS
      <4> QED BY <4>1, <4>2 DEF OrdersInv, Wire
    <3> QED BY <3>1, <3>2, <3>3 DEF TypeOK
  <2> QED BY <2>1 DEF OrdersInv, SequenceInv
<1> QED BY <1>1, OrdersCorrect, PTL

\* The fills the handler reports to the SOM add up to what the gateway traded, for every
\* order whose trades did not overtake each other.
THEOREM FillsCorrect == Spec => []FillsExact
<1>1. OrdersInv => FillsExact
  BY DEF OrdersInv, Exact, FillsExact, Low
<1> QED BY <1>1, OrdersCorrect, PTL

\* As long as the session has not numbered more messages than BusinessRejectRefID can
\* tell apart, the SOM hears of an order what the gateway reported of that order.
THEOREM VerdictsCorrect == Spec => [](hnd.NextSeqNo <= RefWidth => VerdictsMatch)
<1>1. OrdersInv => (hnd.NextSeqNo <= RefWidth => VerdictsMatch)
  <2> SUFFICES ASSUME OrdersInv, hnd.NextSeqNo <= RefWidth, ~hnd.aborted, NEW o \in Order
               PROVE  LET heard == {gwy.log[n] : n \in hist.rcvd}
                          refused(k) == \E r \in heard : r.kind = "BusinessReject" /\ r.of.kind = k /\ r.of.oid = o
                      IN /\ ("Reject" \in som[o].told) = (ExecutionReportReject(o) \in heard \/ refused("NewOrder"))
                         /\ ("CancReject" \in som[o].told) = (OrderCancelReject(o) \in heard \/ refused("CancelRequest"))
                         /\ ("CancAck" \in som[o].told) =
                              (heard \cap {ExecutionReportCancel(o), ExecutionReportElimination(o)} # {})
    BY DEF VerdictsMatch
  <2>1. \A n \in hist.rcvd : gwy.log[n] \in Report
    BY DEF OrdersInv, Shape, Wire, GatewayState
  <2>2. \A what \in {"Reject", "CancReject", "CancAck"} :
          what \in som[o].told <=> \E n \in hist.rcvd : Means(gwy.log[n], o, what)
    BY DEF OrdersInv, Verdicts
  <2>3. \A r \in Report : /\ r.kind = "Reject" /\ r.oid = o <=> r = ExecutionReportReject(o)
                          /\ r.kind = "CancelReject" /\ r.oid = o <=> r = OrderCancelReject(o)
                          /\ r.kind = "Cancel" /\ r.oid = o <=> r = ExecutionReportCancel(o)
                          /\ r.kind = "Elimination" /\ r.oid = o <=> r = ExecutionReportElimination(o)
    <3>1. /\ ExecutionReportReject(o).kind = "Reject" /\ ExecutionReportReject(o).oid = o
          /\ OrderCancelReject(o).kind = "CancelReject" /\ OrderCancelReject(o).oid = o
          /\ ExecutionReportCancel(o).kind = "Cancel" /\ ExecutionReportCancel(o).oid = o
          /\ ExecutionReportElimination(o).kind = "Elimination" /\ ExecutionReportElimination(o).oid = o
      BY DEF ExecutionReportReject, OrderCancelReject, ExecutionReportCancel, ExecutionReportElimination
    <3> QED BY <3>1, ReportFact
  <2> DEFINE heard == {gwy.log[n] : n \in hist.rcvd}
             refused(k) == \E r \in heard : r.kind = "BusinessReject" /\ r.of.kind = k /\ r.of.oid = o
  <2>4. (\E n \in hist.rcvd : Means(gwy.log[n], o, "Reject"))
          <=> ExecutionReportReject(o) \in heard \/ refused("NewOrder")
    BY <2>1, <2>3 DEF Means
  <2>5. (\E n \in hist.rcvd : Means(gwy.log[n], o, "CancReject"))
          <=> OrderCancelReject(o) \in heard \/ refused("CancelRequest")
    BY <2>1, <2>3 DEF Means
  <2>6. (\E n \in hist.rcvd : Means(gwy.log[n], o, "CancAck"))
          <=> heard \cap {ExecutionReportCancel(o), ExecutionReportElimination(o)} # {}
    BY <2>1, <2>3 DEF Means
  <2> QED BY <2>2, <2>4, <2>5, <2>6
<1> QED BY <1>1, OrdersCorrect, PTL
=============================================================================

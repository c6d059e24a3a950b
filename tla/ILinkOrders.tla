---------------------------- MODULE ILinkOrders ----------------------------
(* One established iLink 3 session: ILinkHandler between the SOM and the     *)
(* exchange's gateway.  Orders and cancels go out under the handler's own    *)
(* sequence numbers; the gateway numbers its reports, loses some of them and *)
(* sends what it is asked to send again, between the new ones.  The receiver *)
(* thread calls the handler with fast_send, which holds the actor's mutex,   *)
(* so every handler is one step.                                             *)
EXTENDS Naturals, Integers, Sequences, FiniteSets, FiniteSetsExt

CONSTANTS Order,        \* the ids of the orders the SOM may send
          Size,         \* the size of an order
          Request,      \* the most numbers one retransmission request may ask for (2500)
          RefWidth,     \* BusinessRejectRefID is kept modulo this (2^16)
          FirstSeqNo,   \* the number of the session's first outgoing message
          Missed,       \* reports the gateway sent before the session was bound
          MaxReject,    \* MAXNUMREJECTS
          MaxLog,       \* bound: numbered reports of the gateway
          MaxLost       \* bound: reports and outgoing messages lost

ASSUME ILinkAssumption == /\ Size \in Nat \ {0} /\ Request \in Nat \ {0}
                          /\ RefWidth \in Nat \ {0} /\ Missed \in Nat
                          /\ FirstSeqNo \in Nat /\ MaxReject \in Nat

VARIABLES hnd,     \* the ILinkHandler actor
          gwy,     \* the gateway and the reports it has numbered
          som,     \* what the SOM has been told of each order
          hist     \* what happened on the wire
vars == <<hnd, gwy, som, hist>>

---------------------------------------------------------------------------
(* Messages of the gateway, as the receiver decodes them and the callback    *)
(* interface passes them on.                                                 *)
ExecutionReportNew(o) == [kind |-> "New", oid |-> o]
ExecutionReportReject(o) == [kind |-> "Reject", oid |-> o]
ExecutionReportCancel(o) == [kind |-> "Cancel", oid |-> o]
ExecutionReportElimination(o) == [kind |-> "Elimination", oid |-> o]
ExecutionReportTrade(o, LeavesQty) == [kind |-> "Trade", oid |-> o, LeavesQty |-> LeavesQty]
OrderCancelReject(o) == [kind |-> "CancelReject", oid |-> o]
PartyDetailsAck == [kind |-> "PartyDetailsAck"]
PartyDetailsReport == [kind |-> "PartyDetailsReport"]
UnknownReport == [kind |-> "Unknown"]                   \* of an order of an earlier process

\* The refused message's number is cut to the width of the callback's parameter.
BusinessReject(m) ==
  [kind |-> "BusinessReject", of |-> m, BusinessRejectRefID |-> m.seqnum % RefWidth]

(* Messages to the gateway: ILinkSnd numbers each and keeps the next number. *)
NewOrderSingle(seqnum, o) == [kind |-> "NewOrder", seqnum |-> seqnum, oid |-> o]
OrderCancelRequest(seqnum, o) == [kind |-> "CancelRequest", seqnum |-> seqnum, oid |-> o]
PartyDetailsDefinition(seqnum) == [kind |-> "PartyDefinition", seqnum |-> seqnum]
PartyDetailsListRequest(seqnum) == [kind |-> "PartyList", seqnum |-> seqnum]
RetransmitRequest(from, count) == [from |-> from, count |-> count]

Covers(r) == r.from .. (r.from + r.count - 1)

---------------------------------------------------------------------------
(* Sequence numbers.  last_req is one past the last request that was sent.   *)

\* The request for sn's missing predecessors when sn lies inside what was asked for already.
GapWithinGap(h, sn) ==
  LET smaller == {n \in h.seen : n < sn}
      from == Max(smaller) + 1
  IN IF smaller = {}
     THEN [h EXCEPT !.aborted = TRUE]
     ELSE [h EXCEPT !.requests = Append(@, RetransmitRequest(from, sn - from))]

\* Mutant of RequestPieces: only the first piece is kept.
RequestPiecesFirst(h, first, last) ==
  LET count == Min({Request, last - first + 1})
  IN [h EXCEPT !.requests = Append(@, RetransmitRequest(first, count)),
               !.last_req = first + count]

\* The request for first..last, in pieces: the first is sent, the others wait.
RequestPieces(h, first, last) ==
  LET n == (last - first) \div Request + 1
      piece == [i \in 1..n |-> LET from == first + (i - 1) * Request
                               IN RetransmitRequest(from, Min({Request, last - from + 1}))]
  IN [h EXCEPT !.requests = Append(@, piece[1]),
               !.last_req = piece[1].from + piece[1].count,
               !.waiting = @ \o Tail(piece)]

RequestGap(h, sn) ==
  LET lastseq_adj == Max({h.lastseq, h.last_req})
  IN IF sn <= lastseq_adj + 1 THEN GapWithinGap(h, sn)
                              ELSE RequestPieces(h, lastseq_adj + 1, sn - 1)

\* Mutant of SendWaiting: off by one.
SendWaitingLate(h, sn) ==
  IF h.waiting # <<>> /\ sn = Head(h.waiting).from
  THEN [h EXCEPT !.requests = Append(@, Head(h.waiting)),
                 !.last_req = Head(h.waiting).from + Head(h.waiting).count,
                 !.waiting = Tail(@)]
  ELSE h

\* The waiting piece whose predecessor has just arrived is sent.
SendWaiting(h, sn) ==
  IF h.waiting # <<>> /\ sn = Head(h.waiting).from - 1
  THEN [h EXCEPT !.requests = Append(@, Head(h.waiting)),
                 !.last_req = Head(h.waiting).from + Head(h.waiting).count,
                 !.waiting = Tail(@)]
  ELSE h

check_seq(h, sn, busmessage) ==
  LET h1 == IF busmessage THEN SendWaiting(h, sn) ELSE h
      gap == sn - 1 \notin h.seen
      h2 == IF sn <= h.lastseq + 1 THEN [h1 EXCEPT !.lastseq = sn]
            ELSE IF gap /\ busmessage THEN RequestGap(h1, sn) ELSE h1
  IN IF h2.aborted THEN h2 ELSE [h2 EXCEPT !.seen = @ \cup {sn}]

---------------------------------------------------------------------------
(* Handlers of numbered reports: the handler and the SOM after each.         *)

Tell(s, o, what) == [s EXCEPT ![o].told = @ \cup {what}]

\* Mutant of OnTrade: what is open is not updated.
OnTradeKeep(h, s, r) ==
  LET amt == h.still[r.oid] - r.LeavesQty
  IN [h |-> h, s |-> IF amt > 0 THEN [s EXCEPT ![r.oid].filled = @ + amt] ELSE s]

\* A fill is what the report leaves open against what the handler thought open;
\* a report that leaves more, or as much, is no fill but still sets what is open.
OnTrade(h, s, r) ==
  LET amt == h.still[r.oid] - r.LeavesQty
  IN [h |-> [h EXCEPT !.still[r.oid] = r.LeavesQty],
      s |-> IF amt > 0 THEN [s EXCEPT ![r.oid].filled = @ + amt] ELSE s]

OnReject(h, s, r) ==
  [h |-> [h EXCEPT !.exec_reject_cnt = @ + 1, !.aborted = h.exec_reject_cnt > MaxReject],
   s |-> Tell(s, r.oid, "Reject")]

executionReport(h, s, r, sn) ==
  LET done == CASE r.kind = "New"         -> [h |-> h, s |-> Tell(s, r.oid, "Ack")]
                [] r.kind = "Reject"      -> OnReject(h, s, r)
                [] r.kind \in {"Cancel", "Elimination"}
                                          -> [h |-> h, s |-> Tell(s, r.oid, "CancAck")]
                [] r.kind = "Trade"       -> OnTrade(h, s, r)
                [] r.kind = "Unknown"     -> [h |-> h, s |-> s]
  IN IF done.h.aborted THEN done ELSE [done EXCEPT !.h = check_seq(@, sn, TRUE)]

cancelReject(h, s, r, sn) ==
  [h |-> check_seq(h, sn, TRUE), s |-> Tell(s, r.oid, "CancReject")]

\* Mutant of businessReject: cancels are not told from orders.
businessRejectSwapped(h, s, r, sn) ==
  [h |-> check_seq(h, sn, TRUE),
   s |-> [o \in Order |-> [s[o] EXCEPT !.told =
            @ \cup (IF <<r.BusinessRejectRefID, o>> \in h.nos \cup h.canc THEN {"Reject"} ELSE {})]]]

\* The order whose message had the number the reject refers to.
businessReject(h, s, r, sn) ==
  LET h1 == check_seq(h, sn, TRUE)
      h2 == [h1 EXCEPT !.bus_reject_cnt = @ + 1, !.aborted = @ \/ h1.bus_reject_cnt > MaxReject]
      refused(pairs, what) ==
        [o \in Order |-> IF <<r.BusinessRejectRefID, o>> \in pairs THEN {what} ELSE {}]
  IN [h |-> h2,
      s |-> IF h2.aborted THEN s
            ELSE [o \in Order |-> [s[o] EXCEPT !.told =
                    @ \cup refused(h.nos, "Reject")[o] \cup refused(h.canc, "CancReject")[o]]]]

\* The number is taken for the last one before it is checked.
partyDetailsAck(h, s, sn) ==
  LET h1 == check_seq([h EXCEPT !.lastseq = sn], sn, TRUE)
  IN [h |-> [h1 EXCEPT !.asks = Append(@, PartyDetailsListRequest(h1.NextSeqNo)),
                       !.NextSeqNo = @ + 1],
      s |-> s]

Handle(h, s, r, sn) ==
  CASE r.kind = "BusinessReject"     -> businessReject(h, s, r, sn)
    [] r.kind = "CancelReject"       -> cancelReject(h, s, r, sn)
    [] r.kind = "PartyDetailsAck"    -> partyDetailsAck(h, s, sn)
    [] r.kind = "PartyDetailsReport" -> [h |-> h, s |-> s]
    [] OTHER                         -> executionReport(h, s, r, sn)

---------------------------------------------------------------------------
Init ==
  /\ \E pre_register \in BOOLEAN :
       hnd = [phase |-> "closed", pre_register |-> pre_register, lastseq |-> 0, last_req |-> 0,
              waiting |-> <<>>, seen |-> {}, requests |-> <<>>, asks |-> <<>>,
              NextSeqNo |-> FirstSeqNo, nos |-> {}, canc |-> {}, still |-> [o \in Order |-> 0],
              bus_reject_cnt |-> 0, exec_reject_cnt |-> 0, aborted |-> FALSE]
  /\ gwy = [log |-> [n \in 1..Missed |-> UnknownReport], live |-> Missed + 1, rt |-> <<>>,
            open |-> {}, leaves |-> [o \in Order |-> Size]]
  /\ som = [o \in Order |-> [filled |-> 0, told |-> {}]]
  /\ hist = [rcvd |-> {}, asked |-> {}, guessed |-> 0, late |-> {}, refused |-> FALSE,
             hole |-> FALSE, lost |-> 0]

\* The operator binds the session, naming the last report the earlier process had.
doBind ==
  /\ hnd.phase = "closed"
  /\ \E lastseq_from_cme \in 0..Missed :
       /\ hnd' = [hnd EXCEPT !.phase = "binding", !.lastseq = lastseq_from_cme]
       /\ hist' = [hist EXCEPT !.rcvd = 1..lastseq_from_cme]
  /\ UNCHANGED <<gwy, som>>

establishmentAck ==
  /\ hnd.phase = "binding"
  /\ hnd' = IF hnd.pre_register
            THEN [hnd EXCEPT !.phase = "established", !.NextSeqNo = @ + 1,
                             !.asks = Append(@, PartyDetailsDefinition(hnd.NextSeqNo))]
            ELSE [hnd EXCEPT !.phase = "established"]
  /\ UNCHANGED <<gwy, som, hist>>

Up == hnd.phase = "established" /\ ~hnd.aborted

Sent == {p[2] : p \in hnd.nos}

order(o) ==
  /\ Up /\ o \notin Sent
  /\ hnd' = [hnd EXCEPT !.asks = Append(@, NewOrderSingle(hnd.NextSeqNo, o)),
                        !.nos = @ \cup {<<hnd.NextSeqNo, o>>}, !.NextSeqNo = @ + 1,
                        !.still[o] = Size]
  /\ UNCHANGED <<gwy, som, hist>>

\* The SOM cancels an order once.
cancel(o) ==
  /\ Up /\ o \in Sent /\ \A p \in hnd.canc : p[2] # o
  /\ hnd' = [hnd EXCEPT !.asks = Append(@, OrderCancelRequest(hnd.NextSeqNo, o)),
                        !.canc = @ \cup {<<hnd.NextSeqNo, o>>}, !.NextSeqNo = @ + 1]
  /\ UNCHANGED <<gwy, som, hist>>

\* A report reaches the handler.
TradesSeen(o) == {n \in hist.rcvd : gwy.log[n].kind = "Trade" /\ gwy.log[n].oid = o}

Requested(h) == UNION {Covers(q) : q \in {h.requests[i] : i \in DOMAIN h.requests}
                                     \cup {h.waiting[i] : i \in DOMAIN h.waiting}}

Receive(sn) ==
  LET r == gwy.log[sn]
      done == Handle(hnd, som, r, sn)
  IN /\ hnd' = done.h /\ som' = done.s
     /\ hist' = [hist EXCEPT
          !.rcvd = @ \cup {sn},
          !.asked = @ \cup Requested(done.h),
          !.guessed = IF r.kind = "PartyDetailsAck" THEN Max({@, sn}) ELSE @,
          !.late = IF r.kind = "Trade" /\ \E n \in TradesSeen(r.oid) : n > sn
                   THEN @ \cup {r.oid} ELSE @]

Live ==
  /\ Up /\ gwy.live <= Len(gwy.log)
  /\ Receive(gwy.live)
  /\ gwy' = [gwy EXCEPT !.live = @ + 1]

Lose ==
  /\ Up /\ gwy.live <= Len(gwy.log) /\ hist.lost < MaxLost
  /\ gwy' = [gwy EXCEPT !.live = @ + 1]
  /\ hist' = [hist EXCEPT !.lost = @ + 1]
  /\ UNCHANGED <<hnd, som>>

Advance(rt) == IF Head(rt) = rt[2] THEN <<>> ELSE <<Head(rt) + 1, rt[2]>>

Retransmit ==
  /\ Up /\ gwy.rt # <<>>
  /\ Receive(Head(gwy.rt))
  /\ gwy' = [gwy EXCEPT !.rt = Advance(@)]

LoseRetransmitted ==
  /\ Up /\ gwy.rt # <<>> /\ hist.lost < MaxLost
  /\ gwy' = [gwy EXCEPT !.rt = Advance(@)]
  /\ hist' = [hist EXCEPT !.lost = @ + 1, !.hole = TRUE]
  /\ UNCHANGED <<hnd, som>>

\* The gateway announces the number of its next report.
sequence ==
  /\ Up
  /\ hnd' = check_seq(hnd, gwy.live - 1, FALSE)
  /\ hist' = [hist EXCEPT !.guessed = IF gwy.live - 1 \in hnd.seen THEN @
                                      ELSE Max({@, gwy.live - 1})]
  /\ UNCHANGED <<gwy, som>>

\* The gateway has not taken the first n messages; the callback passes n on
\* where the handler reads a sequence number of the gateway.
notApplied ==
  /\ Up /\ hist.lost < MaxLost
  /\ \E n \in 1..Len(hnd.asks) :
       LET h == check_seq(hnd, n, TRUE)
       IN /\ hnd' = [h EXCEPT !.asks = SubSeq(@, n + 1, Len(@))]
          /\ hist' = [hist EXCEPT !.lost = @ + 1, !.guessed = Max({@, n}),
                                  !.asked = @ \cup Requested(h)]
  /\ UNCHANGED <<gwy, som>>

---------------------------------------------------------------------------
(* The gateway. *)

Number(r) == [gwy EXCEPT !.log = Append(@, r)]
Room == Len(gwy.log) < MaxLog
Took == hnd' = [hnd EXCEPT !.asks = Tail(@)]

TakeOrder ==
  /\ Up /\ hnd.asks # <<>> /\ Head(hnd.asks).kind = "NewOrder" /\ Room
  /\ LET m == Head(hnd.asks) IN
       \/ gwy' = [Number(ExecutionReportNew(m.oid)) EXCEPT !.open = @ \cup {m.oid}]
       \/ gwy' = Number(ExecutionReportReject(m.oid))
       \/ gwy' = Number(BusinessReject(m))
  /\ Took
  /\ UNCHANGED <<som, hist>>

TakeCancel ==
  /\ Up /\ hnd.asks # <<>> /\ Head(hnd.asks).kind = "CancelRequest" /\ Room
  /\ LET m == Head(hnd.asks) IN
       \/ /\ m.oid \in gwy.open
          /\ gwy' = [Number(ExecutionReportCancel(m.oid)) EXCEPT !.open = @ \ {m.oid}]
       \/ /\ m.oid \notin gwy.open
          /\ gwy' = Number(OrderCancelReject(m.oid))
       \/ gwy' = Number(BusinessReject(m))
  /\ Took
  /\ UNCHANGED <<som, hist>>

TakeParty ==
  /\ Up /\ hnd.asks # <<>> /\ Room
  /\ \/ /\ Head(hnd.asks).kind = "PartyDefinition" /\ gwy' = Number(PartyDetailsAck)
     \/ /\ Head(hnd.asks).kind = "PartyList" /\ gwy' = Number(PartyDetailsReport)
  /\ Took
  /\ UNCHANGED <<som, hist>>

Trade ==
  /\ Up /\ Room
  /\ \E o \in gwy.open, left \in 0..(Size - 1) :
       /\ left < gwy.leaves[o]
       /\ gwy' = [Number(ExecutionReportTrade(o, left)) EXCEPT
                    !.leaves[o] = left, !.open = IF left = 0 THEN @ \ {o} ELSE @]
  /\ UNCHANGED <<hnd, som, hist>>

Eliminate ==
  /\ Up /\ Room
  /\ \E o \in gwy.open : gwy' = [Number(ExecutionReportElimination(o)) EXCEPT !.open = @ \ {o}]
  /\ UNCHANGED <<hnd, som, hist>>

\* One retransmission at a time, of reports that exist; other requests are refused.
\* Neither the notice nor the refusal changes the handler.
AnswerRequest ==
  /\ Up /\ hnd.requests # <<>>
  /\ LET q == Head(hnd.requests)
         last == q.from + q.count - 1
         granted == gwy.rt = <<>> /\ last <= Len(gwy.log)
     IN /\ gwy' = IF granted THEN [gwy EXCEPT !.rt = <<q.from, last>>] ELSE gwy
        /\ hist' = IF granted THEN hist ELSE [hist EXCEPT !.refused = TRUE]
  /\ hnd' = [hnd EXCEPT !.requests = Tail(@)]
  /\ UNCHANGED som

Next ==
  \/ doBind \/ establishmentAck \/ \E o \in Order : order(o) \/ cancel(o)
  \/ Live \/ Lose \/ Retransmit \/ LoseRetransmitted \/ sequence \/ notApplied
  \/ TakeOrder \/ TakeCancel \/ TakeParty \/ Trade \/ Eliminate \/ AnswerRequest

Spec == Init /\ [][Next]_vars

\* The gateway goes on sending what it has and answering what it is asked.
FairSpec == Spec /\ WF_vars(Live) /\ WF_vars(Retransmit) /\ WF_vars(AnswerRequest)

---------------------------------------------------------------------------
\* The newest report that went through check_seq: a PartyDetailsReport does not.
Newest == Max({0} \cup {n \in hist.rcvd : gwy.log[n] # PartyDetailsReport})

TypeOK ==
  /\ hnd.lastseq \in Nat /\ hnd.seen \subseteq Nat
  /\ \A o \in Order : hnd.still[o] \in 0..Size /\ som[o].filled \in Nat
  /\ gwy.rt = <<>> \/ (Len(gwy.rt) = 2 /\ Head(gwy.rt) <= gwy.rt[2] /\ gwy.rt[2] <= Len(gwy.log))

\* Every report missing below the newest one received has been asked for, unless the handler
\* took a number it only heard of for one it had (sequence, notApplied, partyDetailsAck).
GapRequested ==
  \A n \in 1..Newest : n \in hist.rcvd \cup hist.asked \/ n <= hist.guessed \/ hnd.aborted

\* Whatever was lost, an order's fills add up to what the newest trade report says, as long
\* as no trade of it arrived after a later one.
FillsExact ==
  \A o \in Order \ hist.late :
    som[o].filled = Size - Min({Size} \cup {gwy.log[n].LeavesQty : n \in TradesSeen(o)})

\* What the SOM hears of an order is what the gateway reported of that order.
VerdictsMatch ==
  \A o \in Order :
    LET heard == {gwy.log[n] : n \in hist.rcvd}
        refused(k) == \E r \in heard : r.kind = "BusinessReject" /\ r.of.kind = k /\ r.of.oid = o
    IN ~hnd.aborted =>
       /\ ("Reject" \in som[o].told) = (ExecutionReportReject(o) \in heard \/ refused("NewOrder"))
       /\ ("CancReject" \in som[o].told) = (OrderCancelReject(o) \in heard \/ refused("CancelRequest"))
       /\ ("CancAck" \in som[o].told) =
            (heard \cap {ExecutionReportCancel(o), ExecutionReportElimination(o)} # {})

\* The handler stops the process only over a retransmission that itself had a hole, after
\* it was led astray by a number it only heard of, or after too many rejects.
AbortExplained ==
  hnd.aborted => \/ hist.hole \/ hist.guessed > 0
                 \/ hnd.exec_reject_cnt > MaxReject \/ hnd.bus_reject_cnt > MaxReject

\* Nothing missing goes unnoticed, and the handler does not stop without cause.
SequenceInv == TypeOK /\ GapRequested /\ AbortExplained

\* The reports found missing all arrive, if the gateway refuses no request and retransmits
\* whole.  (A PartyDetailsReport, which passes by check_seq, can end a piece and so keep the
\* next one waiting: sessions that register their parties are left out.)
Missing == {n \in 1..Newest : n > hist.guessed} \ hist.rcvd

GapHeals ==
  (Missing # {} /\ ~hnd.pre_register) ~>
    (Missing = {} \/ hist.refused \/ hist.hole \/ hnd.aborted)

=============================================================================

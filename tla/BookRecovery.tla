---------------------------- MODULE BookRecovery ----------------------------
(***************************************************************************)
(* The packet arbitration composed with one order book (act::OB): what the *)
(* live feed and the snapshots, gated by their transaction times, leave in *)
(* the book.                                                               *)
(*                                                                         *)
(* The exchange's book always holds the order "base"; the order "x" is     *)
(* added by packet addAt and deleted by packet delAt.  The packets in      *)
(* Touching change "base", the rest are for other books.  A packet has a   *)
(* transaction time of its own; a snapshot has that of the last packet in  *)
(* it that touched the book.                                               *)
(***************************************************************************)
EXTENDS MessageProcessor

CONSTANT Touching
ASSUME TouchingAssumption == Touching \subseteq Packet

\* The book: its orders, the transaction times of the last live message (tx)
\* and of the last snapshot record (rec), and is_in_recovery.
VARIABLES ordermap, last_tx_tim, last_recovery_tx_tim, is_in_recovery

\* The exchange's history of x; the position of the last snapshot, of the last
\* one the book took in, and whether one was loaded on top of another; the
\* packet that failed to decode after the book had had its record (0 if none
\* has since the book was last rebuilt).
VARIABLES addAt, delAt, lastv, snapv, stacked, torn

obVars == <<ordermap, last_tx_tim, last_recovery_tx_tim, is_in_recovery>>
snapVars == <<lastv, snapv, stacked>>
bookVars == <<vars, obVars, addAt, delAt, snapVars, torn>>

\* The exchange's book after packet sn, and the packets that are about it.
Exchange(sn) == {"base"} \cup IF addAt <= sn /\ sn < delAt THEN {"x"} ELSE {}
About == Touching \cup {addAt, delAt}

Tx(sn) == sn + 1
SnapTx(v) == LET S == {sn \in About : sn <= v} IN IF S = {} THEN 1 ELSE Tx(Greatest(S))

-----------------------------------------------------------------------------
(* OB::data_handler for one market-by-order record.                        *)

Stamp(o, m) == IF m.recovery THEN [o EXCEPT !.rec = m.tim] ELSE [o EXCEPT !.tx = m.tim]

\* Mutant of Rejected: a snapshot record is never too old.
RejectedDataOnly(o, m) == o.tx # 0 /\ o.rec # 0 /\ ~ m.recovery /\ m.tim <= o.rec

Rejected(o, m) ==
    /\ o.tx # 0 /\ o.rec # 0
    /\ IF m.recovery THEN m.tim < o.tx ELSE m.tim <= o.rec

Update(orders, m) ==
    CASE m.action = "add" -> orders \cup {m.order}
      [] m.action = "delete" -> orders \ {m.order}
      [] OTHER -> orders

\* The first snapshot record clears the book, the first live one ends recovery.
Accept(o, m) ==
    [o EXCEPT !.orders = Update(IF m.recovery /\ ~ o.inrec THEN {} ELSE @, m),
              !.inrec = m.recovery]

Handle(o, m) ==
    LET s == Stamp(o, m) IN IF Rejected(s, m) THEN s ELSE Accept(s, m)

OB == [orders |-> ordermap, tx |-> last_tx_tim, rec |-> last_recovery_tx_tim, inrec |-> is_in_recovery]
OBBecomes(o) ==
    /\ ordermap' = o.orders
    /\ last_tx_tim' = o.tx
    /\ last_recovery_tx_tim' = o.rec
    /\ is_in_recovery' = o.inrec

-----------------------------------------------------------------------------
(* What reaches the book *)

\* The record that a live packet holds for the book.
LiveRecord(sn) ==
    [recovery |-> FALSE, tim |-> Tx(sn),
     action |-> CASE sn = addAt -> "add" [] sn = delAt -> "delete" [] OTHER -> "change",
     order |-> IF sn \in {addAt, delAt} THEN "x" ELSE "base"]

\* Book o after the packets in S, in the order of their numbers.
LiveRun(o, S) ==
    LET upTo[sn \in 0..MaxSeq] ==
            IF sn = 0 THEN o
            ELSE IF sn \in S \cap About THEN Handle(upTo[sn - 1], LiveRecord(sn))
            ELSE upTo[sn - 1]
    IN upTo[MaxSeq]

SnapshotRecord(v, x) == [recovery |-> TRUE, tim |-> SnapTx(v), action |-> "add", order |-> x]

\* Book o after the snapshot of position v.
Snapshot(o, v) ==
    LET first == Handle(o, SnapshotRecord(v, "base"))
    IN IF "x" \in Exchange(v) THEN Handle(first, SnapshotRecord(v, "x")) ELSE first

BookInit ==
    /\ Init
    /\ ordermap = {}
    /\ last_tx_tim = 0
    /\ last_recovery_tx_tim = 0
    /\ is_in_recovery = FALSE
    /\ addAt \in Packet
    /\ delAt \in {sn \in 2..MaxSeq + 1 : sn > addAt}
    /\ lastv = 0
    /\ snapv = 0
    /\ stacked = FALSE
    /\ torn = 0

\* The packet at which the pass that sn starts fails, if it does.
FailedAt(sn, ok) ==
    LET Q == msg_q \cup {sn}
        C == IF ok \/ sn \in msg_q THEN corrupt ELSE corrupt \cup {sn}
        bad == Run(Q) \ Decodable(Q, C)
    IN  {p \in bad : ~ Recovering /\ ~ stopq /\ qseq_num < sn /\ \A j \in bad : p <= j}

\* Packets are decoded into the book.  mbo_data hands on one message after the
\* other: of a packet that fails the book has the record when that comes before
\* the message that fails, and has it again whenever the packet, which stays
\* buffered, fails again.  The GAP sent then is passed on to the subscribers
\* and leaves the book as it is.
BookProcessQ(sn, ok) ==
    /\ ProcessQ(sn, ok)
    /\ \E part \in SUBSET FailedAt(sn, ok) :
        /\ OBBecomes(LiveRun(OB, (decoded' \ decoded) \cup part))
        /\ torn' = IF part = {} THEN torn ELSE Least(part)
    /\ UNCHANGED <<addAt, delAt, snapVars>>

\* A recovery is answered: the book was sent its snapshot of position v, the
\* answer is the oldest position of any book's snapshot.  Position 0, which
\* stands for "nothing decoded yet", is left out.
BookAnswerData(last, v) ==
    /\ AnswerData(last)
    /\ 1 <= last /\ last <= v /\ v <= published
    /\ lastv <= v
    /\ OBBecomes(Snapshot(OB, v))
    /\ LET first == SnapshotRecord(v, "base")
           taken == ~ Rejected(Stamp(OB, first), first)
       IN /\ snapv' = IF taken THEN v ELSE snapv
          /\ stacked' = IF taken THEN is_in_recovery /\ ordermap # {} ELSE stacked
          /\ torn' = IF taken THEN 0 ELSE torn
    /\ lastv' = v
    /\ UNCHANGED <<addAt, delAt>>

\* DataReceoveryRestart in the middle of a recovery: the part of snapshot v
\* that was read, then CLEAR, which forgets both times.  The snapshots read
\* afterwards are not older than what has been decoded.
BookRestart(v) ==
    /\ reqData > 0
    /\ lastv <= v /\ v <= published /\ qseq_num <= v
    /\ lastv' = v
    /\ ordermap' = {}
    /\ last_tx_tim' = 0
    /\ last_recovery_tx_tim' = 0
    /\ is_in_recovery' \in {is_in_recovery, TRUE}
    /\ stacked' = FALSE
    /\ torn' = 0
    /\ UNCHANGED <<vars, addAt, delAt, snapv>>

\* The steps that do not reach the book.
Unseen(A) == A /\ UNCHANGED <<obVars, addAt, delAt, snapVars, torn>>

\* (A stopped queue drops what arrives, which here is one more loss.)
BookNext ==
    \/ \E sn \in Packet, ok \in BOOLEAN : BookProcessQ(sn, ok)
    \/ \E last, v \in Packet : BookAnswerData(last, v)
    \/ \E v \in Packet : BookRestart(v)
    \/ Unseen(Start \/ Publish \/ EndRecovery \/ AnswerInstr)

BookSpec == BookInit /\ [][BookNext]_bookVars

\* Both actors' threads run, the snapshot feed repeats for ever, and the
\* exchange has published something (a snapshot has a position).
BookFairSpec ==
    /\ BookSpec
    /\ WF_bookVars(Unseen(Start))
    /\ WF_bookVars(Unseen(EndRecovery))
    /\ WF_bookVars(Unseen(AnswerInstr))
    /\ WF_bookVars(\E last, v \in Packet : BookAnswerData(last, v))
    /\ WF_bookVars(published = 0 /\ Unseen(Publish))

-----------------------------------------------------------------------------
(* Properties *)

\* How far the book has followed the feed: to the packet decoded last, or to
\* the one behind it of which the book has had the record.
Followed == IF torn > qseq_num THEN torn ELSE qseq_num

\* With recovery on, between recoveries, once the position has caught up with
\* the snapshot that the book was built from: the book has every order of the
\* exchange's, and no other unless one snapshot was loaded on top of another
\* (OB::data_handler's gates and clear, with the arbitration's position and
\* packets that fail half-way).
BookCorrect ==
    dorecovery /\ running = "started" /\ ~ Recovering /\ snapv > 0 /\ qseq_num >= snapv
        => /\ Exchange(Followed) \subseteq ordermap
           /\ stacked \/ ordermap = Exchange(Followed)
=============================================================================

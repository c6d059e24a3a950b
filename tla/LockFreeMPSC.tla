---------------------------- MODULE LockFreeMPSC ----------------------------
(***************************************************************************)
(* The bounded lock-free ring of actors/LockFreeMPSC.hpp: try_push by any  *)
(* number of producer threads, try_pop by the single consumer thread.      *)
(* Every atomic load, compare-exchange and store of the two functions is a *)
(* step of its own, and so are the plain accesses to a cell's data.        *)
(*                                                                         *)
(* push() retries try_push until it succeeds (first spinning, then polling *)
(* under space_mtx_); pop() retries try_pop.  The parking and waking       *)
(* around the retries is the subject of module ParkHandshake.              *)
(*                                                                         *)
(* Positions are unbounded naturals: a 64-bit size_t does not wrap in the  *)
(* life of a process.                                                      *)
(***************************************************************************)
EXTENDS Producers, Sequences

CONSTANT N      \* buf_.size(), the capacity rounded up to a power of two
ASSUME CapacityAssumption == N \in Nat \ {0}

VARIABLES
    enqueue_pos,    \* enqueue_pos_
    dequeue_pos,    \* dequeue_pos_
    seq,            \* seq of each cell
    data,           \* data of each cell
    pc, pos,        \* each producer's place in try_push, and its local pos
    npush,          \* number of the message each producer is pushing
    cpc, cpos,      \* the consumer's place in try_pop, and its local pos
    sent, rcvd      \* histories: messages by claimed position, popped messages

prodVars == <<pc, pos, npush>>
consVars == <<cpc, cpos>>
vars == <<enqueue_pos, dequeue_pos, seq, data, prodVars, consVars, sent, rcvd>>

\* A message is known by its sender and its number.
Message == Producer \X (1..MaxPush)
NoData == <<>>

Index(p) == p % N              \* pos & mask_, as N is a power of two
Cells == 0..(N - 1)

ProducerPc == {"load", "seq", "cas", "write", "publish"}
ConsumerPc == {"load", "seq", "cas", "read", "release"}

Payload(p) == <<p, npush[p]>>

Init ==
    /\ enqueue_pos = 0
    /\ dequeue_pos = 0
    /\ seq = [c \in Cells |-> c]
    /\ data = [c \in Cells |-> NoData]
    /\ pc = [p \in Producer |-> "load"]
    /\ pos = [p \in Producer |-> 0]
    /\ npush = [p \in Producer |-> 1]
    /\ cpc = "load"
    /\ cpos = 0
    /\ sent = <<>>
    /\ rcvd = <<>>

-----------------------------------------------------------------------------
(* try_push *)

PushLoad(p) ==
    /\ pc[p] = "load"
    /\ npush[p] <= MaxPush
    /\ pos' = [pos EXCEPT ![p] = enqueue_pos]
    /\ pc' = [pc EXCEPT ![p] = "seq"]
    /\ UNCHANGED <<enqueue_pos, dequeue_pos, seq, data, npush, consVars, sent, rcvd>>

\* Mutant of PushSeq: `dif <= 0' instead of `dif == 0', full is not noticed.
PushSeqNoFullTest(p) ==
    LET s == seq[Index(pos[p])] IN
    /\ pc[p] = "seq"
    /\ pc' = [pc EXCEPT ![p] = IF s <= pos[p] THEN "cas" ELSE "load"]
    /\ UNCHANGED <<enqueue_pos, dequeue_pos, seq, data, pos, npush, consVars, sent, rcvd>>

\* The cell is free for this position: go on to the compare-exchange.
\* It still holds the previous lap: the ring is full, try_push returns false
\* and push() tries again.  Another producer has passed: reload the position.
PushSeq(p) ==
    LET s == seq[Index(pos[p])] IN
    /\ pc[p] = "seq"
    /\ pc' = [pc EXCEPT ![p] = IF s = pos[p] THEN "cas" ELSE "load"]
    /\ UNCHANGED <<enqueue_pos, dequeue_pos, seq, data, pos, npush, consVars, sent, rcvd>>

\* compare_exchange_weak succeeds: the position belongs to p.
PushClaim(p) ==
    /\ pc[p] = "cas"
    /\ enqueue_pos = pos[p]
    /\ enqueue_pos' = pos[p] + 1
    /\ sent' = Append(sent, Payload(p))
    /\ pc' = [pc EXCEPT ![p] = "write"]
    /\ UNCHANGED <<dequeue_pos, seq, data, pos, npush, consVars, rcvd>>

\* It fails, because the position has moved or spuriously, and reloads pos.
PushCasFail(p) ==
    /\ pc[p] = "cas"
    /\ pos' = [pos EXCEPT ![p] = enqueue_pos]
    /\ pc' = [pc EXCEPT ![p] = "seq"]
    /\ UNCHANGED <<enqueue_pos, dequeue_pos, seq, data, npush, consVars, sent, rcvd>>

PushWrite(p) ==
    /\ pc[p] = "write"
    /\ data' = [data EXCEPT ![Index(pos[p])] = Payload(p)]
    /\ pc' = [pc EXCEPT ![p] = "publish"]
    /\ UNCHANGED <<enqueue_pos, dequeue_pos, seq, pos, npush, consVars, sent, rcvd>>

\* Mutant of PushPublish: publishes pos instead of pos + 1.
PushPublishOffByOne(p) ==
    /\ pc[p] = "publish"
    /\ seq' = [seq EXCEPT ![Index(pos[p])] = pos[p]]
    /\ pc' = [pc EXCEPT ![p] = "load"]
    /\ npush' = [npush EXCEPT ![p] = @ + 1]
    /\ UNCHANGED <<enqueue_pos, dequeue_pos, data, pos, consVars, sent, rcvd>>

PushPublish(p) ==
    /\ pc[p] = "publish"
    /\ seq' = [seq EXCEPT ![Index(pos[p])] = pos[p] + 1]
    /\ pc' = [pc EXCEPT ![p] = "load"]
    /\ npush' = [npush EXCEPT ![p] = @ + 1]
    /\ UNCHANGED <<enqueue_pos, dequeue_pos, data, pos, consVars, sent, rcvd>>

-----------------------------------------------------------------------------
(* try_pop *)

PopLoad ==
    /\ cpc = "load"
    /\ cpos' = dequeue_pos
    /\ cpc' = "seq"
    /\ UNCHANGED <<enqueue_pos, dequeue_pos, seq, data, prodVars, sent, rcvd>>

\* Mutant of PopSeq: the cell is taken without looking at its sequence number.
PopSeqNoTest ==
    /\ cpc = "seq"
    /\ cpc' = IF dequeue_pos < enqueue_pos THEN "cas" ELSE "load"
    /\ UNCHANGED <<enqueue_pos, dequeue_pos, seq, data, prodVars, cpos, sent, rcvd>>

\* Published: go on.  Not yet (empty) or already passed: pop() starts over.
PopSeq ==
    /\ cpc = "seq"
    /\ cpc' = IF seq[Index(cpos)] = cpos + 1 THEN "cas" ELSE "load"
    /\ UNCHANGED <<enqueue_pos, dequeue_pos, seq, data, prodVars, cpos, sent, rcvd>>

PopClaim ==
    /\ cpc = "cas"
    /\ dequeue_pos = cpos
    /\ dequeue_pos' = cpos + 1
    /\ cpc' = "read"
    /\ UNCHANGED <<enqueue_pos, seq, data, prodVars, cpos, sent, rcvd>>

PopCasFail ==
    /\ cpc = "cas"
    /\ cpos' = dequeue_pos
    /\ cpc' = "seq"
    /\ UNCHANGED <<enqueue_pos, dequeue_pos, seq, data, prodVars, sent, rcvd>>

PopRead ==
    /\ cpc = "read"
    /\ rcvd' = Append(rcvd, data[Index(cpos)])
    /\ cpc' = "release"
    /\ UNCHANGED <<enqueue_pos, dequeue_pos, seq, data, prodVars, cpos, sent>>

\* Mutant of PopRelease: the cell is never released.
PopReleaseSkipped ==
    /\ cpc = "release"
    /\ cpc' = "load"
    /\ UNCHANGED <<enqueue_pos, dequeue_pos, seq, data, prodVars, cpos, sent, rcvd>>

\* pos + mask_ + 1: the cell is free for the next lap.
PopRelease ==
    /\ cpc = "release"
    /\ seq' = [seq EXCEPT ![Index(cpos)] = cpos + N]
    /\ cpc' = "load"
    /\ UNCHANGED <<enqueue_pos, dequeue_pos, data, prodVars, cpos, sent, rcvd>>

-----------------------------------------------------------------------------
Push(p) ==
    \/ PushLoad(p)
    \/ PushSeq(p)
    \/ PushClaim(p)
    \/ PushCasFail(p)
    \/ PushWrite(p)
    \/ PushPublish(p)

Pop ==
    \/ PopLoad
    \/ PopSeq
    \/ PopClaim
    \/ PopCasFail
    \/ PopRead
    \/ PopRelease

Next == Pop \/ \E p \in Producer : Push(p)

Spec == Init /\ [][Next]_vars

(***************************************************************************)
(* Threads keep running.  A compare-exchange whose expected value is       *)
(* current may fail spuriously, but not for ever.                          *)
(***************************************************************************)
Fairness ==
    /\ WF_vars(Pop)
    /\ SF_vars(PopClaim)
    /\ \A p \in Producer : WF_vars(Push(p)) /\ SF_vars(PushClaim(p))

FairSpec == Spec /\ Fairness
-----------------------------------------------------------------------------
(* Properties *)

\* Every variable stays in its type.
TypeOK ==
    /\ enqueue_pos \in Nat
    /\ dequeue_pos \in Nat
    /\ seq \in [Cells -> Nat]
    /\ data \in [Cells -> Message \cup {NoData}]
    /\ pc \in [Producer -> ProducerPc]
    /\ pos \in [Producer -> Nat]
    /\ npush \in [Producer -> Nat \ {0}]
    /\ \A p \in Producer : pc[p] # "load" => npush[p] <= MaxPush
    /\ cpc \in ConsumerPc
    /\ cpos \in Nat
    /\ sent \in Seq(Message)
    /\ rcvd \in Seq(Message \cup {NoData})

\* Producer p owns a claimed cell it has not published yet.
Holds(p) == pc[p] \in {"write", "publish"}
\* The consumer owns a claimed cell it has not released yet.
ConsumerHolds == cpc \in {"read", "release"}
\* The first position whose cell has not been released.
Low == IF ConsumerHolds THEN dequeue_pos - 1 ELSE dequeue_pos
Published(x) == x < enqueue_pos /\ \A p \in Producer : Holds(p) => pos[p] # x

\* The plain (non-atomic) accesses to a cell's data never overlap: no two
\* producers own the same cell between claim and publication, and none owns
\* the cell the consumer is copying out of (try_push's `cell->data = x'
\* against try_pop's `out = cell->data').
NoDataRace ==
    \A p \in Producer : Holds(p) =>
        /\ \A q \in Producer \ {p} : Holds(q) => Index(pos[p]) # Index(pos[q])
        /\ ConsumerHolds => Index(pos[p]) # Index(cpos)

\* A full ring blocks the producer: no position is claimed more than the
\* ring's capacity ahead of the first cell the consumer has not released
\* (try_push's `return false; // full').
FullRingBlocks == enqueue_pos <= Low + N

\* What the position counters and the histories say of each other; a claim
\* never runs more than N positions ahead of the last released cell.
CounterInv ==
    /\ Len(sent) = enqueue_pos
    /\ Len(rcvd) = IF cpc = "read" THEN dequeue_pos - 1 ELSE dequeue_pos
    /\ ConsumerHolds => dequeue_pos > 0 /\ cpos = dequeue_pos - 1
    /\ cpc \in {"seq", "cas"} => cpos = dequeue_pos
    /\ dequeue_pos <= enqueue_pos
    /\ FullRingBlocks

\* A producer that owns a cell owns a distinct position of the window; one
\* about to compare-exchange the current position has seen its cell free.
ClaimInv ==
    \A p \in Producer :
        /\ pc[p] \in {"seq", "cas"} => pos[p] <= enqueue_pos
        /\ pc[p] = "cas" /\ pos[p] = enqueue_pos => enqueue_pos < Low + N
        /\ Holds(p) =>
             /\ dequeue_pos <= pos[p] /\ pos[p] < enqueue_pos
             /\ sent[pos[p] + 1] = Payload(p)
             /\ \A q \in Producer \ {p} : Holds(q) => pos[q] # pos[p]
        /\ pc[p] = "publish" => data[Index(pos[p])] = Payload(p)

\* The sequence number of the cell of each position in the window tells
\* exactly whether the position is published, and a published cell holds the
\* message that claimed the position.
CellInv ==
    /\ \A x \in Low..(Low + N - 1) :
         seq[Index(x)] = IF Published(x) THEN x + 1 ELSE x
    /\ \A x \in Low..(enqueue_pos - 1) :
         Published(x) => data[Index(x)] = sent[x + 1]
    /\ cpc \in {"cas", "read", "release"} => Published(cpos)

\* Everything popped is what was pushed, in the order of the claims.
DeliveryInv == \A i \in 1..Len(rcvd) : rcvd[i] = sent[i]

\* The ring's inductive invariant: counters, claims, cells and deliveries
\* agree (try_push and try_pop, all atomic steps).
RingInv ==
    /\ CounterInv
    /\ ClaimInv
    /\ CellInv
    /\ DeliveryInv

\* The ring implements the FIFO mailbox of Queue.hpp: a push takes effect at
\* its successful compare-exchange, a pop when the consumer copies the data.
Mbox == INSTANCE Mailbox WITH Message <- Message, sent <- sent, rcvd <- rcvd
MailboxSpec == Mbox!Spec

\* Every message that claimed a position is eventually handed to the consumer.
EventualDelivery ==
    \A m \in Message :
        (\E i \in 1..Len(sent) : sent[i] = m) ~> (\E i \in 1..Len(rcvd) : rcvd[i] = m)

\* Every producer gets all its messages in, however often the ring is full: a
\* push held up by a full ring resumes once the consumer has released a cell.
PushesComplete == \A p \in Producer : <>(npush[p] > MaxPush)
=============================================================================

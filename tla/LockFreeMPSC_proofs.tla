------------------------- MODULE LockFreeMPSC_proofs -------------------------
(***************************************************************************)
(* Proofs about the lock-free ring for any set of producers, any number of *)
(* messages and any capacity of at least two cells: type correctness, the  *)
(* inductive invariant RingInv, absence of data races on the cells, and    *)
(* the refinement of the FIFO mailbox; and of the parking handshake around *)
(* it, that no wakeup is lost.                                             *)
(***************************************************************************)
EXTENDS LockFreeMPSC, ParkHandshake, SequenceTheorems, TLAPS

-----------------------------------------------------------------------------
(* The index of a position: two positions share a cell only when they are  *)
(* at least a lap apart, and they do when they are exactly one lap apart.  *)

\* A position is a number of laps and the index of its cell.
LEMMA Division ==
  ASSUME NEW x \in Nat
  PROVE  \E a \in Nat, r \in Cells : x = N * a + r /\ r = Index(x)
<1> /\ x \div N \in Nat
    /\ x % N \in 0..(N - 1)
    /\ x = N * (x \div N) + (x % N)
  BY CapacityAssumption, SMT
<1> USE DEF Index, Cells
<1> WITNESS x \div N \in Nat, x % N \in 0..(N - 1)
<1> QED
  OBVIOUS

\* A positive multiple of the capacity is at least the capacity.
LEMMA PositiveMultiple ==
  ASSUME NEW k \in Int, N * k > 0
  PROVE  N * k >= N
<1>1. k >= 1
  BY CapacityAssumption, SMT
<1>2. N * k >= N * 1
  BY <1>1, CapacityAssumption, SMT
<1> QED
  BY <1>2, CapacityAssumption

\* The index of a position is a cell.
LEMMA IndexInCells ==
  ASSUME NEW x \in Nat
  PROVE  Index(x) \in Cells
BY Division

\* Two positions less than a lap apart have different cells.
LEMMA IndexDiffers ==
  ASSUME NEW x \in Nat, NEW y \in Nat, x < y, y < x + N
  PROVE  Index(x) # Index(y)
<1> SUFFICES ASSUME Index(x) = Index(y) PROVE FALSE
  OBVIOUS
<1>1. PICK a \in Nat, r \in Cells : x = N * a + r /\ r = Index(x)
  BY Division
<1>2. PICK b \in Nat, s \in Cells : y = N * b + s /\ s = Index(y)
  BY Division
<1>3. y - x = N * (b - a)
  <2>1. x = N * a + r /\ y = N * b + r
    BY <1>1, <1>2
  <2>2. N * a \in Nat /\ N * b \in Nat /\ r \in Nat
    BY CapacityAssumption DEF Cells
  <2>3. \A u, v, w \in Nat : (v + w) - (u + w) = v - u
    OBVIOUS
  <2>4. y - x = N * b - N * a
    BY <2>1, <2>2, <2>3
  <2>5. N * (b - a) = N * b - N * a
    BY CapacityAssumption
  <2> QED
    BY <2>4, <2>5
<1>4. b - a \in Int
  BY <1>1, <1>2
<1>5. N * (b - a) >= N
  BY <1>3, <1>4, PositiveMultiple
<1> QED
  BY <1>3, <1>5, CapacityAssumption

\* So have any two positions of one window of N.
LEMMA IndexInWindow ==
  ASSUME NEW lo \in Nat, NEW x \in lo..(lo + N - 1), NEW y \in lo..(lo + N - 1), x # y
  PROVE  Index(x) # Index(y)
<1>1. x \in Nat /\ y \in Nat /\ x < y + N /\ y < x + N /\ (x < y \/ y < x)
  BY CapacityAssumption
<1> QED
  BY <1>1, IndexDiffers

\* A position's cell serves the same position of the next lap.
LEMMA IndexNextLap ==
  ASSUME NEW x \in Nat
  PROVE  Index(x + N) = Index(x)
<1>1. PICK a \in Nat, r \in Cells : x = N * a + r /\ r = Index(x)
  BY Division
<1>2. PICK b \in Nat, s \in Cells : x + N = N * b + s /\ s = Index(x + N)
  <2>1. x + N \in Nat
    BY CapacityAssumption
  <2> QED
    BY <2>1, Division
<1>3. s - r = N * (a + 1 - b) /\ r - s = N * (b - a - 1)
  BY <1>1, <1>2, CapacityAssumption DEF Cells
<1>4. ~(N * (a + 1 - b) > 0)
  <2>1. a + 1 - b \in Int
    BY <1>1, <1>2
  <2>2. N * (a + 1 - b) < N
    BY <1>1, <1>2, <1>3, CapacityAssumption DEF Cells
  <2> QED
    BY <2>1, <2>2, PositiveMultiple, CapacityAssumption
<1>5. ~(N * (b - a - 1) > 0)
  <2>1. b - a - 1 \in Int
    BY <1>1, <1>2
  <2>2. N * (b - a - 1) < N
    BY <1>1, <1>2, <1>3, CapacityAssumption DEF Cells
  <2> QED
    BY <2>1, <2>2, PositiveMultiple, CapacityAssumption
<1>6. s - r \in Int /\ r - s \in Int /\ ~(s - r > 0) /\ ~(r - s > 0)
  BY <1>1, <1>2, <1>3, <1>4, <1>5 DEF Cells
<1>7. s = r
  BY <1>1, <1>2, <1>6, CapacityAssumption DEF Cells
<1> QED
  BY <1>1, <1>2, <1>7

-----------------------------------------------------------------------------
(* Type correctness *)

\* The constructor's state has its types.
LEMMA TypeInit == Init => TypeOK
BY CapacityAssumption
   DEF Init, TypeOK, Cells, Message, NoData, ProducerPc, ConsumerPc

\* Every atomic access keeps them.
LEMMA TypeStep == TypeOK /\ [Next]_vars => TypeOK'
<1> SUFFICES ASSUME TypeOK, [Next]_vars
             PROVE  TypeOK'
  OBVIOUS
<1> USE DEF TypeOK, ProducerPc, ConsumerPc, prodVars, consVars
<1>1. ASSUME NEW p \in Producer, PushLoad(p)
      PROVE  TypeOK'
  BY <1>1 DEF PushLoad
<1>2. ASSUME NEW p \in Producer, PushSeq(p)
      PROVE  TypeOK'
  BY <1>2 DEF PushSeq
<1>3. ASSUME NEW p \in Producer, PushClaim(p)
      PROVE  TypeOK'
  <2>1. Payload(p) \in Message
    BY <1>3, MaxPushAssumption DEF PushClaim, Payload, Message
  <2> QED
    BY <1>3, <2>1 DEF PushClaim
<1>4. ASSUME NEW p \in Producer, PushCasFail(p)
      PROVE  TypeOK'
  BY <1>4 DEF PushCasFail
<1>5. ASSUME NEW p \in Producer, PushWrite(p)
      PROVE  TypeOK'
  <2>1. Payload(p) \in Message
    BY <1>5, MaxPushAssumption DEF PushWrite, Payload, Message
  <2> QED
    BY <1>5, <2>1 DEF PushWrite
<1>6. ASSUME NEW p \in Producer, PushPublish(p)
      PROVE  TypeOK'
  <2>1. pos[p] + 1 \in Nat /\ npush[p] + 1 \in Nat \ {0}
    OBVIOUS
  <2> QED
    BY <1>6, <2>1 DEF PushPublish
<1>7. ASSUME Pop
      PROVE  TypeOK'
  <2>1. CASE PopLoad
    BY <2>1 DEF PopLoad
  <2>2. CASE PopSeq
    BY <2>2 DEF PopSeq
  <2>3. CASE PopClaim
    BY <2>3 DEF PopClaim
  <2>4. CASE PopCasFail
    BY <2>4 DEF PopCasFail
  <2>5. CASE PopRead
    <3>1. data[Index(cpos)] \in Message \cup {NoData}
      BY IndexInCells
    <3> QED
      BY <2>5, <3>1 DEF PopRead
  <2>6. CASE PopRelease
    <3>1. cpos + N \in Nat
      BY CapacityAssumption
    <3> QED
      BY <2>6, <3>1 DEF PopRelease
  <2> QED
    BY <1>7, <2>1, <2>2, <2>3, <2>4, <2>5, <2>6 DEF Pop
<1>8. CASE UNCHANGED vars
  BY <1>8 DEF vars
<1> QED
  BY <1>1, <1>2, <1>3, <1>4, <1>5, <1>6, <1>7, <1>8 DEF Next, Push

\* Every variable of the ring stays in its type, for every capacity: in
\* particular a message is only ever pushed within its producer's bound.
THEOREM TypeCorrect == Spec => []TypeOK
<1>1. Init => TypeOK
  BY TypeInit
<1>2. TypeOK /\ [Next]_vars => TypeOK'
  BY TypeStep
<1> QED
  BY <1>1, <1>2, PTL DEF Spec

-----------------------------------------------------------------------------
(* The inductive invariant *)

\* A new ring: every cell is free for the position of its index.
LEMMA RingInit == Init => RingInv
<1> SUFFICES ASSUME Init PROVE RingInv
  OBVIOUS
<1>1. CounterInv /\ ClaimInv /\ DeliveryInv
  BY CapacityAssumption
     DEF Init, CounterInv, ClaimInv, DeliveryInv, FullRingBlocks, Low, ConsumerHolds, Holds
<1>2. CellInv
  <2>1. Low = 0 /\ enqueue_pos = 0 /\ cpc = "load"
    BY DEF Init, Low, ConsumerHolds
  <2>2. \A x \in 0..(N - 1) : Index(x) = x
    <3> SUFFICES ASSUME NEW x \in 0..(N - 1), Index(x) # x PROVE FALSE
      OBVIOUS
    <3>1. PICK a \in Nat, r \in Cells : x = N * a + r /\ r = Index(x)
      BY Division
    <3>2. N * a > 0 /\ N * a < N
      BY <3>1, CapacityAssumption DEF Cells
    <3> QED
      BY <3>2, PositiveMultiple, CapacityAssumption
  <2>3. \A x \in 0..(N - 1) : seq[Index(x)] = x /\ ~ Published(x)
    BY <2>1, <2>2 DEF Init, Cells, Published
  <2> QED
    BY <2>1, <2>3, CapacityAssumption DEF CellInv
<1> QED
  BY <1>1, <1>2 DEF RingInv

(* A producer that finds the cell of the current position free may claim it: *)
(* in a full ring of at least two cells the cell of the next position is the *)
(* cell of Low, and its sequence number is Low or Low + 1, not Low + N.      *)
LEMMA FreeCellMeansSpace ==
  ASSUME TypeOK, RingInv, N >= 2, seq[Index(enqueue_pos)] = enqueue_pos
  PROVE  enqueue_pos < Low + N
<1> SUFFICES ASSUME enqueue_pos = Low + N PROVE FALSE
  BY CapacityAssumption
     DEF RingInv, CounterInv, FullRingBlocks, TypeOK, Low, ConsumerHolds
<1>1. Low \in Nat
  BY DEF RingInv, CounterInv, TypeOK, Low, ConsumerHolds
<1>2. Index(enqueue_pos) = Index(Low)
  BY <1>1, IndexNextLap
<1>3. Low \in Low..(Low + N - 1)
  BY <1>1, CapacityAssumption
<1>4. seq[Index(Low)] \in {Low, Low + 1}
  BY <1>3 DEF RingInv, CellInv
<1> QED
  BY <1>1, <1>2, <1>4, CapacityAssumption

\* The first position not released is a number.
LEMMA LowNat == TypeOK /\ RingInv => Low \in Nat
BY DEF RingInv, CounterInv, TypeOK, Low, ConsumerHolds

(* The steps of try_push. *)
LEMMA PushKeepsRing ==
  ASSUME TypeOK, TypeOK', RingInv, N >= 2, NEW p \in Producer, Push(p)
  PROVE  RingInv'
<1> USE CapacityAssumption
<1>low. Low \in Nat
  BY LowNat
<1>win. \A q \in Producer : Holds(q) => pos[q] \in Low..(Low + N - 1) /\ pos[q] \in Low..(enqueue_pos - 1)
  <2>1. Low <= dequeue_pos /\ enqueue_pos <= Low + N
    BY DEF RingInv, CounterInv, FullRingBlocks, TypeOK, Low, ConsumerHolds
  <2>2. \A q \in Producer : Holds(q) => dequeue_pos <= pos[q] /\ pos[q] < enqueue_pos
    BY DEF RingInv, ClaimInv
  <2>3. dequeue_pos \in Nat /\ enqueue_pos \in Nat /\ pos \in [Producer -> Nat]
    BY DEF TypeOK
  <2> SUFFICES ASSUME NEW q \in Producer, Holds(q)
               PROVE  pos[q] \in Low..(Low + N - 1) /\ pos[q] \in Low..(enqueue_pos - 1)
    OBVIOUS
  <2>4. pos[q] \in Nat /\ dequeue_pos <= pos[q] /\ pos[q] < enqueue_pos
    BY <2>2, <2>3
  <2> QED
    BY <1>low, <2>1, <2>3, <2>4
<1>1. CASE PushLoad(p) \/ PushCasFail(p)
  <2>1. /\ pos' = [pos EXCEPT ![p] = enqueue_pos] /\ pc' = [pc EXCEPT ![p] = "seq"]
        /\ ~ Holds(p) /\ ~ Holds(p)'
        /\ UNCHANGED <<enqueue_pos, dequeue_pos, seq, data, npush, cpc, cpos, sent, rcvd>>
    BY <1>1 DEF PushLoad, PushCasFail, Holds, TypeOK, consVars
  <2>2. \A q \in Producer : /\ Holds(q)' = Holds(q)
                            /\ Holds(q) => pos'[q] = pos[q] /\ Payload(q)' = Payload(q)
    BY <2>1 DEF Holds, TypeOK, Payload
  <2>3. Low' = Low
    BY <2>1 DEF Low, ConsumerHolds
  <2>4. \A x : Published(x)' = Published(x)
    BY <2>1, <2>2 DEF Published
  <2>5. CounterInv'
    BY <2>1, <2>3 DEF RingInv, CounterInv, FullRingBlocks, ConsumerHolds
  <2>6. ClaimInv'
    BY <2>1, <2>2, <2>3 DEF RingInv, ClaimInv, TypeOK, Holds, Payload
  <2>7. CellInv'
    BY <2>1, <2>3, <2>4 DEF RingInv, CellInv
  <2> QED
    BY <2>1, <2>5, <2>6, <2>7 DEF RingInv, DeliveryInv
<1>2. CASE PushSeq(p)
  <2>1. /\ pc' = [pc EXCEPT ![p] = IF seq[Index(pos[p])] = pos[p] THEN "cas" ELSE "load"]
        /\ pc[p] = "seq" /\ ~ Holds(p) /\ ~ Holds(p)'
        /\ UNCHANGED <<enqueue_pos, dequeue_pos, seq, data, pos, npush, cpc, cpos, sent, rcvd>>
    BY <1>2 DEF PushSeq, Holds, TypeOK, consVars
  <2>2. \A q \in Producer : Holds(q)' = Holds(q) /\ Payload(q)' = Payload(q)
    BY <2>1 DEF Holds, TypeOK, Payload
  <2>3. Low' = Low
    BY <2>1 DEF Low, ConsumerHolds
  <2>4. \A x : Published(x)' = Published(x)
    BY <2>1, <2>2 DEF Published
  <2>5. CounterInv'
    BY <2>1, <2>3 DEF RingInv, CounterInv, FullRingBlocks, ConsumerHolds
  <2>6. ClaimInv'
    <3>1. pc'[p] = "cas" /\ pos[p] = enqueue_pos => enqueue_pos < Low + N
      BY <2>1, FreeCellMeansSpace DEF TypeOK
    <3> QED
      BY <2>1, <2>2, <2>3, <3>1 DEF RingInv, ClaimInv, TypeOK, Holds
  <2>7. CellInv'
    BY <2>1, <2>3, <2>4 DEF RingInv, CellInv
  <2> QED
    BY <2>1, <2>5, <2>6, <2>7 DEF RingInv, DeliveryInv
<1>3. CASE PushClaim(p)
  <2>1. /\ pc[p] = "cas" /\ pos[p] = enqueue_pos /\ enqueue_pos' = enqueue_pos + 1
        /\ sent' = Append(sent, Payload(p)) /\ pc' = [pc EXCEPT ![p] = "write"]
        /\ ~ Holds(p) /\ Holds(p)'
        /\ UNCHANGED <<dequeue_pos, seq, data, pos, npush, cpc, cpos, rcvd>>
    BY <1>3 DEF PushClaim, Holds, TypeOK, consVars
  <2>2. \A q \in Producer \ {p} : Holds(q)' = Holds(q)
    BY <2>1 DEF Holds, TypeOK
  <2>3. Low' = Low /\ enqueue_pos < Low + N /\ \A q \in Producer : Payload(q)' = Payload(q)
    BY <2>1 DEF Low, ConsumerHolds, RingInv, ClaimInv, Payload
  <2>4. \A x \in Nat : Published(x)' <=> Published(x)
    <3> SUFFICES ASSUME NEW x \in Nat PROVE Published(x)' <=> Published(x)
      OBVIOUS
    <3>1. CASE x = enqueue_pos
      <4>1. ~ Published(x) /\ ~ Published(x)'
        BY <2>1, <3>1 DEF Published, TypeOK
      <4> QED
        BY <4>1
    <3>2. CASE x # enqueue_pos
      <4>1. x < enqueue_pos' <=> x < enqueue_pos
        BY <2>1, <3>2 DEF TypeOK
      <4> QED
        BY <2>1, <2>2, <3>2, <4>1 DEF Published
    <3> QED
      BY <3>1, <3>2
  <2>5. /\ Len(sent) = enqueue_pos /\ Len(sent') = enqueue_pos + 1
        /\ sent'[enqueue_pos + 1] = Payload(p)
        /\ \A i \in 1..enqueue_pos : sent'[i] = sent[i]
    <3>1. sent \in Seq(Message) /\ Payload(p) \in Message
      BY <2>1, MaxPushAssumption DEF TypeOK, Payload, Message
    <3>2. Len(sent) = enqueue_pos
      BY DEF RingInv, CounterInv
    <3> QED
      BY <2>1, <3>1, <3>2
  <2>6. CounterInv'
    BY <1>low, <2>1, <2>3, <2>5 DEF RingInv, CounterInv, FullRingBlocks, ConsumerHolds, TypeOK
  <2>7. ClaimInv'
    <3> SUFFICES ASSUME NEW q \in Producer PROVE ClaimInv!(q)'
      BY DEF ClaimInv
    <3> QED
      BY <1>win, <2>1, <2>2, <2>3, <2>5, <2>6 DEF RingInv, CounterInv, ClaimInv, TypeOK, Holds
  <2>8. CellInv'
    <3>1. \A x \in Low..(Low + N - 1) : seq'[Index(x)] = IF Published(x)' THEN x + 1 ELSE x
      BY <1>low, <2>1, <2>4 DEF RingInv, CellInv
    <3>2. ASSUME NEW x \in Low..(enqueue_pos' - 1), Published(x)'
          PROVE  data'[Index(x)] = sent'[x + 1]
      <4>1. x \in Nat /\ Published(x) /\ x \in Low..(enqueue_pos - 1)
        BY <1>low, <2>1, <2>4, <3>2 DEF Published, TypeOK
      <4>2. x + 1 \in 1..enqueue_pos
        BY <4>1, <1>low DEF TypeOK
      <4> QED
        BY <2>1, <2>5, <4>1, <4>2 DEF RingInv, CellInv
    <3>3. cpc' \in {"cas", "read", "release"} => Published(cpos)'
      BY <2>1, <2>4 DEF RingInv, CellInv, TypeOK
    <3> QED
      BY <2>3, <3>1, <3>2, <3>3 DEF CellInv
  <2>9. DeliveryInv'
    BY <2>1, <2>5 DEF RingInv, DeliveryInv, CounterInv, TypeOK
  <2> QED
    BY <2>6, <2>7, <2>8, <2>9 DEF RingInv
<1>4. CASE PushWrite(p)
  <2>1. /\ pc[p] = "write" /\ pc' = [pc EXCEPT ![p] = "publish"] /\ Holds(p) /\ Holds(p)'
        /\ data' = [data EXCEPT ![Index(pos[p])] = Payload(p)]
        /\ UNCHANGED <<enqueue_pos, dequeue_pos, seq, pos, npush, cpc, cpos, sent, rcvd>>
    BY <1>4 DEF PushWrite, Holds, TypeOK, consVars
  <2>2. \A q \in Producer : (Holds(q)' <=> Holds(q)) /\ Payload(q)' = Payload(q)
    BY <2>1 DEF Holds, TypeOK, Payload
  <2>3. Low' = Low
    BY <2>1 DEF Low, ConsumerHolds
  <2>4. \A x : Published(x)' <=> Published(x)
    BY <2>1, <2>2 DEF Published
  <2>5. \A x \in Low..(Low + N - 1) : x # pos[p] => data'[Index(x)] = data[Index(x)]
    <3>1. \A x \in Low..(Low + N - 1) : x # pos[p] => Index(x) # Index(pos[p])
      BY <1>low, <1>win, <2>1, IndexInWindow
    <3>2. \A x \in Low..(Low + N - 1) : Index(x) \in Cells
      BY <1>low, IndexInCells
    <3> QED
      BY <2>1, <3>1, <3>2 DEF TypeOK
  <2>6. data'[Index(pos[p])] = Payload(p)
    BY <2>1, IndexInCells DEF TypeOK
  <2>7. CounterInv'
    BY <2>1, <2>3 DEF RingInv, CounterInv, FullRingBlocks, ConsumerHolds
  <2>8. ClaimInv'
    <3> SUFFICES ASSUME NEW q \in Producer PROVE ClaimInv!(q)'
      BY DEF ClaimInv
    <3>1. pc'[q] = "publish" => data'[Index(pos[q])] = Payload(q)
      <4>1. CASE q = p
        BY <2>6, <4>1
      <4>2. CASE q # p /\ pc[q] = "publish"
        <5>1. Holds(q) /\ pos[q] # pos[p] /\ pos[q] \in Low..(Low + N - 1)
          BY <1>win, <2>1, <4>2 DEF RingInv, ClaimInv, Holds
        <5> QED
          BY <2>5, <4>2, <5>1 DEF RingInv, ClaimInv
      <4> QED
        BY <2>1, <4>1, <4>2 DEF TypeOK
    <3> QED
      BY <2>1, <2>2, <2>3, <3>1 DEF RingInv, ClaimInv, TypeOK
  <2>9. CellInv'
    <3>1. ASSUME NEW x \in Low..(enqueue_pos - 1), Published(x)
          PROVE  data'[Index(x)] = sent[x + 1]
      <4>1. x # pos[p]
        BY <2>1, <3>1 DEF Published
      <4>2. x \in Low..(Low + N - 1)
        BY <1>low, <3>1 DEF RingInv, CounterInv, FullRingBlocks, TypeOK
      <4> QED
        BY <2>5, <3>1, <4>1, <4>2 DEF RingInv, CellInv
    <3> QED
      BY <2>1, <2>3, <2>4, <3>1 DEF RingInv, CellInv
  <2> QED
    BY <2>1, <2>7, <2>8, <2>9 DEF RingInv, DeliveryInv
<1>5. CASE PushPublish(p)
  <2>1. /\ pc[p] = "publish" /\ pc' = [pc EXCEPT ![p] = "load"] /\ Holds(p) /\ ~ Holds(p)'
        /\ seq' = [seq EXCEPT ![Index(pos[p])] = pos[p] + 1]
        /\ npush' = [npush EXCEPT ![p] = npush[p] + 1]
        /\ UNCHANGED <<enqueue_pos, dequeue_pos, data, pos, cpc, cpos, sent, rcvd>>
    BY <1>5 DEF PushPublish, Holds, TypeOK, consVars
  <2>2. \A q \in Producer \ {p} : (Holds(q)' <=> Holds(q)) /\ Payload(q)' = Payload(q)
    BY <2>1 DEF Holds, TypeOK, Payload
  <2>3. Low' = Low
    BY <2>1 DEF Low, ConsumerHolds
  <2>4. pos[p] < enqueue_pos /\ \A q \in Producer \ {p} : Holds(q) => pos[q] # pos[p]
    BY <2>1 DEF RingInv, ClaimInv
  <2>5. \A x : Published(x)' <=> Published(x) \/ x = pos[p]
    BY <2>1, <2>2, <2>4 DEF Published
  <2>6. \A x \in Low..(Low + N - 1) : x # pos[p] => seq'[Index(x)] = seq[Index(x)]
    <3>1. \A x \in Low..(Low + N - 1) : x # pos[p] => Index(x) # Index(pos[p])
      BY <1>low, <1>win, <2>1, IndexInWindow
    <3>2. \A x \in Low..(Low + N - 1) : Index(x) \in Cells
      BY <1>low, IndexInCells
    <3> QED
      BY <2>1, <3>1, <3>2 DEF TypeOK
  <2>7. seq'[Index(pos[p])] = pos[p] + 1
    BY <2>1, IndexInCells DEF TypeOK
  <2>8. CounterInv'
    BY <2>1, <2>3 DEF RingInv, CounterInv, FullRingBlocks, ConsumerHolds
  <2>9. ClaimInv'
    <3> SUFFICES ASSUME NEW q \in Producer PROVE ClaimInv!(q)'
      BY DEF ClaimInv
    <3>1. CASE q = p
      BY <2>1, <3>1 DEF TypeOK
    <3>2. CASE q # p
      <4>1. pc'[q] = pc[q]
        BY <2>1, <3>2 DEF TypeOK
      <4> QED
        BY <2>1, <2>2, <2>3, <3>2, <4>1 DEF RingInv, ClaimInv, TypeOK
    <3> QED
      BY <3>1, <3>2
  <2>10. CellInv'
    <3>1. \A x \in Low..(Low + N - 1) : seq'[Index(x)] = IF Published(x)' THEN x + 1 ELSE x
      BY <2>5, <2>6, <2>7 DEF RingInv, CellInv
    <3>2. \A x \in Low..(enqueue_pos - 1) : Published(x)' => data[Index(x)] = sent[x + 1]
      BY <2>1, <2>5 DEF RingInv, CellInv, ClaimInv
    <3> QED
      BY <2>1, <2>3, <2>5, <3>1, <3>2 DEF RingInv, CellInv
  <2> QED
    BY <2>1, <2>8, <2>9, <2>10 DEF RingInv, DeliveryInv
<1> QED
  BY <1>1, <1>2, <1>3, <1>4, <1>5 DEF Push

(* The steps of try_pop. *)
LEMMA PopKeepsRing ==
  ASSUME TypeOK, TypeOK', RingInv, Pop
  PROVE  RingInv'
<1> USE CapacityAssumption
<1>low. Low \in Nat
  BY LowNat
<1>prod. ASSUME UNCHANGED <<prodVars, enqueue_pos>>
         PROVE  /\ \A q \in Producer : (Holds(q)' <=> Holds(q)) /\ Payload(q)' = Payload(q)
                /\ \A x : Published(x)' <=> Published(x)
  <2>1. \A q \in Producer : (Holds(q)' <=> Holds(q)) /\ Payload(q)' = Payload(q)
    BY <1>prod DEF Holds, Payload, prodVars
  <2> QED
    BY <1>prod, <2>1 DEF Published, prodVars
<1>1. CASE PopLoad \/ PopCasFail
  <2>1. /\ cpos' = dequeue_pos /\ cpc' = "seq" /\ ~ ConsumerHolds /\ ~ ConsumerHolds'
        /\ UNCHANGED <<enqueue_pos, dequeue_pos, seq, data, pc, pos, npush, sent, rcvd, prodVars>>
    BY <1>1 DEF PopLoad, PopCasFail, ConsumerHolds, TypeOK, prodVars
  <2>2. Low' = Low
    BY <2>1 DEF Low
  <2>3. CounterInv'
    BY <1>1, <2>1, <2>2 DEF RingInv, CounterInv, FullRingBlocks, PopLoad, PopCasFail
  <2>4. ClaimInv'
    BY <1>prod, <2>1, <2>2 DEF RingInv, ClaimInv
  <2>5. CellInv'
    BY <1>prod, <2>1, <2>2 DEF RingInv, CellInv
  <2> QED
    BY <2>1, <2>3, <2>4, <2>5 DEF RingInv, DeliveryInv
<1>2. CASE PopSeq
  <2>1. /\ cpc = "seq" /\ cpc' = (IF seq[Index(cpos)] = cpos + 1 THEN "cas" ELSE "load")
        /\ ~ ConsumerHolds /\ ~ ConsumerHolds'
        /\ UNCHANGED <<enqueue_pos, dequeue_pos, seq, data, pc, pos, npush, cpos, sent, rcvd, prodVars>>
    BY <1>2 DEF PopSeq, ConsumerHolds, prodVars
  <2>2. Low' = Low /\ cpos = Low
    BY <2>1 DEF Low, RingInv, CounterInv
  <2>3. cpc' = "cas" => Published(cpos)
    <3>1. cpos \in Low..(Low + N - 1)
      BY <1>low, <2>2
    <3>2. seq[Index(cpos)] = IF Published(cpos) THEN cpos + 1 ELSE cpos
      BY <3>1 DEF RingInv, CellInv
    <3> QED
      BY <2>1, <3>2 DEF TypeOK
  <2>4. CounterInv'
    BY <2>1, <2>2 DEF RingInv, CounterInv, FullRingBlocks
  <2>5. ClaimInv'
    BY <1>prod, <2>1, <2>2 DEF RingInv, ClaimInv
  <2>6. CellInv'
    BY <1>prod, <2>1, <2>2, <2>3 DEF RingInv, CellInv
  <2> QED
    BY <2>1, <2>4, <2>5, <2>6 DEF RingInv, DeliveryInv
<1>3. CASE PopClaim
  <2>1. /\ cpc = "cas" /\ cpc' = "read" /\ cpos = dequeue_pos /\ dequeue_pos' = dequeue_pos + 1
        /\ ~ ConsumerHolds /\ ConsumerHolds' /\ Published(cpos)
        /\ UNCHANGED <<enqueue_pos, seq, data, pc, pos, npush, cpos, sent, rcvd, prodVars>>
    BY <1>3 DEF PopClaim, ConsumerHolds, prodVars, RingInv, CellInv
  <2>2. Low' = Low /\ Low = dequeue_pos
    BY <2>1 DEF Low, TypeOK
  <2>3. dequeue_pos < enqueue_pos
    BY <2>1 DEF Published
  <2>4. CounterInv'
    BY <2>1, <2>2, <2>3 DEF RingInv, CounterInv, FullRingBlocks, TypeOK
  <2>5. ClaimInv'
    <3>1. \A q \in Producer : Holds(q) => dequeue_pos + 1 <= pos[q]
      BY <2>1 DEF RingInv, ClaimInv, Published, TypeOK
    <3> QED
      BY <1>prod, <2>1, <2>2, <3>1 DEF RingInv, ClaimInv
  <2>6. CellInv'
    BY <1>prod, <2>1, <2>2 DEF RingInv, CellInv
  <2> QED
    BY <2>1, <2>4, <2>5, <2>6 DEF RingInv, DeliveryInv
<1>4. CASE PopRead
  <2>1. /\ cpc = "read" /\ cpc' = "release" /\ ConsumerHolds /\ ConsumerHolds'
        /\ rcvd' = Append(rcvd, data[Index(cpos)])
        /\ UNCHANGED <<enqueue_pos, dequeue_pos, seq, data, pc, pos, npush, cpos, sent, prodVars>>
    BY <1>4 DEF PopRead, ConsumerHolds, prodVars
  <2>2. /\ Low' = Low /\ Low = cpos /\ dequeue_pos > 0
        /\ cpos = dequeue_pos - 1 /\ Len(rcvd) = cpos
    BY <2>1 DEF Low, RingInv, CounterInv
  <2>3. data[Index(cpos)] = sent[cpos + 1]
    <3>1. Published(cpos)
      BY <2>1 DEF RingInv, CellInv
    <3>2. cpos \in Low..(enqueue_pos - 1)
      BY <2>2, <3>1 DEF Published, TypeOK
    <3> QED
      BY <3>1, <3>2 DEF RingInv, CellInv
  <2>4. /\ Len(rcvd') = cpos + 1
        /\ \A i \in 1..(cpos + 1) : rcvd'[i] = IF i = cpos + 1 THEN data[Index(cpos)] ELSE rcvd[i]
    <3>1. rcvd \in Seq(Message \cup {NoData}) /\ data[Index(cpos)] \in Message \cup {NoData}
      BY IndexInCells DEF TypeOK
    <3> QED
      BY <2>1, <2>2, <3>1 DEF TypeOK
  <2>5. CounterInv'
    BY <2>1, <2>2, <2>4 DEF RingInv, CounterInv, FullRingBlocks, TypeOK
  <2>6. ClaimInv'
    BY <1>prod, <2>1, <2>2 DEF RingInv, ClaimInv
  <2>7. CellInv'
    BY <1>prod, <2>1, <2>2 DEF RingInv, CellInv
  <2>8. DeliveryInv'
    BY <2>1, <2>2, <2>3, <2>4 DEF RingInv, DeliveryInv, TypeOK
  <2> QED
    BY <2>5, <2>6, <2>7, <2>8 DEF RingInv
<1>5. CASE PopRelease
  <2>1. /\ cpc = "release" /\ cpc' = "load" /\ ConsumerHolds /\ ~ ConsumerHolds'
        /\ seq' = [seq EXCEPT ![Index(cpos)] = cpos + N]
        /\ UNCHANGED <<enqueue_pos, dequeue_pos, data, pc, pos, npush, cpos, sent, rcvd, prodVars>>
    BY <1>5 DEF PopRelease, ConsumerHolds, prodVars
  <2>2. Low = cpos /\ Low' = cpos + 1 /\ dequeue_pos = cpos + 1
    BY <2>1 DEF Low, RingInv, CounterInv, TypeOK
  <2>3. seq'[Index(cpos)] = cpos + N
    BY <2>1, IndexInCells DEF TypeOK
  <2>4. \A x \in Low'..(Low + N - 1) : seq'[Index(x)] = seq[Index(x)]
    <3>1. ASSUME NEW x \in Low'..(Low + N - 1)
          PROVE  Index(x) # Index(cpos) /\ Index(x) \in Cells
      <4>1. x \in Nat /\ x \in Low..(Low + N - 1) /\ cpos \in Low..(Low + N - 1) /\ x # cpos
        BY <1>low, <2>2
      <4> QED
        BY <1>low, <4>1, IndexInWindow, IndexInCells
    <3> QED
      BY <2>1, <3>1 DEF TypeOK
  <2>5. CounterInv'
    BY <2>1, <2>2 DEF RingInv, CounterInv, FullRingBlocks, TypeOK
  <2>6. ClaimInv'
    BY <1>prod, <2>1, <2>2 DEF RingInv, ClaimInv, TypeOK
  <2>7. CellInv'
    <3>1. ASSUME NEW x \in Low'..(Low' + N - 1)
          PROVE  seq'[Index(x)] = IF Published(x)' THEN x + 1 ELSE x
      <4>1. CASE x = cpos + N
        <5>1. ~ Published(x)'
          BY <2>1, <2>2, <4>1, <1>low DEF Published, RingInv, CounterInv, FullRingBlocks, TypeOK
        <5>2. Index(x) = Index(cpos)
          BY <4>1, IndexNextLap DEF TypeOK
        <5> QED
          BY <2>3, <4>1, <5>1, <5>2
      <4>2. CASE x # cpos + N
        <5>1. x \in Low'..(Low + N - 1) /\ x \in Low..(Low + N - 1)
          BY <1>low, <2>2, <4>2
        <5> QED
          BY <1>prod, <2>1, <2>4, <5>1 DEF RingInv, CellInv
      <4> QED
        BY <4>1, <4>2
    <3>2. \A x \in Low'..(enqueue_pos' - 1) : Published(x)' => data'[Index(x)] = sent'[x + 1]
      BY <1>low, <1>prod, <2>1, <2>2 DEF RingInv, CellInv, TypeOK
    <3> QED
      BY <2>1, <3>1, <3>2 DEF CellInv
  <2> QED
    BY <2>1, <2>5, <2>6, <2>7 DEF RingInv, DeliveryInv
<1> QED
  BY <1>1, <1>2, <1>3, <1>4, <1>5 DEF Pop

\* Every atomic access keeps the invariant of the ring.
LEMMA RingStep == TypeOK /\ TypeOK' /\ RingInv /\ N >= 2 /\ [Next]_vars => RingInv'
<1> SUFFICES ASSUME TypeOK, TypeOK', RingInv, N >= 2, [Next]_vars
             PROVE  RingInv'
  OBVIOUS
<1>1. CASE Pop
  BY <1>1, PopKeepsRing
<1>2. ASSUME NEW p \in Producer, Push(p)
      PROVE  RingInv'
  BY <1>2, PushKeepsRing
<1>3. CASE UNCHANGED vars
  <2> USE <1>3 DEF vars, prodVars, consVars
  <2>1. CounterInv'
    BY DEF RingInv, CounterInv, FullRingBlocks, Low, ConsumerHolds
  <2>2. ClaimInv'
    BY DEF RingInv, ClaimInv, Low, ConsumerHolds, Holds, Payload
  <2>3. Low' = Low /\ \A x : Published(x)' <=> Published(x)
    BY DEF Low, ConsumerHolds, Published, Holds
  <2>4. CellInv'
    BY <2>3 DEF RingInv, CellInv
  <2>5. DeliveryInv'
    BY DEF RingInv, DeliveryInv
  <2> QED
    BY <2>1, <2>2, <2>4, <2>5 DEF RingInv
<1> QED
  BY <1>1, <1>2, <1>3 DEF Next

\* In a ring of at least two cells, whatever the number of producers and
\* messages, try_push and try_pop keep positions, cells and deliveries in
\* agreement: no claim overtakes a cell that is still in use, a published cell
\* holds the message of its position, and pops follow the order of the claims.
THEOREM RingCorrect == N >= 2 /\ Spec => []RingInv
<1> SUFFICES ASSUME N >= 2 PROVE Spec => []RingInv
  OBVIOUS
<1>1. Init => RingInv
  BY RingInit
<1>2. TypeOK /\ TypeOK' /\ RingInv /\ [Next]_vars => RingInv'
  BY RingStep
<1>3. Spec => []TypeOK
  BY TypeCorrect
<1> QED
  BY <1>1, <1>2, <1>3, PTL DEF Spec

\* The plain accesses to the data of a cell never overlap: between claim and
\* publication a producer shares its cell with no other producer and not with
\* the consumer.
THEOREM NoDataRaceCorrect == N >= 2 /\ Spec => []NoDataRace
<1> SUFFICES ASSUME N >= 2 PROVE Spec => []NoDataRace
  OBVIOUS
<1>1. TypeOK /\ RingInv => NoDataRace
  <2> SUFFICES ASSUME TypeOK, RingInv, NEW p \in Producer, Holds(p)
               PROVE  /\ \A q \in Producer \ {p} : Holds(q) => Index(pos[p]) # Index(pos[q])
                      /\ ConsumerHolds => Index(pos[p]) # Index(cpos)
    BY DEF NoDataRace
  <2> USE CapacityAssumption
  <2>1. Low \in Nat
    BY LowNat
  <2>2. \A q \in Producer : Holds(q) => pos[q] \in Low..(Low + N - 1)
    <3> SUFFICES ASSUME NEW q \in Producer, Holds(q) PROVE pos[q] \in Low..(Low + N - 1)
      OBVIOUS
    <3>1. /\ Low <= dequeue_pos /\ enqueue_pos <= Low + N
          /\ dequeue_pos <= pos[q] /\ pos[q] < enqueue_pos
          /\ pos[q] \in Nat /\ dequeue_pos \in Nat /\ enqueue_pos \in Nat
      BY DEF RingInv, CounterInv, ClaimInv, FullRingBlocks, TypeOK, Low, ConsumerHolds
    <3> QED
      BY <2>1, <3>1
  <2>3. ASSUME NEW q \in Producer \ {p}, Holds(q)
        PROVE  Index(pos[p]) # Index(pos[q])
    <3>1. pos[p] # pos[q]
      BY <2>3 DEF RingInv, ClaimInv
    <3> QED
      BY <2>1, <2>2, <2>3, <3>1, IndexInWindow
  <2>4. ASSUME ConsumerHolds
        PROVE  Index(pos[p]) # Index(cpos)
    <3>1. cpos = Low /\ cpos # pos[p]
      BY <2>4 DEF RingInv, CounterInv, ClaimInv, TypeOK, Low
    <3>2. cpos \in Low..(Low + N - 1)
      BY <2>1, <3>1
    <3> QED
      BY <2>1, <2>2, <3>1, <3>2, IndexInWindow
  <2> QED
    BY <2>3, <2>4
<1>2. Spec => []RingInv
  BY RingCorrect
<1>3. Spec => []TypeOK
  BY TypeCorrect
<1> QED
  BY <1>1, <1>2, <1>3, PTL

-----------------------------------------------------------------------------
(* Refinement of the mailbox *)

\* The ring is a FIFO mailbox: what the consumer receives is what the producers
\* pushed, each message once, in the order of their successful
\* compare-exchanges on enqueue_pos_.
THEOREM RingRefinesMailbox == N >= 2 /\ Spec => MailboxSpec
<1> SUFFICES ASSUME N >= 2 PROVE Spec => MailboxSpec
  OBVIOUS
<1>1. Init => Mbox!Init
  BY DEF Init, Mbox!Init
<1>2. TypeOK /\ RingInv /\ [Next]_vars => [Mbox!Next]_(Mbox!mboxVars)
  <2> SUFFICES ASSUME TypeOK, RingInv, [Next]_vars
               PROVE  [Mbox!Next]_(Mbox!mboxVars)
    OBVIOUS
  <2>1. ASSUME NEW p \in Producer, PushClaim(p)
        PROVE  Mbox!Next
    <3>1. Payload(p) \in Message
      BY <2>1, MaxPushAssumption DEF PushClaim, TypeOK, Payload, Message
    <3> QED
      BY <2>1, <3>1 DEF PushClaim, Mbox!Next, Mbox!Push
  <2>2. CASE PopRead
    <3>1. Published(cpos) /\ Len(rcvd) = cpos /\ cpos = Low /\ Len(sent) = enqueue_pos
      BY <2>2 DEF PopRead, RingInv, CellInv, CounterInv, Low, ConsumerHolds
    <3>2. cpos < enqueue_pos /\ data[Index(cpos)] = sent[cpos + 1]
      <4>1. cpos < enqueue_pos /\ cpos \in Low..(enqueue_pos - 1)
        BY <3>1 DEF Published, TypeOK
      <4> QED
        BY <3>1, <4>1 DEF RingInv, CellInv
    <3> QED
      BY <2>2, <3>1, <3>2 DEF PopRead, Mbox!Next, Mbox!Pop
  <2>3. ASSUME NEW p \in Producer, Push(p), ~ PushClaim(p)
        PROVE  UNCHANGED <<sent, rcvd>>
    BY <2>3 DEF Push, PushLoad, PushSeq, PushCasFail, PushWrite, PushPublish
  <2>4. CASE Pop /\ ~ PopRead
    BY <2>4 DEF Pop, PopLoad, PopSeq, PopClaim, PopCasFail, PopRelease, Mbox!mboxVars
  <2>5. CASE UNCHANGED vars
    BY <2>5 DEF vars, Mbox!mboxVars
  <2> QED
    BY <2>1, <2>2, <2>3, <2>4, <2>5 DEF Next, Mbox!mboxVars
<1>3. Spec => []TypeOK
  BY TypeCorrect
<1>4. Spec => []RingInv
  BY RingCorrect
<1> QED
  BY <1>1, <1>2, <1>3, <1>4, PTL DEF Spec, MailboxSpec, Mbox!Spec

-----------------------------------------------------------------------------
(* The parking around the ring (ParkHandshake): no wakeup of the consumer  *)
(* is lost, for any number of producers, pushes and cells, because ParkInv *)
(* is inductive and implies NoLostWakeup.                                  *)

PPC == {"push", "full", "space", "fence", "load", "lock", "notify"}

\* The part of the types that the argument uses.
Shape ==
    /\ items \in Nat
    /\ pbuf \in [Producer -> BOOLEAN]
    /\ ppc \in [Producer -> PPC]
    /\ popPc \in {"pop", "fence", "recheck", "park", "wait", "space", "held", "unlock"}

HandshakeInv == Shape /\ ParkInv

-----------------------------------------------------------------------------
\* Nobody is parked and nothing is buffered at the start.
LEMMA InitHandshake == ParkInit => HandshakeInv
BY DEF ParkInit, HandshakeInv, Shape, ParkInv, PPC

\* A step of push keeps the invariant.
LEMMA PushHandshake ==
    ASSUME HandshakeInv, NEW p \in Producer, PushStep(p)
    PROVE  HandshakeInv'
<1> USE DEF HandshakeInv, Shape, ParkInv, PPC, consumerVars, ringVars, Goto
<1>1. CASE DrainProducer(p)
  BY <1>1 DEF DrainProducer
<1>2. CASE PushNow(p)
  BY <1>2 DEF PushNow, Publish
<1>3. CASE PushFull(p)
  BY <1>3 DEF PushFull
<1>4. CASE PushRetry(p)
  BY <1>4 DEF PushRetry, Publish
<1>5. CASE PushWait(p)
  BY <1>5 DEF PushWait
<1>6. CASE PushWake(p)
  BY <1>6 DEF PushWake
<1>7. CASE PushFence(p)
  BY <1>7 DEF PushFence
<1>8. CASE PushLoadParked(p)
  BY <1>8 DEF PushLoadParked
<1>9. CASE PushLock(p)
  BY <1>9 DEF PushLock
<1>10. CASE PushNotify(p)
  BY <1>10 DEF PushNotify
<1> QED BY <1>1, <1>2, <1>3, <1>4, <1>5, <1>6, <1>7, <1>8, <1>9, <1>10 DEF PushStep

\* A step of pop keeps the invariant.
LEMMA PopHandshake ==
    ASSUME HandshakeInv, PopStep \/ PopTimeout \/ DrainConsumer
    PROVE  HandshakeInv'
<1> USE DEF HandshakeInv, Shape, ParkInv, PPC, producerVars, ringVars
<1>1. CASE PopNow
  BY <1>1 DEF PopNow, TakeThen
<1>2. CASE PopEmpty
  BY <1>2 DEF PopEmpty
<1>3. CASE PopFence
  BY <1>3 DEF PopFence
<1>4. CASE PopRecheck
  BY <1>4 DEF PopRecheck, TakeThen
<1>5. CASE PopRecheckEmpty
  BY <1>5 DEF PopRecheckEmpty
<1>6. CASE PopWait
  BY <1>6 DEF PopWait
<1>7. CASE PopWake \/ PopTimeout
  BY <1>7 DEF PopWake, PopTimeout, PopUnpark
<1>8. CASE NotifySpace
  BY <1>8 DEF NotifySpace
<1>9. CASE DrainConsumer
  <2>1. popPc \notin {"recheck", "park", "wait"} BY <1>9 DEF DrainConsumer
  <2>2. popPc = "fence" => cbuf' = <<>> /\ parked_' = TRUE
    <3>1. ASSUME popPc = "fence" PROVE cbuf = <<"arm">>
      BY <1>9, <3>1 DEF DrainConsumer
    <3>2. Head(<<"arm">>) = "arm" /\ Tail(<<"arm">>) = <<>> OBVIOUS
    <3>3. cbuf' = Tail(cbuf) /\ (Head(cbuf) = "arm" => parked_' = TRUE)
      BY <1>9 DEF DrainConsumer
    <3> HIDE DEF HandshakeInv
    <3> QED BY <3>1, <3>2, <3>3
  <2> QED BY <1>9, <2>1, <2>2 DEF DrainConsumer
<1>10. CASE PopUnlock
  BY <1>10 DEF PopUnlock
<1> QED BY <1>1, <1>2, <1>3, <1>4, <1>5, <1>6, <1>7, <1>8, <1>9, <1>10 DEF PopStep

-----------------------------------------------------------------------------
\* ParkInv holds for every number of producers and cells.
THEOREM ParkCorrect == ParkSpec => []ParkInv
<1>1. HandshakeInv /\ [ParkNext]_parkVars => HandshakeInv'
  <2> SUFFICES ASSUME HandshakeInv, [ParkNext]_parkVars PROVE HandshakeInv' OBVIOUS
  <2>1. CASE ParkNext BY <2>1, PushHandshake, PopHandshake DEF ParkNext
  <2>2. CASE UNCHANGED parkVars BY <2>2 DEF parkVars, HandshakeInv, Shape, ParkInv
  <2> QED BY <2>1, <2>2
<1> QED BY InitHandshake, <1>1, PTL DEF ParkSpec, HandshakeInv

\* While the consumer sleeps on a non-empty mailbox a producer is on its way to
\* wake it (push, pop and pop_batch, without their 1 ms safety net).
THEOREM NoLostWakeupCorrect == ParkSpec => []NoLostWakeup
<1>1. ParkInv => NoLostWakeup BY DEF ParkInv, NoLostWakeup
<1> QED BY ParkCorrect, <1>1, PTL

=============================================================================

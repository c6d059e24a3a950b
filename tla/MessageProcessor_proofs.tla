----------------------- MODULE MessageProcessor_proofs -----------------------
(***************************************************************************)
(* The packet arbitration for every number of packets, recoveries and      *)
(* waits, with and without a RecoveryProcessor.  TypeOK /\ ProcessorInv is *)
(* inductive; the facts about a pass over the buffer come first.           *)
(*                                                                         *)
(* The second half is about the book behind it, for any packets that touch *)
(* the book and any snapshots: BookInv is inductive together with that     *)
(* invariant.                                                              *)
(***************************************************************************)
EXTENDS BookRecovery, WellFoundedInduction, SequenceTheorems, TLAPS

IInv == TypeOK /\ ProcessorInv

\* What is assumed of the buffer that processq walks.
Buffer(Q, C) == Q \subseteq Packet /\ C \subseteq Q

-----------------------------------------------------------------------------
(* Least and Greatest *)

\* A set of naturals has a least element: the order in which std::map iterates.
LEMMA NatMin ==
    ASSUME NEW S, S \subseteq Nat, S # {}
    PROVE  \E x \in S : \A y \in S : x <= y
<1> DEFINE R == OpToRel(<, Nat)
<1>1. IsWellFoundedOn(R, Nat)
  BY NatLessThanWellFounded
<1>2. PICK x \in S : \A y \in S : ~ (<<y, x>> \in R)
  <2> HIDE DEF R
  <2> QED BY <1>1, WFMin
<1>3. ASSUME NEW y \in S PROVE x <= y
  <2>1. ~ (<<y, x>> \in R) BY <1>2
  <2>2. ~ (y < x) BY <2>1 DEF R, OpToRel
  <2> QED BY <2>2
<1> QED BY <1>3

\* Least returns the smallest packet of a non-empty buffer.
LEMMA LeastFact ==
    ASSUME NEW S, S \subseteq Packet, S # {}
    PROVE  Least(S) \in S /\ \A y \in S : Least(S) <= y
<1>1. S \subseteq Nat BY DEF Packet
<1>2. \E x \in S : \A y \in S : x <= y BY <1>1, NatMin
<1> QED BY <1>2 DEF Least

\* Greatest returns the largest packet of a non-empty set.
LEMMA GreatestFact ==
    ASSUME NEW S, S \subseteq Packet, S # {}
    PROVE  Greatest(S) \in S /\ \A y \in S : y <= Greatest(S)
<1> DEFINE T == {MaxSeq - x : x \in S}
<1>1. T \subseteq Nat BY BoundAssumption DEF Packet
<1>2. T # {} OBVIOUS
<1>3. PICK t \in T : \A u \in T : t <= u
  <2> HIDE DEF T
  <2> QED BY <1>1, <1>2, NatMin
<1>4. PICK x \in S : t = MaxSeq - x OBVIOUS
<1>5. ASSUME NEW y \in S PROVE y <= x
  <2>1. t <= MaxSeq - y BY <1>3
  <2> QED BY <2>1, <1>4, BoundAssumption DEF Packet
<1>6. \E g \in S : \A y \in S : y <= g BY <1>5
<1> QED BY <1>6 DEF Greatest

-----------------------------------------------------------------------------
(* One pass over the buffer *)

\* The decoded run starts at NextUp, has no hole and ends where the pass gets to.
LEMMA PassFact ==
    ASSUME qseq_num \in Nat, NEW Q, NEW C, Buffer(Q, C)
    PROVE  /\ Decodable(Q, C) \subseteq Q
           /\ Reached(Q, C) \in Nat
           /\ qseq_num <= Reached(Q, C)
           /\ Reached(Q, C) = qseq_num \/ Reached(Q, C) \in Q
           /\ Decodable(Q, C) = {} => Reached(Q, C) = qseq_num
           /\ \A sn \in Decodable(Q, C) : qseq_num < sn /\ sn <= Reached(Q, C)
           /\ Decodable(Q, C) # {} =>
                /\ NextUp(Q) \in Packet
                /\ NextUp(Q) <= Reached(Q, C)
                /\ qseq_num # 0 => NextUp(Q) = qseq_num + 1
                /\ \A sn \in NextUp(Q)..Reached(Q, C) : sn \in Decodable(Q, C)
<1> DEFINE D == Decodable(Q, C)
<1>1. /\ D \subseteq Q
      /\ D \subseteq Packet
      /\ \A sn \in D : /\ sn \in Fresh(Q) /\ sn > qseq_num
                       /\ \A j \in NextUp(Q)..sn : j \in Q /\ j \notin C
  BY DEF Decodable, Run, Fresh, Buffer
<1>2. CASE D = {}
  BY <1>2 DEF Reached
<1>3. CASE D # {}
  <2> DEFINE r == Greatest(D)
  <2>1. Reached(Q, C) = r BY <1>3 DEF Reached
  <2>2. r \in D /\ \A y \in D : y <= r
    <3> HIDE DEF D
    <3> QED BY <1>1, <1>3, GreatestFact
  <2>3. r \in Packet /\ r > qseq_num /\ r \in Fresh(Q) BY <1>1, <2>2
  <2>4. /\ NextUp(Q) \in Nat /\ NextUp(Q) > qseq_num
        /\ NextUp(Q) <= r
        /\ qseq_num # 0 => NextUp(Q) = qseq_num + 1
    <3>1. CASE qseq_num = 0
      <4>1. Fresh(Q) \subseteq Packet /\ Fresh(Q) # {} BY <2>3 DEF Fresh, Buffer
      <4>2. Least(Fresh(Q)) \in Fresh(Q) /\ \A y \in Fresh(Q) : Least(Fresh(Q)) <= y
        BY <4>1, LeastFact
      <4>3. NextUp(Q) = Least(Fresh(Q)) BY <3>1 DEF NextUp
      <4>4. Least(Fresh(Q)) \in Packet /\ Least(Fresh(Q)) > qseq_num
        BY <4>1, <4>2 DEF Fresh
      <4> QED BY <3>1, <4>2, <4>3, <4>4, <2>3 DEF Packet
    <3>2. CASE qseq_num # 0
      BY <3>2, <2>3 DEF NextUp, Packet
    <3> QED BY <3>1, <3>2
  <2>5. NextUp(Q) \in Packet
    BY <2>3, <2>4, BoundAssumption DEF Packet
  <2>6. ASSUME NEW sn \in NextUp(Q)..r PROVE sn \in D
    <3>1. /\ sn \in Packet /\ sn > qseq_num
      BY <2>3, <2>4, <2>5, BoundAssumption DEF Packet
    <3>2. \A j \in NextUp(Q)..sn : j \in NextUp(Q)..r
      BY <2>3, <2>4, <2>5 DEF Packet
    <3>3. \A j \in NextUp(Q)..sn : j \in Q /\ j \notin C
      BY <1>1, <2>2, <3>2
    <3>4. sn \in Q
      BY <1>1, <2>2
    <3> QED BY <3>1, <3>3, <3>4 DEF Decodable, Run, Fresh
  <2>7. r \in Q /\ r \in Nat BY <1>1, <2>2, <2>3 DEF Packet
  <2> QED
    BY <1>1, <1>3, <2>1, <2>2, <2>3, <2>4, <2>5, <2>6, <2>7 DEF Packet
<1> QED BY <1>2, <1>3

\* The part of the invariant a pass has to keep, whatever it does afterwards.
Pass(Q, C) ==
    /\ Decode(Q, C)
    /\ qseq_num' \in Nat
    /\ Reached(Q, C) <= qseq_num'
    /\ dorecovery => qseq_num' = Reached(Q, C)
    /\ qseq_num' <= published
    /\ UNCHANGED <<published, covered, dorecovery>>

\* A pass keeps the histories typed and loses no packet on the way.
LEMMA PassStep ==
    ASSUME IInv, NEW Q, NEW C, Buffer(Q, C), \A sn \in Q : sn <= published, Pass(Q, C)
    PROVE  /\ msg_q' \subseteq Packet /\ corrupt' \subseteq msg_q'
           /\ decoded' \subseteq Packet
           /\ base' \in 0..MaxSeq
           /\ covered' <= qseq_num'
           /\ \A sn \in decoded' : sn <= qseq_num'
           /\ \A sn \in msg_q' : sn <= published'
           /\ base' > 0 => qseq_num' > 0
           /\ NoSilentLoss'
           /\ \A sn \in decoded' \ decoded : sn > qseq_num /\ \A d \in decoded : d < sn
<1> DEFINE D == Decodable(Q, C)
           r == Reached(Q, C)
<1>1. /\ qseq_num \in Nat /\ decoded \subseteq Packet /\ base \in 0..MaxSeq
      /\ covered \in 0..MaxSeq /\ published \in 0..MaxSeq /\ covered <= qseq_num
      /\ \A sn \in decoded : sn <= qseq_num
      /\ base > 0 => qseq_num > 0
      /\ NoSilentLoss
  BY DEF IInv, TypeOK, ProcessorInv, PositionInv
<1>2. /\ D \subseteq Q /\ r \in Nat /\ qseq_num <= r
      /\ D = {} => r = qseq_num
      /\ \A sn \in D : qseq_num < sn /\ sn <= r
      /\ D # {} => /\ NextUp(Q) \in Packet /\ NextUp(Q) <= r
                   /\ qseq_num # 0 => NextUp(Q) = qseq_num + 1
                   /\ \A sn \in NextUp(Q)..r : sn \in D
  BY <1>1, PassFact
<1>3. /\ decoded' = decoded \cup D
      /\ base' = IF qseq_num = 0 /\ D # {} THEN NextUp(Q) - 1 ELSE base
      /\ msg_q' = Left(Q, C) /\ corrupt' = C \cap Left(Q, C)
      /\ qseq_num' \in Nat /\ r <= qseq_num' /\ (dorecovery => qseq_num' = r)
      /\ covered' = covered /\ published' = published /\ dorecovery' = dorecovery
  BY DEF Pass, Decode
<1> HIDE DEF D, r
<1>4. msg_q' \subseteq Q /\ corrupt' \subseteq msg_q'
  BY <1>3 DEF Left
<1>5. decoded' \subseteq Packet
  BY <1>1, <1>2, <1>3 DEF Buffer
<1>6. base' \in 0..MaxSeq
  BY <1>1, <1>2, <1>3, BoundAssumption DEF Packet
<1>7. \A sn \in decoded' : sn <= qseq_num'
  BY <1>1, <1>2, <1>3, <1>5 DEF Packet
<1>8. base' > 0 => qseq_num' > 0
  BY <1>1, <1>2, <1>3 DEF Packet
<1>9. NoSilentLoss'
  <2> SUFFICES ASSUME dorecovery, NEW sn \in Packet, base' < sn, sn <= r
               PROVE  sn \in decoded' \/ sn <= covered
    BY <1>3 DEF NoSilentLoss
  <2>1. CASE D = {}
    BY <2>1, <1>1, <1>2, <1>3 DEF NoSilentLoss
  <2>2. CASE D # {} /\ qseq_num = 0
    <3>1. sn \in NextUp(Q)..r BY <2>2, <1>2, <1>3 DEF Packet
    <3> QED BY <3>1, <2>2, <1>2, <1>3
  <2>3. CASE D # {} /\ qseq_num # 0
    <3>1. CASE sn <= qseq_num
      BY <3>1, <2>3, <1>1, <1>3 DEF NoSilentLoss
    <3>2. CASE ~ (sn <= qseq_num)
      <4>1. sn \in NextUp(Q)..r BY <3>2, <2>3, <1>1, <1>2 DEF Packet
      <4> QED BY <4>1, <2>3, <1>2, <1>3
    <3> QED BY <3>1, <3>2
  <2> QED BY <2>1, <2>2, <2>3
<1>10. \A sn \in decoded' \ decoded : sn > qseq_num /\ \A d \in decoded : d < sn
  <2> SUFFICES ASSUME NEW sn \in D PROVE sn > qseq_num /\ \A d \in decoded : d < sn
    BY <1>3
  <2>1. sn \in Packet /\ qseq_num < sn BY <1>2 DEF Buffer
  <2> QED BY <2>1, <1>1 DEF Packet
<1>11. covered' <= qseq_num' BY <1>1, <1>2, <1>3
<1>12. \A sn \in msg_q' : sn <= published' BY <1>3, <1>4
<1> QED BY <1>4, <1>5, <1>6, <1>7, <1>8, <1>9, <1>10, <1>11, <1>12 DEF Buffer
-----------------------------------------------------------------------------
(* The invariant is inductive *)

\* Nothing has been asked for before Start.
LEMMA InitIInv == Init => IInv
<1> SUFFICES ASSUME Init PROVE TypeOK /\ ProcessorInv
  BY DEF IInv
<1>1. TypeOK
  <2>1. endData \in Seq(0..MaxSeq) BY EmptySeq DEF Init
  <2>2. /\ waitcnt \in 0..MaxWait /\ waitcnt > 0
        /\ published \in 0..MaxSeq /\ covered \in 0..MaxSeq /\ base \in 0..MaxSeq
    BY BoundAssumption, MaxWaitAssumption DEF Init
  <2> QED BY <2>1, <2>2 DEF Init, TypeOK
<1>2. FlagInv
  <2>1. Len(<<>>) = 0 OBVIOUS
  <2> QED BY <2>1 DEF Init, FlagInv
<1>3. PositionInv
  BY DEF Init, PositionInv
<1>4. NoSilentLoss
  BY DEF Init, NoSilentLoss, Packet
<1>5. ~ Recovering /\ qseq_num = 0 /\ base = 0
  BY DEF Init, Recovering
<1>6. WaitInv
  BY MaxWaitAssumption DEF Init, WaitInv
<1>7. BufferInv
  BY DEF Init, BufferInv
<1> QED BY <1>1, <1>2, <1>3, <1>4, <1>5, <1>6, <1>7 DEF ProcessorInv

\* A pass that begins with waitcnt used up ends at the packet behind the gap,
\* or finds it undecodable.
LEMMA EndFact ==
    ASSUME qseq_num \in Nat, waitcnt \in 0..MaxWait, WaitInv,
           NEW Q, NEW C, Buffer(Q, C), msg_q \subseteq Q, WaitAt(Q, C) = 0
    PROVE  /\ Decodable(Q, C) = {} /\ waitcnt = 0
           /\ Reached(Q, C) > 0
           /\ Reached(Q, C) + 1 \in Left(Q, C)
<1>1. Decodable(Q, C) = {} /\ waitcnt = 0
  BY MaxWaitAssumption DEF WaitAt
<1>2. Reached(Q, C) = qseq_num BY <1>1 DEF Reached
<1>3. qseq_num > 0 /\ qseq_num + 1 \in Q BY <1>1 DEF WaitInv
<1> QED BY <1>1, <1>2, <1>3 DEF Left

\* A gap is only met after a packet was decoded and with waitcnt armed.
LEMMA GapFact ==
    ASSUME qseq_num \in Nat, waitcnt \in 0..MaxWait, WaitInv,
           NEW Q, NEW C, Buffer(Q, C), msg_q \subseteq Q,
           Left(Q, C) # {}, Decodable(Q, C) = Run(Q)
    PROVE  WaitAt(Q, C) # 0 /\ Reached(Q, C) > 0
<1>1. ASSUME WaitAt(Q, C) = 0 PROVE FALSE
  <2>1. Decodable(Q, C) = {} /\ waitcnt = 0 BY <1>1, EndFact
  <2>2. qseq_num > 0 /\ qseq_num + 1 \in Q BY <2>1 DEF WaitInv
  <2>3. NextUp(Q) = qseq_num + 1 BY <2>2 DEF NextUp
  <2>4. \A j \in (qseq_num + 1)..(qseq_num + 1) : j = qseq_num + 1 OBVIOUS
  <2>5. qseq_num + 1 \in Run(Q) BY <2>2, <2>3, <2>4 DEF Run, Fresh
  <2> QED BY <2>1, <2>5
<1>2. ASSUME Reached(Q, C) = 0 PROVE FALSE
  <2>1. qseq_num = 0 /\ Decodable(Q, C) = {}
    <3>1. /\ qseq_num <= Reached(Q, C)
          /\ \A sn \in Decodable(Q, C) : qseq_num < sn /\ sn <= Reached(Q, C)
          /\ Decodable(Q, C) \subseteq Q
      BY PassFact
    <3>2. \A sn \in Decodable(Q, C) : sn \in Packet BY <3>1 DEF Buffer
    <3> QED BY <1>2, <3>1, <3>2 DEF Packet
  <2>2. Fresh(Q) # {} /\ Fresh(Q) \subseteq Packet
    BY <1>2, <2>1 DEF Left, Fresh, Buffer
  <2>3. Least(Fresh(Q)) \in Fresh(Q) /\ NextUp(Q) = Least(Fresh(Q))
    BY <2>1, <2>2, LeastFact DEF NextUp
  <2>4. \A j \in Least(Fresh(Q))..Least(Fresh(Q)) : j = Least(Fresh(Q))
    BY <2>2, <2>3 DEF Packet
  <2>5. Least(Fresh(Q)) \in Run(Q)
    BY <2>3, <2>4 DEF Run, Fresh
  <2> QED BY <2>1, <2>5
<1>3. Reached(Q, C) \in Nat BY PassFact
<1> QED BY <1>1, <1>2, <1>3

\* A pass that ends where it got to leaves only later packets in the buffer.
LEMMA AtReached ==
    ASSUME NEW Q, NEW C, Decode(Q, C), qseq_num' = Reached(Q, C)
    PROVE  BufferInv'
BY DEF Decode, Left, BufferInv

\* processq keeps the invariant, whichever way the pass ends.
LEMMA ProcessqStep ==
    ASSUME IInv, NEW Q, NEW C, Buffer(Q, C), \A sn \in Q : sn <= published,
           \A sn \in Q : qseq_num < sn \/ sn <= covered,
           msg_q \subseteq Q, running = "started", processq(Q, C),
           UNCHANGED <<dorecovery, in_instr_recovery, stopq, reqInstr, endData, endInstr,
                       published, covered>>
    PROVE  IInv' /\ \A sn \in decoded' \ decoded :
                        sn > qseq_num /\ ~ Recovering /\ \A d \in decoded : d < sn
<1> DEFINE w == WaitAt(Q, C)
           r == Reached(Q, C)
<1>1. /\ qseq_num \in Nat /\ waitcnt \in 0..MaxWait /\ (dorecovery => waitcnt > 0)
      /\ dorecovery \in BOOLEAN /\ (dorecovery => HasRecovery)
      /\ published \in 0..MaxSeq /\ covered \in 0..MaxSeq /\ qseq_num <= published
      /\ numdrecoveries \in Nat /\ reqData \in Nat /\ reqInstr \in Nat /\ endInstr \in Nat
      /\ endData \in Seq(0..MaxSeq) /\ stopq \in BOOLEAN
      /\ in_data_recovery \in BOOLEAN /\ in_instr_recovery \in BOOLEAN
      /\ FlagInv /\ PositionInv /\ WaitInv /\ msg_q \subseteq Packet
  BY DEF IInv, TypeOK, ProcessorInv, PositionInv
<1>2. r \in Nat /\ qseq_num <= r /\ r <= published
  <2>1. r \in Nat /\ qseq_num <= r /\ (r = qseq_num \/ r \in Q) BY <1>1, PassFact
  <2> QED BY <2>1, <1>1
<1>3. w \in 0..MaxWait /\ (dorecovery => w > 0)
  BY <1>1, MaxWaitAssumption DEF WaitAt
<1>4. CASE Recovering
  <2>1. /\ msg_q' = Q /\ corrupt' = C
        /\ UNCHANGED <<qseq_num, decoded, base, waitcnt, in_data_recovery, numdrecoveries, reqData, running>>
    BY <1>4 DEF processq
  <2> QED BY <2>1 DEF IInv, TypeOK, ProcessorInv, FlagInv, PositionInv, WaitInv,
                     BufferInv, NoSilentLoss, Recovering, Buffer
<1>5. CASE ~ Recovering
  <2> DEFINE Kept == UNCHANGED <<in_data_recovery, numdrecoveries, reqData>>
             Asked == HasRecovery /\ do_data_recovery
  <2>1. /\ Pass(Q, C)
        /\ running' \in {"started", "crashed"}
        /\ waitcnt' \in 0..MaxWait /\ (dorecovery' => waitcnt' > 0)
        /\ Kept \/ Asked
        /\ WaitInv'
        /\ BufferInv'
    <3>1. CASE DrainAll(Q, C)
      <4>1. waitcnt' = w /\ Decode(Q, C) /\ running' = "started" /\ Kept
            /\ Left(Q, C) = {} /\ qseq_num' = r
        BY <3>1 DEF DrainAll
      <4>2. w # 0
        BY <4>1, <1>1, EndFact
      <4>3. BufferInv' BY <4>1, AtReached
      <4> QED BY <4>1, <4>2, <4>3, <1>1, <1>2, <1>3 DEF Pass, WaitInv
    <3>2. CASE WaitForGap(Q, C)
      <4>1. waitcnt' = w - 1 /\ w - 1 > 0 /\ Decode(Q, C) /\ running' = "started" /\ Kept
            /\ qseq_num' = r
        BY <3>2 DEF WaitForGap
      <4>2. BufferInv' BY <4>1, AtReached
      <4> QED BY <4>1, <4>2, <1>1, <1>2, <1>3, MaxWaitAssumption DEF Pass, WaitInv
    <3>3. CASE RecoverGap(Q, C)
      <4>1. Asked BY <3>3, <1>1 DEF RecoverGap
      <4>2. waitcnt' = MaxWait BY <4>1 DEF do_data_recovery
      <4>3. Pass(Q, C) BY <3>3, <1>2 DEF RecoverGap, Pass
      <4>4. running' = "started" BY <3>3 DEF RecoverGap
      <4>5. WaitInv' BY <4>2, MaxWaitAssumption DEF WaitInv
      <4>6. BufferInv' BY <3>3, AtReached DEF RecoverGap
      <4> HIDE DEF Asked
      <4> QED BY <4>1, <4>2, <4>3, <4>4, <4>5, <4>6, MaxWaitAssumption
    <3>4. CASE SkipGap(Q, C)
      <4>1. /\ waitcnt' = w - 1 /\ ~ dorecovery /\ Decode(Q, C) /\ running' = "started" /\ Kept
            /\ Left(Q, C) # {} /\ Decodable(Q, C) = Run(Q)
            /\ qseq_num' = Least(Left(Q, C)) - 1 /\ w - 1 <= 0
        BY <3>4 DEF SkipGap
      <4>2. /\ Least(Left(Q, C)) \in Left(Q, C)
            /\ Least(Left(Q, C)) \in Packet
            /\ Least(Left(Q, C)) > r
        <5>1. Left(Q, C) \subseteq Packet BY DEF Left, Buffer
        <5>2. Least(Left(Q, C)) \in Left(Q, C) BY <4>1, <5>1, LeastFact
        <5> QED BY <5>1, <5>2 DEF Left
      <4>3. qseq_num' \in Nat /\ r <= qseq_num' /\ qseq_num' <= published
        <5>1. Least(Left(Q, C)) <= published BY <4>2 DEF Left
        <5> QED BY <5>1, <4>1, <4>2, <1>1, <1>2 DEF Packet
      <4>4. w # 0 /\ r > 0
        BY <4>1, <1>1, GapFact
      <4>5. waitcnt' \in 0..MaxWait BY <4>1, <4>4, <1>3, MaxWaitAssumption
      <4>6. qseq_num' > 0 /\ qseq_num' + 1 \in msg_q' /\ (Kept => UNCHANGED in_data_recovery)
        <5>1. msg_q' = Left(Q, C) BY <4>1 DEF Decode
        <5> QED BY <5>1, <4>1, <4>2, <4>3, <4>4, <1>2 DEF Packet
      <4>7. ~ in_data_recovery' BY <4>1, <1>5 DEF Recovering
      <4>8. BufferInv'
        <5>1. msg_q' = Left(Q, C) BY <4>1 DEF Decode
        <5>2. Left(Q, C) \subseteq Packet BY DEF Left, Buffer
        <5>3. \A sn \in Left(Q, C) : Least(Left(Q, C)) <= sn BY <4>1, <5>2, LeastFact
        <5> QED BY <5>1, <5>2, <5>3, <4>1, <4>2 DEF BufferInv, Packet
      <4> QED BY <4>1, <4>3, <4>5, <4>6, <4>7, <4>8 DEF Pass, WaitInv
    <3>5. CASE DecodeFailure(Q, C)
      <4>1. Pass(Q, C) /\ BufferInv' BY <3>5, <1>2, AtReached DEF DecodeFailure, Pass
      <4>2. CASE HasRecovery
        <5>1. Asked /\ running' = "started" BY <3>5, <4>2 DEF DecodeFailure
        <5>2. waitcnt' = MaxWait BY <5>1 DEF do_data_recovery
        <5>3. WaitInv' BY <5>2, MaxWaitAssumption DEF WaitInv
        <5> HIDE DEF Asked
        <5> QED BY <4>1, <5>1, <5>2, <5>3, MaxWaitAssumption
      <4>3. CASE ~ HasRecovery
        <5>1. waitcnt' = w /\ running' = "crashed" /\ Kept /\ qseq_num' = r /\ Decode(Q, C)
          BY <3>5, <4>3 DEF DecodeFailure
        <5>2. w = 0 => r > 0 /\ r + 1 \in Left(Q, C)
          BY <1>1, EndFact
        <5>3. ~ in_data_recovery' BY <5>1, <1>5 DEF Recovering
        <5>4. WaitInv' BY <5>1, <5>2, <5>3 DEF WaitInv, Decode
        <5> QED BY <4>1, <5>1, <5>4, <1>3
      <4> QED BY <4>2, <4>3
    <3> QED BY <3>1, <3>2, <3>3, <3>4, <3>5, <1>5 DEF processq
  <2>2. /\ msg_q' \subseteq Packet /\ corrupt' \subseteq msg_q'
        /\ decoded' \subseteq Packet
        /\ base' \in 0..MaxSeq
        /\ covered' <= qseq_num'
        /\ \A sn \in decoded' : sn <= qseq_num'
        /\ \A sn \in msg_q' : sn <= published'
        /\ base' > 0 => qseq_num' > 0
        /\ NoSilentLoss'
        /\ \A sn \in decoded' \ decoded : sn > qseq_num /\ \A d \in decoded : d < sn
    BY <2>1, PassStep
  <2>3. FlagInv' /\ in_data_recovery' \in BOOLEAN /\ numdrecoveries' \in Nat /\ reqData' \in Nat
    <3>1. CASE Kept
      BY <3>1, <1>1 DEF FlagInv
    <3>2. CASE Asked
      <4>1. reqData = 0 /\ Len(endData) = 0
        <5>1. Len(endData) \in Nat BY <1>1, LenProperties
        <5> QED BY <5>1, <1>1, <1>5 DEF FlagInv, Recovering
      <4> QED BY <3>2, <4>1, <1>1 DEF FlagInv, do_data_recovery
    <3> QED BY <2>1, <3>1, <3>2
  <2>4. TypeOK'
    BY <2>1, <2>2, <2>3, <1>1 DEF TypeOK, Pass
  <2>5. PositionInv'
    BY <2>1, <2>2, <1>1 DEF PositionInv, Pass
  <2> QED BY <2>1, <2>2, <2>3, <2>4, <2>5, <1>5 DEF IInv, ProcessorInv
<1> QED BY <1>4, <1>5

\* Every step keeps the invariant, and decodes only fresh packets, outside recoveries.
LEMMA NextIInv ==
    ASSUME IInv, Next
    PROVE  IInv' /\ \A sn \in decoded' \ decoded :
                        sn > qseq_num /\ ~ Recovering /\ \A d \in decoded : d < sn
<1> USE DEF IInv
<1>1. CASE Start
  <2>1. reqData = 0 /\ reqInstr = 0 /\ endInstr = 0 /\ Len(endData) = 0
    <3>1. Len(endData) \in Nat BY LenProperties DEF TypeOK
    <3> QED BY <3>1, <1>1 DEF Start, TypeOK, ProcessorInv, FlagInv, Recovering
  <2>2. FlagInv' BY <1>1, <2>1, FlagAssumption DEF Start, FlagInv
  <2>3. TypeOK' BY <1>1, FlagAssumption, MaxWaitAssumption DEF Start, TypeOK, histVars
  <2>4. PositionInv' BY <1>1 DEF Start, ProcessorInv, PositionInv, histVars
  <2>5. NoSilentLoss' /\ BufferInv' BY <1>1 DEF Start, ProcessorInv, NoSilentLoss, BufferInv, histVars
  <2>6. WaitInv' BY <1>1, MaxWaitAssumption DEF Start, TypeOK, ProcessorInv, WaitInv
  <2> QED BY <1>1, <2>2, <2>3, <2>4, <2>5, <2>6 DEF Start, ProcessorInv, histVars
<1>2. CASE Publish
  <2>1. published \in 0..MaxSeq /\ qseq_num \in Nat /\ msg_q \subseteq Packet
        /\ endData \in Seq(0..MaxSeq)
    BY DEF TypeOK
  <2>2. published' = published + 1 /\ published' \in 0..MaxSeq
    BY <1>2, <2>1, BoundAssumption DEF Publish
  <2>3. PositionInv'
    <3>1. /\ qseq_num <= published
          /\ \A sn \in msg_q : sn <= published
          /\ \A i \in 1..Len(endData) : endData[i] <= published /\ endData[i] \in 0..MaxSeq
      BY <2>1, ElementOfSeq DEF ProcessorInv, PositionInv
    <3>2. /\ qseq_num <= published'
          /\ \A sn \in msg_q : sn <= published'
          /\ \A i \in 1..Len(endData) : endData[i] <= published'
      BY <3>1, <2>1, <2>2 DEF Packet
    <3> QED BY <3>2, <1>2 DEF Publish, mpVars, mailVars, ProcessorInv, PositionInv
  <2>4. TypeOK' BY <1>2, <2>2 DEF Publish, mpVars, mailVars, TypeOK
  <2> QED BY <1>2, <2>3, <2>4 DEF Publish, mpVars, mailVars, ProcessorInv, FlagInv, WaitInv, BufferInv,
                                  NoSilentLoss, Recovering
<1>3. ASSUME NEW sn \in Packet, NEW ok \in BOOLEAN, ProcessQ(sn, ok)
      PROVE  IInv' /\ \A d \in decoded' \ decoded :
                          d > qseq_num /\ ~ Recovering /\ \A e \in decoded : e < d
  <2> DEFINE Q == msg_q \cup {sn}
             C == IF ok \/ sn \in msg_q THEN corrupt ELSE corrupt \cup {sn}
  <2>1. CASE sn <= qseq_num \/ stopq
    <3>1. UNCHANGED vars
      <4>1. ~ (sn > qseq_num /\ ~ stopq) BY <2>1 DEF TypeOK, Packet
      <4>2. UNCHANGED <<mpVars, reqData, decoded, base>> BY <1>3, <4>1 DEF ProcessQ
      <4>3. UNCHANGED <<reqInstr, endData, endInstr, published, covered>> BY <1>3 DEF ProcessQ
      <4> QED BY <4>2, <4>3 DEF vars, mailVars, histVars
    <3> QED BY <3>1 DEF vars, mpVars, mailVars, histVars, TypeOK, ProcessorInv, FlagInv,
                        PositionInv, WaitInv, BufferInv, NoSilentLoss, Recovering
  <2>2. CASE sn > qseq_num /\ ~ stopq
    <3>1. processq(Q, C) /\ UNCHANGED <<dorecovery, in_instr_recovery, stopq, reqInstr, endData, endInstr,
                                      published, covered>>
      <4>1. ~ (sn <= qseq_num \/ stopq) BY <2>2 DEF TypeOK, Packet
      <4> QED BY <1>3, <4>1 DEF ProcessQ
    <3>2. Buffer(Q, C) BY DEF Buffer, TypeOK
    <3>3. \A x \in Q : x <= published BY <1>3 DEF ProcessQ, ProcessorInv, PositionInv
    <3>4. running = "started" BY <1>3 DEF ProcessQ
    <3>5. msg_q \subseteq Q /\ \A x \in Q : qseq_num < x \/ x <= covered
      BY <2>2 DEF ProcessorInv, BufferInv, TypeOK, Packet
    <3> HIDE DEF Q, C, IInv
    <3> QED BY <3>1, <3>2, <3>3, <3>4, <3>5, ProcessqStep
  <2> QED BY <1>3, <2>1, <2>2 DEF ProcessQ
<1>4. CASE EndDataRecovery
  <2> DEFINE last == Head(endData)
  <2>1. /\ endData \in Seq(0..MaxSeq) /\ endData # <<>>
        /\ last \in 0..MaxSeq /\ last = endData[1] /\ Len(endData) \in Nat \ {0}
        /\ endData' \in Seq(0..MaxSeq) /\ Len(endData') = Len(endData) - 1
        /\ endData' = Tail(endData)
    <3>1. endData \in Seq(0..MaxSeq) /\ endData # <<>> /\ endData' = Tail(endData)
      BY <1>4 DEF EndDataRecovery, TypeOK
    <3>2. /\ Head(endData) \in 0..MaxSeq
          /\ Tail(endData) \in Seq(0..MaxSeq)
          /\ Len(Tail(endData)) = Len(endData) - 1
      BY <3>1, HeadTailProperties
    <3>3. Len(endData) \in Nat BY <3>1, LenProperties
    <3>4. Len(Tail(endData)) \in Nat BY <3>2, LenProperties
    <3>5. Head(endData) = endData[1] BY <3>1
    <3> QED BY <3>1, <3>2, <3>3, <3>4, <3>5
  <2>2. in_data_recovery /\ reqData = 0 /\ Len(endData) = 1
    BY <2>1 DEF TypeOK, ProcessorInv, FlagInv
  <2>3. last <= published
    BY <2>1 DEF ProcessorInv, PositionInv
  <2>4. /\ qseq_num' = IF qseq_num < last THEN last ELSE qseq_num
        /\ covered' = IF covered < last THEN last ELSE covered
        /\ in_data_recovery' = FALSE
        /\ UNCHANGED <<dorecovery, msg_q, corrupt, waitcnt, in_instr_recovery, stopq,
                       numdrecoveries, running, reqData, reqInstr, endInstr, published, decoded, base>>
    BY <1>4 DEF EndDataRecovery
  <2> HIDE DEF last
  <2>5. TypeOK'
    <3>1. qseq_num' \in Nat /\ covered' \in 0..MaxSeq BY <2>1, <2>4 DEF TypeOK
    <3> QED BY <2>1, <2>4, <3>1 DEF TypeOK
  <2>6. FlagInv' BY <2>1, <2>2, <2>4 DEF ProcessorInv, FlagInv
  <2>7. PositionInv'
    <3>1. qseq_num \in Nat /\ published \in 0..MaxSeq /\ covered \in 0..MaxSeq
          /\ decoded \subseteq Packet
      BY DEF TypeOK
    <3> QED BY <2>1, <2>2, <2>3, <2>4, <3>1 DEF ProcessorInv, PositionInv, Packet
  <2>8. NoSilentLoss'
    <3>1. qseq_num \in Nat /\ covered \in 0..MaxSeq BY DEF TypeOK
    <3> QED BY <2>1, <2>4, <3>1 DEF ProcessorInv, NoSilentLoss, Packet
  <2>9. base' > 0 => qseq_num' > 0
    BY <2>1, <2>4 DEF TypeOK, ProcessorInv
  <2>10. running' = "started" BY <1>4 DEF EndDataRecovery
  <2>11. WaitInv' BY <2>2, <2>4 DEF ProcessorInv, WaitInv
  <2>12. BufferInv'
    <3>1. /\ qseq_num \in Nat /\ covered \in 0..MaxSeq /\ msg_q \subseteq Packet
          /\ covered <= qseq_num
      BY DEF TypeOK, ProcessorInv, PositionInv
    <3> QED BY <2>1, <2>4, <3>1 DEF ProcessorInv, BufferInv, Packet
  <2> QED BY <2>4, <2>5, <2>6, <2>7, <2>8, <2>9, <2>10, <2>11, <2>12 DEF ProcessorInv
<1>5. CASE EndInstrumentRecovery
  <2>1. /\ endInstr > 0 /\ endInstr' = endInstr - 1 /\ in_instr_recovery' = FALSE
        /\ UNCHANGED <<dorecovery, qseq_num, msg_q, corrupt, waitcnt, in_data_recovery, stopq,
                       numdrecoveries, running, reqData, reqInstr, endData, published, decoded, covered, base>>
        /\ running = "started"
    BY <1>5 DEF EndInstrumentRecovery, histVars
  <2>2. endInstr' \in Nat BY <2>1 DEF TypeOK
  <2>3. TypeOK' BY <2>1, <2>2 DEF TypeOK
  <2>4. FlagInv'
    <3>1. reqInstr = 0 /\ endInstr = 1 BY <2>1 DEF TypeOK, ProcessorInv, FlagInv
    <3> QED BY <2>1, <3>1 DEF ProcessorInv, FlagInv
  <2>5. PositionInv' /\ WaitInv' /\ BufferInv' /\ NoSilentLoss'
    BY <2>1 DEF ProcessorInv, PositionInv, WaitInv, BufferInv, NoSilentLoss
  <2> QED BY <2>1, <2>3, <2>4, <2>5 DEF ProcessorInv
<1>6. CASE AnswerInstr
  BY <1>6 DEF AnswerInstr, mpVars, histVars, TypeOK, ProcessorInv, FlagInv, PositionInv,
              WaitInv, BufferInv, NoSilentLoss, Recovering
<1>7. ASSUME NEW last \in 0..MaxSeq, AnswerData(last)
      PROVE  IInv' /\ decoded' = decoded
  <2>1. /\ endData \in Seq(0..MaxSeq) /\ endData' = Append(endData, last)
        /\ endData' \in Seq(0..MaxSeq)
        /\ Len(endData') = Len(endData) + 1
        /\ \A i \in 1..Len(endData') : endData'[i] = IF i <= Len(endData) THEN endData[i] ELSE last
    BY <1>7, AppendProperties, LenProperties DEF AnswerData, TypeOK
  <2>2. Len(endData) \in Nat BY <2>1, LenProperties
  <2>3. TypeOK' BY <1>7, <2>1 DEF AnswerData, mpVars, histVars, TypeOK
  <2>4. FlagInv' BY <1>7, <2>1, <2>2 DEF AnswerData, mpVars, TypeOK, ProcessorInv, FlagInv
  <2>5. PositionInv' BY <1>7, <2>1, <2>2 DEF AnswerData, mpVars, histVars, ProcessorInv, PositionInv
  <2> QED BY <1>7, <2>3, <2>4, <2>5 DEF AnswerData, mpVars, histVars, ProcessorInv, WaitInv, BufferInv,
                                       NoSilentLoss, Recovering
<1>8. ASSUME NEW b \in BOOLEAN, SetStopQ(b)
      PROVE  IInv' /\ decoded' = decoded
  BY <1>8 DEF SetStopQ, mailVars, histVars, TypeOK, ProcessorInv, FlagInv, PositionInv,
              WaitInv, BufferInv, NoSilentLoss, Recovering
<1>9. CASE EndRecovery
  <2>1. EndDataRecovery => decoded' = decoded BY DEF EndDataRecovery
  <2>2. EndInstrumentRecovery => decoded' = decoded BY DEF EndInstrumentRecovery, histVars
  <2> QED BY <1>9, <1>4, <1>5, <2>1, <2>2 DEF EndRecovery
<1>10. CASE Answer
  <2>1. AnswerInstr => decoded' = decoded BY DEF AnswerInstr, histVars
  <2> QED BY <1>10, <1>6, <1>7, <2>1 DEF Answer
<1> QED BY <1>1, <1>2, <1>3, <1>8, <1>9, <1>10 DEF Next

\* Stuttering keeps it too.
LEMMA StutterIInv == IInv /\ UNCHANGED vars => IInv'
BY DEF IInv, vars, mpVars, mailVars, histVars, TypeOK, ProcessorInv, FlagInv, PositionInv,
       WaitInv, BufferInv, NoSilentLoss, Recovering

-----------------------------------------------------------------------------
\* The arbitration keeps TypeOK and ProcessorInv, for every instance.
THEOREM Inductive == Spec => []IInv
<1>1. IInv /\ [Next]_vars => IInv' BY NextIInv, StutterIInv
<1> QED BY InitIInv, <1>1, PTL DEF Spec

\* Type correctness; with recovery on, waitcnt never runs out (processq).
THEOREM TypeCorrect == Spec => []TypeOK
BY Inductive, PTL DEF IInv

\* The recovery flags and the position agree with the messages under way.
THEOREM ProcessorCorrect == Spec => []ProcessorInv
BY Inductive, PTL DEF IInv

\* No packet is passed over without a decode or a snapshot (processq,
\* enddatarecovery_handler), however packets and snapshots arrive.
THEOREM NoSilentLossCorrect == Spec => []NoSilentLoss
<1>1. IInv => NoSilentLoss BY DEF IInv, ProcessorInv
<1> QED BY Inductive, <1>1, PTL

\* processq and the end of a recovery only move the position on.
LEMMA PositionKeeps ==
    ASSUME IInv, Next
    PROVE  qseq_num <= qseq_num'
<1>1. qseq_num \in Nat /\ msg_q \subseteq Packet /\ corrupt \subseteq msg_q
  BY DEF IInv, TypeOK
<1>2. ASSUME NEW sn \in Packet, NEW ok \in BOOLEAN, ProcessQ(sn, ok)
      PROVE  qseq_num <= qseq_num'
  <2> DEFINE Q == msg_q \cup {sn}
             C == IF ok \/ sn \in msg_q THEN corrupt ELSE corrupt \cup {sn}
  <2>1. Buffer(Q, C) BY <1>1 DEF Buffer
  <2>2. qseq_num' = qseq_num \/ processq(Q, C) BY <1>2 DEF ProcessQ, mpVars
  <2> HIDE DEF Q, C
  <2>3. Reached(Q, C) \in Nat /\ qseq_num <= Reached(Q, C) BY <1>1, <2>1, PassFact
  <2>4. ASSUME Left(Q, C) # {}, qseq_num' = Least(Left(Q, C)) - 1
        PROVE  qseq_num <= qseq_num'
    <3>1. Left(Q, C) \subseteq Packet BY <2>1 DEF Left, Buffer
    <3>2. Least(Left(Q, C)) \in Left(Q, C) BY <2>4, <3>1, LeastFact
    <3>3. Least(Left(Q, C)) \in Nat /\ Least(Left(Q, C)) > Reached(Q, C)
      BY <3>1, <3>2 DEF Left, Packet
    <3> QED BY <1>1, <2>3, <2>4, <3>3
  <2> QED BY <1>1, <2>2, <2>3, <2>4
          DEF processq, DrainAll, WaitForGap, RecoverGap, SkipGap, DecodeFailure
<1>3. CASE EndDataRecovery
  <2>1. Head(endData) \in Nat
    <3>1. endData \in Seq(0..MaxSeq) /\ endData # <<>>
      BY <1>3 DEF EndDataRecovery, IInv, TypeOK
    <3>2. Head(endData) \in 0..MaxSeq BY <3>1, HeadTailProperties
    <3> QED BY <3>2
  <2>2. qseq_num' = IF qseq_num < Head(endData) THEN Head(endData) ELSE qseq_num
    BY <1>3 DEF EndDataRecovery
  <2> QED BY <1>1, <2>1, <2>2
<1>4. Start \/ Publish \/ EndInstrumentRecovery \/ Answer \/ (\E b \in BOOLEAN : SetStopQ(b))
      => qseq_num' = qseq_num
  BY DEF Start, Publish, EndInstrumentRecovery, Answer, AnswerData, AnswerInstr, SetStopQ, mpVars
<1> QED BY <1>1, <1>2, <1>3, <1>4 DEF Next, EndRecovery

\* Packets are decoded in increasing order, and only beyond a position that never
\* goes back, so at most once (processq, enddatarecovery_handler).
THEOREM DecodeOrderCorrect == Spec => DecodeOrder
<1>1. IInv /\ [Next]_vars =>
        [/\ qseq_num <= qseq_num'
         /\ \A sn \in decoded' \ decoded : sn > qseq_num /\ \A d \in decoded : d < sn]_vars
  BY NextIInv, PositionKeeps
<1> QED BY Inductive, <1>1, PTL DEF Spec, DecodeOrder

\* Nothing is decoded while the RecoveryProcessor may be using the feed handler.
THEOREM HandlerExclusiveCorrect == Spec => HandlerExclusive
<1>1. IInv /\ [Next]_vars => [decoded' # decoded => reqData = 0 /\ reqInstr = 0]_vars
  <2> SUFFICES ASSUME IInv, Next, decoded' # decoded PROVE reqData = 0 /\ reqInstr = 0
    OBVIOUS
  <2>1. ~ Recovering
    <3>1. ASSUME NEW Q, NEW C, processq(Q, C) PROVE decoded \subseteq decoded'
      <4>1. UNCHANGED decoded \/ Decode(Q, C)
        BY <3>1 DEF processq, DrainAll, WaitForGap, RecoverGap, SkipGap, DecodeFailure
      <4> QED BY <4>1 DEF Decode
    <3>2. ASSUME NEW sn, NEW ok, ProcessQ(sn, ok) PROVE decoded \subseteq decoded'
      <4>1. UNCHANGED decoded \/ \E Q, C : processq(Q, C)
        BY <3>2 DEF ProcessQ
      <4> QED BY <4>1, <3>1
    <3>3. decoded \subseteq decoded'
      BY <3>2 DEF Next, Start, Publish, EndRecovery, EndDataRecovery, EndInstrumentRecovery,
                  Answer, AnswerInstr, AnswerData, SetStopQ, histVars
    <3> QED BY <3>3, NextIInv
  <2>2. Len(endData) \in Nat BY LenProperties DEF IInv, TypeOK
  <2> QED BY <2>1, <2>2 DEF IInv, TypeOK, ProcessorInv, FlagInv, Recovering
<1> QED BY Inductive, <1>1, PTL DEF Spec, HandlerExclusive

\* A packet that made it into the buffer is decoded or covered by a snapshot
\* when it leaves it, also where gaps are skipped (processq).
THEOREM BufferedNotDroppedCorrect == Spec => BufferedNotDropped
<1>1. ASSUME IInv, NEW Q, NEW C, Buffer(Q, C), \A sn \in Q : qseq_num < sn \/ sn <= covered,
             msg_q \subseteq Q, processq(Q, C), NEW sn \in msg_q, sn \notin msg_q'
      PROVE  sn \in decoded' \/ sn <= covered
  <2>1. ~ Recovering /\ Decode(Q, C)
    BY <1>1 DEF processq, DrainAll, WaitForGap, RecoverGap, SkipGap, DecodeFailure
  <2>2. sn \in Packet /\ sn \in Q /\ qseq_num \in Nat
    BY <1>1 DEF IInv, TypeOK, Buffer
  <2>3. sn <= Reached(Q, C)
    <3>1. sn \notin Left(Q, C) BY <1>1, <2>1 DEF Decode
    <3>2. Reached(Q, C) \in Nat BY <1>1, <2>2, PassFact
    <3> QED BY <3>1, <3>2, <2>2 DEF Left, Packet
  <2> SUFFICES ASSUME qseq_num < sn PROVE sn \in Decodable(Q, C)
    BY <1>1, <2>1, <2>2 DEF Decode
  <2>4. Decodable(Q, C) # {}
    BY <2>2, <2>3 DEF Reached, Packet
  <2>5. NextUp(Q) <= sn /\ NextUp(Q) \in Packet
    <3>1. sn \in Fresh(Q) /\ Fresh(Q) \subseteq Packet BY <1>1, <2>2 DEF Fresh, Buffer
    <3>2. Least(Fresh(Q)) <= sn BY <3>1, LeastFact
    <3>3. NextUp(Q) \in Packet BY <1>1, <2>2, <2>4, PassFact
    <3> QED BY <3>2, <3>3, <2>2 DEF NextUp, Packet
  <2>6. sn \in NextUp(Q)..Reached(Q, C)
    BY <2>2, <2>3, <2>5 DEF Packet
  <2> QED BY <1>1, <2>2, <2>4, <2>6, PassFact
<1>2. IInv /\ [Next]_vars => [\A sn \in msg_q \ msg_q' : sn \in decoded' \/ sn <= covered]_vars
  <2> SUFFICES ASSUME IInv, Next, NEW sn \in msg_q, sn \notin msg_q'
               PROVE  sn \in decoded' \/ sn <= covered
    OBVIOUS
  <2>1. PICK p \in Packet, ok \in BOOLEAN : ProcessQ(p, ok)
    BY DEF Next, Start, Publish, EndRecovery, EndDataRecovery, EndInstrumentRecovery,
           Answer, AnswerInstr, AnswerData, SetStopQ, mpVars
  <2> DEFINE Q == msg_q \cup {p}
             C == IF ok \/ p \in msg_q THEN corrupt ELSE corrupt \cup {p}
  <2>2. processq(Q, C) /\ p > qseq_num BY <2>1 DEF ProcessQ, mpVars
  <2>3. Buffer(Q, C) BY DEF Buffer, IInv, TypeOK
  <2>4. \A x \in Q : qseq_num < x \/ x <= covered
    BY <2>2 DEF IInv, TypeOK, ProcessorInv, BufferInv, Packet
  <2>5. msg_q \subseteq Q OBVIOUS
  <2> HIDE DEF Q, C
  <2> QED BY <1>1, <2>2, <2>3, <2>4, <2>5
<1> QED BY Inductive, <1>2, PTL DEF Spec, BufferedNotDropped
-----------------------------------------------------------------------------
(* The order book behind the arbitration, with recovery on.  BookAt is the  *)
(* position whose book the OB holds: that of the last snapshot it took in,  *)
(* or of the arbitration once that is further, or of the packet behind it   *)
(* that has failed half-way.  The time gates work because the two times     *)
(* stay close enough to it.                                                 *)

\* The latest of the snapshot's position, the torn packet and packet n.
Later(n) ==
    LET m == IF snapv < torn THEN torn ELSE snapv
    IN  IF m < n THEN n ELSE m

BookAt == Later(qseq_num)

\* What x does, and which snapshots there were.
BookTypes ==
    /\ addAt \in Packet /\ delAt \in 1..MaxSeq + 1 /\ addAt < delAt
    /\ lastv \in 0..MaxSeq /\ snapv \in 0..MaxSeq /\ snapv <= lastv
    /\ ordermap \subseteq {"base", "x"} /\ is_in_recovery \in BOOLEAN /\ stacked \in BOOLEAN
    /\ last_tx_tim \in Nat /\ last_recovery_tx_tim \in Nat
    /\ torn \in 0..MaxSeq

\* The channel is joined by a snapshot, and no snapshot leads the arbitration
\* past the book; a torn packet is the one to decode next, or has been covered.
Joined ==
    /\ base = 0
    /\ torn <= qseq_num + 1
    /\ qseq_num = 0 => running = "new" \/ in_data_recovery
    /\ covered <= lastv
    /\ \A i \in 1..Len(endData) : 1 <= endData[i] /\ endData[i] <= lastv /\ endData[i] <= BookAt

\* last_tx_tim is that of the last record decoded, be it that of a torn packet,
\* unless a CLEAR forgot it; then a snapshot that covers the record is still to
\* come.
LiveTimes ==
    /\ last_tx_tim # 0 =>
            \E sn \in Packet : sn \in About /\ sn <= qseq_num + 1 /\ last_tx_tim = Tx(sn)
    /\ \A sn \in decoded : sn \in About => Tx(sn) <= last_tx_tim \/ sn <= lastv

\* last_recovery_tx_tim tells the records in the book from those still to come.
SnapTimes ==
    /\ last_recovery_tx_tim <= Tx(BookAt)
    /\ last_recovery_tx_tim # 0 => snapv > 0 /\ SnapTx(snapv) <= last_recovery_tx_tim

\* A book without a snapshot is empty, and waits for one.
Blank ==
    last_recovery_tx_tim = 0 =>
        last_tx_tim = 0 /\ ordermap = {} /\ (running = "new" \/ reqData > 0)

\* The orders a book must have, and all it may have when its snapshot was not
\* loaded on top of another.
Holds(orders, n) == Exchange(n) \subseteq orders /\ (stacked \/ orders = Exchange(n))

BookKept == last_recovery_tx_tim # 0 => Holds(ordermap, BookAt)

BookInv == dorecovery => BookTypes /\ Joined /\ LiveTimes /\ SnapTimes /\ Blank /\ BookKept

\* The state of an OB, as Handle takes it.
Books == [orders : SUBSET {"base", "x"}, tx : Nat, rec : Nat, inrec : BOOLEAN]

-----------------------------------------------------------------------------
(* What Handle, a run of packets and a snapshot do to a book *)

\* A set that holds 0, and with every n below the bound also n + 1, holds every
\* number up to the bound.
LEMMA UpToInduction ==
    ASSUME NEW N \in Nat, NEW T, 0 \in T, \A n \in 0..N-1 : n \in T => n + 1 \in T
    PROVE  \A n \in 0..N : n \in T
<1> DEFINE B == {n \in 0..N : n \notin T}
<1> SUFFICES ASSUME B # {} PROVE FALSE
  OBVIOUS
<1>1. B \subseteq Nat
  OBVIOUS
<1>2. PICK x \in B : \A y \in B : x <= y
  <2> HIDE DEF B
  <2> QED BY <1>1, NatMin
<1>3. x # 0 /\ x \in 1..N
  BY <1>2
<1>4. x - 1 \in 0..N-1 /\ x - 1 \in 0..N /\ ~ (x <= x - 1) /\ (x - 1) + 1 = x
  BY <1>3
<1>5. x - 1 \in T
  BY <1>2, <1>4
<1> QED BY <1>2, <1>4, <1>5

\* A snapshot's time is that of the last packet about the book that is in it.
LEMMA SnapTxFact ==
    ASSUME BookTypes, NEW v \in 0..MaxSeq
    PROVE  /\ SnapTx(v) \in Nat /\ SnapTx(v) # 0
           /\ SnapTx(v) <= Tx(v)
           /\ \A sn \in About : sn <= v => Tx(sn) <= SnapTx(v)
<1> DEFINE S == {sn \in About : sn <= v}
<1>1. S \subseteq Packet
  <2> SUFFICES ASSUME NEW sn \in About, sn <= v PROVE sn \in Packet
    OBVIOUS
  <2>1. sn \in Packet \/ sn = delAt
    BY TouchingAssumption DEF About, BookTypes
  <2>2. delAt \in Nat /\ delAt > 0 /\ v \in Nat /\ v <= MaxSeq
    BY BoundAssumption DEF BookTypes
  <2> QED BY <2>1, <2>2, BoundAssumption DEF Packet
<1>2. SnapTx(v) = IF S = {} THEN 1 ELSE Tx(Greatest(S))
  BY DEF SnapTx
<1>3. CASE S = {}
  BY <1>2, <1>3, BoundAssumption DEF Tx
<1>4. CASE S # {}
  <2>1. Greatest(S) \in S /\ \A y \in S : y <= Greatest(S)
    <3> HIDE DEF S
    <3> QED BY <1>1, <1>4, GreatestFact
  <2>2. Greatest(S) \in Packet /\ Greatest(S) <= v BY <1>1, <2>1
  <2>3. \A sn \in About : sn <= v => sn \in Packet /\ sn <= Greatest(S) BY <1>1, <2>1
  <2> HIDE DEF S
  <2> QED BY <1>2, <1>4, <2>2, <2>3, BoundAssumption DEF Tx, Packet
<1> QED BY <1>3, <1>4

\* The exchange's book changes only with a packet about it.
LEMMA ExchangeSame ==
    ASSUME BookTypes, NEW a \in Nat, NEW b \in Nat, a <= b,
           \A sn \in a + 1 .. b : sn \notin About
    PROVE  Exchange(a) = Exchange(b)
<1>1. addAt \in About /\ delAt \in About /\ addAt \in Nat /\ delAt \in Nat
  BY BoundAssumption DEF About, BookTypes, Packet
<1>2. ~ (a < addAt /\ addAt <= b) /\ ~ (a < delAt /\ delAt <= b)
  BY <1>1
<1>3. (addAt <= a /\ a < delAt) <=> (addAt <= b /\ b < delAt)
  BY <1>1, <1>2
<1> QED BY <1>3 DEF Exchange

\* The exchange's book after a packet is what the packet's record makes of it.
LEMMA ExchangeUpdate ==
    ASSUME BookTypes, NEW sn \in Packet
    PROVE  Exchange(sn) = Update(Exchange(sn - 1), LiveRecord(sn))
<1>1. addAt \in Nat /\ delAt \in Nat /\ sn \in Nat /\ addAt < delAt
  BY BoundAssumption DEF BookTypes, Packet
<1>2. CASE sn = addAt
  BY <1>1, <1>2 DEF Exchange, Update, LiveRecord
<1>3. CASE sn = delAt
  BY <1>1, <1>3 DEF Exchange, Update, LiveRecord
<1>4. CASE sn # addAt /\ sn # delAt
  <2>1. (addAt <= sn /\ sn < delAt) <=> (addAt <= sn - 1 /\ sn - 1 < delAt)
    BY <1>1, <1>4
  <2>2. LiveRecord(sn).action = "change"
    BY <1>4 DEF LiveRecord
  <2> QED BY <2>1, <2>2 DEF Exchange, Update
<1> QED BY <1>2, <1>3, <1>4

\* The record of a packet may come once more: a book that the packet is in
\* stays as it is, and a book that has more still has more.
LEMMA UpdateAgain ==
    ASSUME NEW sn \in Packet, NEW a, NEW b, a \subseteq b
    PROVE  /\ Update(Update(a, LiveRecord(sn)), LiveRecord(sn)) = Update(a, LiveRecord(sn))
           /\ Update(a, LiveRecord(sn)) \subseteq Update(b, LiveRecord(sn))
<1> DEFINE m == LiveRecord(sn)
<1>1. CASE m.action = "add" BY <1>1 DEF Update
<1>2. CASE m.action = "delete" BY <1>2 DEF Update
<1>3. CASE m.action \notin {"add", "delete"} BY <1>3 DEF Update
<1> QED BY <1>1, <1>2, <1>3

\* data_handler for a live record: the gate, then the book.
LEMMA LiveHandle ==
    ASSUME NEW b \in Books, NEW sn \in Packet
    PROVE  LET h == Handle(b, LiveRecord(sn))
           IN /\ h \in Books
              /\ h.tx = Tx(sn) /\ h.rec = b.rec
              /\ h.orders = IF b.rec # 0 /\ Tx(sn) <= b.rec THEN b.orders
                            ELSE Update(b.orders, LiveRecord(sn))
<1> DEFINE m == LiveRecord(sn)
           s == Stamp(b, m)
<1>1. /\ m.recovery = FALSE /\ m.tim = Tx(sn) /\ m.order \in {"base", "x"}
      /\ Tx(sn) \in Nat /\ Tx(sn) # 0
  BY DEF LiveRecord, Tx, Packet
<1>2. s \in Books /\ s.tx = Tx(sn) /\ s.rec = b.rec /\ s.orders = b.orders
  <2> HIDE DEF m
  <2> QED BY <1>1 DEF Stamp, Books
<1>3. Rejected(s, m) <=> b.rec # 0 /\ Tx(sn) <= b.rec
  <2> HIDE DEF m, s
  <2> QED BY <1>1, <1>2 DEF Rejected
<1>4. Update(s.orders, m) \in SUBSET {"base", "x"}
  <2> HIDE DEF m, s
  <2> QED BY <1>1, <1>2 DEF Update, Books
<1>5. /\ Accept(s, m) \in Books /\ Accept(s, m).tx = s.tx /\ Accept(s, m).rec = s.rec
      /\ Accept(s, m).orders = Update(s.orders, m)
  <2> HIDE DEF m, s
  <2> QED BY <1>1, <1>2, <1>4 DEF Accept, Books
<1>6. Handle(b, m) = IF Rejected(s, m) THEN s ELSE Accept(s, m)
  BY DEF Handle
<1> HIDE DEF m, s
<1>7. /\ Handle(b, m) \in Books /\ Handle(b, m).tx = Tx(sn) /\ Handle(b, m).rec = b.rec
      /\ Handle(b, m).orders = IF b.rec # 0 /\ Tx(sn) <= b.rec THEN b.orders
                               ELSE Update(b.orders, m)
  BY <1>2, <1>3, <1>5, <1>6
<1> QED BY <1>7 DEF m

\* data_handler for the records of a snapshot: all of them are too old, or the
\* book is the snapshot's, if it was empty or is cleared by the first.
LEMMA SnapshotFact ==
    ASSUME BookTypes, NEW b \in Books, NEW v \in 0..MaxSeq
    PROVE  LET h == Snapshot(b, v)
               first == SnapshotRecord(v, "base")
               old == b.tx # 0 /\ SnapTx(v) < b.tx
           IN /\ h \in Books
              /\ h.tx = b.tx /\ h.rec = SnapTx(v)
              /\ Rejected(Stamp(b, first), first) <=> old
              /\ old => h.orders = b.orders
              /\ ~ old => Exchange(v) \subseteq h.orders
              /\ ~ old /\ (~ b.inrec \/ b.orders = {}) => h.orders = Exchange(v)
<1> DEFINE t == SnapTx(v)
           old(o) == o.tx # 0 /\ t < o.tx
<1>1. t \in Nat /\ t # 0 BY SnapTxFact
<1>2. ASSUME NEW o \in Books, NEW x \in {"base", "x"}
      PROVE  /\ Handle(o, SnapshotRecord(v, x)) \in Books
             /\ Handle(o, SnapshotRecord(v, x)).tx = o.tx
             /\ Handle(o, SnapshotRecord(v, x)).rec = t
             /\ Rejected(Stamp(o, SnapshotRecord(v, x)), SnapshotRecord(v, x)) <=> old(o)
             /\ old(o) => /\ Handle(o, SnapshotRecord(v, x)).orders = o.orders
             /\ ~ old(o) => /\ Handle(o, SnapshotRecord(v, x)).orders
                                  = (IF o.inrec THEN o.orders ELSE {}) \cup {x}
                            /\ Handle(o, SnapshotRecord(v, x)).inrec
  <2> DEFINE m == SnapshotRecord(v, x)
             s == Stamp(o, m)
  <2>1. m.recovery = TRUE /\ m.tim = t /\ m.order = x /\ m.action = "add"
    BY DEF SnapshotRecord
  <2> HIDE DEF m, t
  <2>2. s \in Books /\ s.tx = o.tx /\ s.rec = t /\ s.orders = o.orders /\ s.inrec = o.inrec
    BY <1>1, <2>1 DEF Stamp, Books
  <2> HIDE DEF s
  <2>3. Rejected(s, m) <=> old(o)
    BY <1>1, <2>1, <2>2 DEF Rejected
  <2>4. \A z : Update(z, m) = z \cup {x}
    BY <2>1 DEF Update
  <2>5. /\ Accept(s, m) \in Books /\ Accept(s, m).tx = s.tx /\ Accept(s, m).rec = s.rec
        /\ Accept(s, m).orders = (IF o.inrec THEN o.orders ELSE {}) \cup {x}
        /\ Accept(s, m).inrec
    <3> DEFINE z == Update(IF o.inrec THEN o.orders ELSE {}, m)
    <3>1. z = (IF o.inrec THEN o.orders ELSE {}) \cup {x} BY <2>4
    <3>2. z \in SUBSET {"base", "x"} BY <3>1 DEF Books
    <3> HIDE DEF z
    <3>3. (IF m.recovery /\ ~ s.inrec THEN {} ELSE s.orders) = IF o.inrec THEN o.orders ELSE {}
      BY <2>1, <2>2 DEF Books
    <3>4. Accept(s, m) = [s EXCEPT !.orders = z, !.inrec = TRUE]
      BY <2>1, <3>3 DEF Accept, z
    <3> QED BY <2>2, <3>1, <3>2, <3>4 DEF Books
  <2>6. Handle(o, m) = IF Rejected(s, m) THEN s ELSE Accept(s, m)
    BY DEF Handle, s
  <2>7. /\ Handle(o, m) \in Books /\ Handle(o, m).tx = o.tx /\ Handle(o, m).rec = t
        /\ Rejected(s, m) <=> old(o)
        /\ old(o) => Handle(o, m).orders = o.orders
        /\ ~ old(o) => /\ Handle(o, m).orders = (IF o.inrec THEN o.orders ELSE {}) \cup {x}
                       /\ Handle(o, m).inrec
    BY <2>2, <2>3, <2>5, <2>6
  <2> QED BY <2>7 DEF m, s
<1> DEFINE f == Handle(b, SnapshotRecord(v, "base"))
           g == Handle(f, SnapshotRecord(v, "x"))
<1>3. /\ f \in Books /\ f.tx = b.tx /\ f.rec = t
      /\ Rejected(Stamp(b, SnapshotRecord(v, "base")), SnapshotRecord(v, "base")) <=> old(b)
      /\ old(b) => f.orders = b.orders
      /\ ~ old(b) => f.orders = (IF b.inrec THEN b.orders ELSE {}) \cup {"base"} /\ f.inrec
  BY <1>2
<1>4. /\ g \in Books /\ g.tx = f.tx /\ g.rec = t
      /\ old(f) => g.orders = f.orders
      /\ ~ old(f) => g.orders = (IF f.inrec THEN f.orders ELSE {}) \cup {"x"} /\ g.inrec
  <2> HIDE DEF f
  <2> QED BY <1>2, <1>3
<1>5. Snapshot(b, v) = IF "x" \in Exchange(v) THEN g ELSE f
  BY DEF Snapshot
<1>6. Exchange(v) = {"base"} \cup IF "x" \in Exchange(v) THEN {"x"} ELSE {}
  BY DEF Exchange
<1> HIDE DEF f, g
<1>7. old(f) <=> old(b) BY <1>3
<1> QED BY <1>3, <1>4, <1>5, <1>6, <1>7

-----------------------------------------------------------------------------
(* A run of packets *)

\* f holds the books after the first packets of S, up to n.
IsRun(o, S, n, f) ==
    f = [sn \in 0..n |-> IF sn = 0 THEN o
                         ELSE IF sn \in S \cap About THEN Handle(f[sn - 1], LiveRecord(sn))
                         ELSE f[sn - 1]]

\* The recursion of LiveRun has a solution for every number of packets.
LEMMA RunExists ==
    ASSUME NEW o, NEW S, NEW N \in Nat
    PROVE  \E f : IsRun(o, S, N, f)
<1> DEFINE G(b, sn) == IF sn \in S \cap About THEN Handle(b, LiveRecord(sn)) ELSE b
           T == {k \in Nat : \E f : IsRun(o, S, k, f)}
<1>1. 0 \in T
  <2> DEFINE f == [i \in 0..0 |-> o]
  <2>1. IsRun(o, S, 0, f) BY DEF IsRun
  <2> QED BY <2>1
<1>2. ASSUME NEW k \in 0..N-1, k \in T PROVE k + 1 \in T
  <2>1. PICK f : IsRun(o, S, k, f)
    BY <1>2
  <2>2. k \in Nat /\ f = [i \in 0..k |-> IF i = 0 THEN o ELSE G(f[i - 1], i)]
    BY <2>1 DEF IsRun
  <2> DEFINE h == [i \in 0..(k + 1) |-> IF i <= k THEN f[i] ELSE G(f[i - 1], i)]
  <2> HIDE DEF G
  <2>3. \A i \in 0..k : h[i] = f[i]
    BY <2>2
  <2>4. h[k + 1] = G(h[k], k + 1)
    BY <2>2
  <2>5. h = [i \in 0..(k + 1) |-> h[i]]
    OBVIOUS
  <2>6. \A i \in 0..(k + 1) : h[i] = IF i = 0 THEN o ELSE G(h[i - 1], i)
    <3> SUFFICES ASSUME NEW i \in 0..(k + 1)
                 PROVE  h[i] = IF i = 0 THEN o ELSE G(h[i - 1], i)
      OBVIOUS
    <3> HIDE DEF h
    <3>1. CASE i = k + 1 BY <2>2, <2>4, <3>1
    <3>2. CASE i # k + 1
      <4>1. i \in 0..k BY <2>2, <3>2
      <4>2. f[i] = IF i = 0 THEN o ELSE G(f[i - 1], i) BY <2>2, <4>1
      <4>3. i # 0 => i - 1 \in 0..k BY <4>1, <2>2
      <4> QED BY <2>3, <4>1, <4>2, <4>3
    <3> QED BY <3>1, <3>2
  <2>7. IsRun(o, S, k + 1, h)
    <3>1. h = [i \in 0..(k + 1) |-> IF i = 0 THEN o ELSE G(h[i - 1], i)]
      <4> HIDE DEF h
      <4> QED BY <2>5, <2>6
    <3> HIDE DEF h
    <3> QED BY <3>1 DEF IsRun, G
  <2> QED BY <2>2, <2>7
<1>3. N \in T
  <2> HIDE DEF T
  <2> QED BY <1>1, <1>2, UpToInduction
<1> QED BY <1>3

\* The books after each packet of a run, to the last.
LEMMA LiveRunFact ==
    ASSUME NEW o, NEW S
    PROVE  \E f : /\ f[0] = o
                  /\ \A sn \in Packet :
                        f[sn] = IF sn \in S \cap About THEN Handle(f[sn - 1], LiveRecord(sn))
                                ELSE f[sn - 1]
                  /\ LiveRun(o, S) = f[MaxSeq]
<1> DEFINE f == CHOOSE f : IsRun(o, S, MaxSeq, f)
<1>1. IsRun(o, S, MaxSeq, f)
  BY RunExists, BoundAssumption
<1>2. LiveRun(o, S) = f[MaxSeq]
  BY DEF LiveRun, IsRun
<1> HIDE DEF f
<1>3. /\ f[0] = o
      /\ \A sn \in Packet :
            f[sn] = IF sn \in S \cap About THEN Handle(f[sn - 1], LiveRecord(sn)) ELSE f[sn - 1]
  <2>1. \A i \in 0..MaxSeq :
            f[i] = IF i = 0 THEN o
                   ELSE IF i \in S \cap About THEN Handle(f[i - 1], LiveRecord(i)) ELSE f[i - 1]
    BY <1>1 DEF IsRun
  <2>2. 0 \in 0..MaxSeq /\ \A sn \in Packet : sn \in 0..MaxSeq /\ sn # 0
    BY BoundAssumption DEF Packet
  <2> QED BY <2>1, <2>2
<1> QED BY <1>2, <1>3

\* A run of no packets leaves the book as it is.
LEMMA LiveRunNone ==
    ASSUME NEW o, NEW S, S = {}
    PROVE  LiveRun(o, S) = o
<1>1. PICK f : /\ f[0] = o
               /\ \A sn \in Packet :
                     f[sn] = IF sn \in S \cap About THEN Handle(f[sn - 1], LiveRecord(sn))
                             ELSE f[sn - 1]
               /\ LiveRun(o, S) = f[MaxSeq]
  BY LiveRunFact
<1> DEFINE T == {n \in Nat : f[n] = o}
<1>2. 0 \in T BY <1>1
<1>3. ASSUME NEW n \in 0..MaxSeq-1, n \in T PROVE n + 1 \in T
  <2>1. n + 1 \in Packet /\ (n + 1) - 1 = n BY BoundAssumption DEF Packet
  <2> QED BY <1>1, <1>3, <2>1
<1>4. MaxSeq \in T
  <2> HIDE DEF T
  <2> QED BY <1>2, <1>3, UpToInduction, BoundAssumption
<1> QED BY <1>1, <1>4

\* The book in the OB's fields.
LEMMA OBFact ==
    ASSUME BookTypes
    PROVE  /\ OB \in Books
           /\ OB.orders = ordermap /\ OB.tx = last_tx_tim /\ OB.rec = last_recovery_tx_tim
           /\ OB.inrec = is_in_recovery
BY DEF OB, Books, BookTypes

\* The run from the arbitration's position to q takes the book from the one
\* position to the other: what the snapshot holds is rejected, the rest is not,
\* and the record of a torn packet changes nothing the second time.
LEMMA RunKeeps ==
    ASSUME IInv, BookTypes, Joined, LiveTimes, SnapTimes, BookKept, last_recovery_tx_tim # 0,
           NEW q \in Packet, qseq_num < q
    PROVE  LET S == qseq_num + 1 .. q
               h == LiveRun(OB, S)
           IN /\ h \in Books
              /\ h.rec = last_recovery_tx_tim
              /\ Holds(h.orders, Later(q))
              /\ h.tx # 0 => \E sn \in Packet : sn \in About /\ sn <= q /\ h.tx = Tx(sn)
              /\ last_tx_tim <= h.tx
              /\ \A sn \in S : sn \in About => Tx(sn) <= h.tx
<1> DEFINE S == qseq_num + 1 .. q
<1>0. /\ qseq_num \in Nat /\ q \in Nat /\ MaxSeq \in Nat /\ snapv \in Nat /\ q <= MaxSeq
      /\ \A sn : sn \in S <=> sn \in Nat /\ qseq_num < sn /\ sn <= q
      /\ last_tx_tim \in Nat /\ last_recovery_tx_tim \in Nat
      /\ torn \in Nat /\ torn <= qseq_num + 1
  BY BoundAssumption DEF IInv, TypeOK, BookTypes, Packet, Joined
<1> HIDE DEF S
<1>a. PICK o : o = OB OBVIOUS
<1>b. PICK f : /\ f[0] = o
               /\ \A sn \in Packet :
                     f[sn] = IF sn \in S \cap About THEN Handle(f[sn - 1], LiveRecord(sn))
                             ELSE f[sn - 1]
               /\ LiveRun(o, S) = f[MaxSeq]
  BY LiveRunFact
<1>1. /\ f[0] = OB
      /\ \A sn \in Packet :
            f[sn] = IF sn \in S \cap About THEN Handle(f[sn - 1], LiveRecord(sn)) ELSE f[sn - 1]
      /\ LiveRun(OB, S) = f[MaxSeq]
  BY <1>a, <1>b
<1> DEFINE At(n) == IF n < qseq_num THEN qseq_num ELSE IF q < n THEN q ELSE n
           Claim(n, b) ==
               /\ b \in Books
               /\ b.rec = last_recovery_tx_tim
               /\ Holds(b.orders, Later(At(n)))
               /\ b.tx # 0 => \E sn \in Packet : sn \in About /\ sn <= q /\ b.tx = Tx(sn)
               /\ b.tx <= Tx(qseq_num + 1) \/ b.tx <= Tx(At(n))
               /\ last_tx_tim <= b.tx
               /\ \A sn \in S : sn \in About /\ sn <= n => Tx(sn) <= b.tx
           T == {n \in Nat : Claim(n, f[n])}
<1>2. Claim(0, OB)
  <2>1. At(0) = qseq_num BY <1>0
  <2>2. Later(qseq_num) = BookAt BY DEF BookAt
  <2>3. last_tx_tim <= Tx(qseq_num + 1)
    <3>1. CASE last_tx_tim = 0 BY <3>1, <1>0 DEF Tx
    <3>2. CASE last_tx_tim # 0
      <4>1. PICK sn \in Packet : sn <= qseq_num + 1 /\ last_tx_tim = Tx(sn)
        BY <3>2 DEF LiveTimes
      <4>2. sn \in Nat BY <1>0 DEF Packet
      <4> QED BY <4>1, <4>2, <1>0 DEF Tx
    <3> QED BY <3>1, <3>2
  <2>4. \A sn \in S : ~ (sn <= 0) BY <1>0
  <2>5. last_tx_tim # 0 => \E sn \in Packet : sn \in About /\ sn <= q /\ last_tx_tim = Tx(sn)
    <3>1. \A sn \in Packet : sn <= qseq_num + 1 => sn <= q BY <1>0 DEF Packet
    <3> QED BY <3>1 DEF LiveTimes
  <2>6. Holds(ordermap, BookAt) BY DEF BookKept
  <2> HIDE DEF At
  <2> QED BY <2>1, <2>2, <2>3, <2>4, <2>5, <2>6, <1>0, OBFact
<1>3. ASSUME NEW n \in 0..MaxSeq-1, Claim(n, f[n]) PROVE Claim(n + 1, f[n + 1])
  <2> DEFINE b == f[n]
             p == n + 1
  <2> SUFFICES Claim(p, f[p]) OBVIOUS
  <2>1. p \in Packet /\ p - 1 = n /\ n \in Nat /\ p \in Nat BY <1>0 DEF Packet
  <2>2. f[p] = IF p \in S \cap About THEN Handle(b, LiveRecord(p)) ELSE b
    BY <1>1, <2>1
  <2>3. /\ At(n) \in Nat /\ At(p) \in Nat /\ At(n) <= At(p) /\ qseq_num <= At(n)
        /\ p \in S => At(n) = n /\ At(p) = p /\ torn <= p
        /\ p \notin S => At(p) = At(n)
    BY <1>0, <2>1
  <2>4. Claim(n, b) BY <1>3
  <2>5. CASE p \notin S \/ p \notin About
    <3>1. f[p] = b BY <2>2, <2>5
    <3>2. Exchange(Later(At(p))) = Exchange(Later(At(n)))
      <4>1. CASE p \notin S BY <4>1, <2>3
      <4>2. CASE p \in S
        <5>1. p \notin About /\ At(n) = n /\ At(p) = p BY <4>2, <2>5, <2>3
        <5>2. Later(n) \in Nat /\ Later(p) \in Nat /\ Later(n) <= Later(p)
              /\ \A sn \in Later(n) + 1 .. Later(p) : sn = p
          BY <1>0, <2>1, <2>3, <4>2 DEF Later
        <5> QED BY <5>1, <5>2, ExchangeSame
      <4> QED BY <4>1, <4>2
    <3>3. \A sn \in S : sn \in About /\ sn <= p => sn <= n
      BY <2>5, <2>1, <1>0
    <3>4. b.tx <= Tx(qseq_num + 1) \/ b.tx <= Tx(At(p))
      <4>1. b.tx \in Nat /\ (b.tx <= Tx(qseq_num + 1) \/ b.tx <= Tx(At(n))) BY <2>4 DEF Books
      <4> QED BY <4>1, <2>3 DEF Tx
    <3> HIDE DEF At, b, p
    <3> QED BY <2>4, <3>1, <3>2, <3>3, <3>4 DEF Holds
  <2>6. CASE p \in S /\ p \in About
    <3> DEFINE h == Handle(b, LiveRecord(p))
    <3>1. f[p] = h /\ At(n) = n /\ At(p) = p /\ qseq_num <= n
      BY <2>2, <2>3, <2>6
    <3>2. /\ b \in Books /\ b.rec = last_recovery_tx_tim
          /\ b.tx <= Tx(qseq_num + 1) \/ b.tx <= Tx(n)
          /\ Holds(b.orders, Later(n)) /\ last_tx_tim <= b.tx
      BY <2>4, <3>1
    <3>3. /\ h \in Books /\ h.tx = Tx(p) /\ h.rec = last_recovery_tx_tim
          /\ h.orders = IF Tx(p) <= last_recovery_tx_tim THEN b.orders
                        ELSE Update(b.orders, LiveRecord(p))
      <4> HIDE DEF b, p
      <4> QED BY <2>1, <3>2, LiveHandle
    <3>4. Holds(h.orders, Later(p))
      <4>0. torn <= p BY <2>3, <2>6
      <4>1. CASE p <= snapv
        <5>1. Tx(p) <= SnapTx(snapv) /\ SnapTx(snapv) \in Nat
          BY <4>1, <2>6, SnapTxFact DEF BookTypes
        <5>2. SnapTx(snapv) <= last_recovery_tx_tim BY DEF SnapTimes
        <5>3. Tx(p) <= last_recovery_tx_tim BY <5>1, <5>2, <1>0, <2>1 DEF Tx
        <5>4. Later(p) = snapv /\ Later(n) = snapv BY <4>0, <4>1, <1>0, <2>1 DEF Later
        <5> HIDE DEF b, p, h
        <5> QED BY <3>2, <3>3, <5>3, <5>4
      <4>2. CASE snapv < p /\ torn < p
        <5>1. BookAt < p /\ BookAt \in Nat BY <4>2, <3>1, <1>0, <2>1 DEF BookAt, Later
        <5>2. last_recovery_tx_tim <= Tx(BookAt) BY DEF SnapTimes
        <5>3. ~ (Tx(p) <= last_recovery_tx_tim) BY <5>1, <5>2, <1>0, <2>1 DEF Tx
        <5>4. Later(p) = p /\ Later(n) = p - 1 BY <4>2, <1>0, <2>1 DEF Later
        <5>5. Exchange(p) = Update(Exchange(p - 1), LiveRecord(p)) BY <2>1, ExchangeUpdate
        <5>6. Exchange(p - 1) \subseteq b.orders => Exchange(p) \subseteq Update(b.orders, LiveRecord(p))
          BY <2>1, <5>5, UpdateAgain
        <5> HIDE DEF b, p, h
        <5> QED BY <3>2, <3>3, <5>3, <5>4, <5>5, <5>6 DEF Holds
      <4>3. CASE snapv < p /\ torn = p
        <5>1. Later(p) = p /\ Later(n) = p BY <4>3, <1>0, <2>1 DEF Later
        <5>2. Exchange(p) = Update(Exchange(p - 1), LiveRecord(p)) BY <2>1, ExchangeUpdate
        <5>3. Update(Exchange(p), LiveRecord(p)) = Exchange(p)
          BY <2>1, <5>2, UpdateAgain
        <5>4. Exchange(p) \subseteq b.orders => Exchange(p) \subseteq Update(b.orders, LiveRecord(p))
          BY <2>1, <5>3, UpdateAgain
        <5> HIDE DEF b, p, h
        <5> QED BY <3>2, <3>3, <5>1, <5>3, <5>4 DEF Holds
      <4> QED BY <4>0, <4>1, <4>2, <4>3, <1>0, <2>1
    <3>5. \A sn \in S : sn \in About /\ sn <= p => Tx(sn) <= Tx(p)
      BY <1>0, <2>1 DEF Tx
    <3>6. last_tx_tim <= Tx(p)
      <4>1. b.tx \in Nat BY <3>2 DEF Books
      <4> QED BY <4>1, <3>1, <3>2, <1>0, <2>1 DEF Tx
    <3>7. Tx(p) <= Tx(p) BY <2>1 DEF Tx
    <3>8. p <= q BY <2>6, <1>0
    <3> HIDE DEF At, b, p, h
    <3> QED BY <2>1, <2>6, <3>1, <3>3, <3>4, <3>5, <3>6, <3>7, <3>8
  <2> HIDE DEF Claim
  <2> QED BY <2>5, <2>6
<1>4. Claim(MaxSeq, f[MaxSeq])
  <2> HIDE DEF Claim
  <2>1. 0 \in T BY <1>1, <1>2
  <2>2. ASSUME NEW n \in 0..MaxSeq-1, n \in T PROVE n + 1 \in T
    BY <1>3, <2>2, <1>0
  <2>3. MaxSeq \in T
    <3> HIDE DEF T
    <3> QED BY <2>1, <2>2, BoundAssumption, UpToInduction
  <2> QED BY <2>3
<1>5. At(MaxSeq) = q BY <1>0
<1>6. \A sn \in S : sn <= MaxSeq BY <1>0
<1> HIDE DEF At
<1>7. LET h == LiveRun(OB, S)
      IN /\ h \in Books
         /\ h.rec = last_recovery_tx_tim
         /\ Holds(h.orders, Later(q))
         /\ h.tx # 0 => \E sn \in Packet : sn \in About /\ sn <= q /\ h.tx = Tx(sn)
         /\ last_tx_tim <= h.tx
         /\ \A sn \in S : sn \in About => Tx(sn) <= h.tx
  BY <1>1, <1>4, <1>5, <1>6
<1> QED BY <1>7 DEF S

\* With recovery on and the channel joined, processq decodes the packets that
\* follow the position, and only between recoveries.
LEMMA DecodedRun ==
    ASSUME IInv, dorecovery, Joined, NEW sn \in Packet, NEW ok \in BOOLEAN, ProcessQ(sn, ok)
    PROVE  /\ qseq_num' \in Nat /\ qseq_num <= qseq_num'
           /\ decoded' = decoded \cup (qseq_num + 1 .. qseq_num')
           /\ base' = base
           /\ qseq_num # qseq_num' => ~ Recovering
           /\ in_data_recovery => in_data_recovery'
           /\ reqData' = reqData \/ reqData' = reqData + 1
           /\ running = "started"
           /\ UNCHANGED <<endData, covered, dorecovery>>
<1> DEFINE Q == msg_q \cup {sn}
           C == IF ok \/ sn \in msg_q THEN corrupt ELSE corrupt \cup {sn}
<1>1. /\ qseq_num \in Nat /\ msg_q \subseteq Packet /\ corrupt \subseteq msg_q /\ HasRecovery
      /\ reqData \in Nat
  BY DEF IInv, TypeOK
<1>2. Buffer(Q, C) BY <1>1 DEF Buffer
<1>3. UNCHANGED <<endData, covered>> /\ running = "started" BY DEF ProcessQ
<1>4. CASE UNCHANGED <<mpVars, reqData, decoded, base>>
  BY <1>1, <1>3, <1>4 DEF mpVars
<1>5. CASE processq(Q, C) /\ UNCHANGED <<dorecovery, in_instr_recovery, stopq>>
  <2> HIDE DEF Q, C
  <2>1. CASE Recovering
    <3>1. UNCHANGED <<qseq_num, decoded, base, in_data_recovery, reqData>>
      BY <1>5, <2>1 DEF processq
    <3>2. qseq_num + 1 .. qseq_num = {} BY <1>1
    <3> QED BY <1>1, <1>3, <1>5, <3>1, <3>2
  <2>2. CASE ~ Recovering
    <3>1. /\ Decode(Q, C) /\ qseq_num' = Reached(Q, C)
          /\ UNCHANGED <<in_data_recovery, reqData>> \/ do_data_recovery
      BY <1>1, <1>5, <2>2 DEF processq, DrainAll, WaitForGap, RecoverGap, SkipGap, DecodeFailure
    <3>2. qseq_num # 0 BY <1>3, <2>2 DEF Joined, Recovering
    <3>3. base' = base /\ decoded' = decoded \cup Decodable(Q, C)
      BY <3>1, <3>2 DEF Decode
    <3>4. /\ in_data_recovery => in_data_recovery'
          /\ reqData' = reqData \/ reqData' = reqData + 1
      BY <3>1 DEF do_data_recovery
    <3>5. /\ Reached(Q, C) \in Nat /\ qseq_num <= Reached(Q, C)
          /\ Decodable(Q, C) \subseteq Packet
          /\ Decodable(Q, C) = {} => Reached(Q, C) = qseq_num
          /\ \A d \in Decodable(Q, C) : qseq_num < d /\ d <= Reached(Q, C)
          /\ Decodable(Q, C) # {} =>
                \A d \in qseq_num + 1 .. Reached(Q, C) : d \in Decodable(Q, C)
      <4>1. Decodable(Q, C) \subseteq Q BY <1>1, <1>2, PassFact
      <4> QED BY <1>1, <1>2, <3>2, <4>1, PassFact DEF Buffer
    <3>6. Decodable(Q, C) = qseq_num + 1 .. Reached(Q, C)
      <4>1. CASE Decodable(Q, C) = {} BY <4>1, <1>1, <3>5
      <4>2. CASE Decodable(Q, C) # {}
        <5>1. \A d \in Decodable(Q, C) : d \in qseq_num + 1 .. Reached(Q, C)
          BY <1>1, <3>5 DEF Packet
        <5> QED BY <4>2, <5>1, <3>5
      <4> QED BY <4>1, <4>2
    <3> QED BY <1>3, <1>5, <2>2, <3>1, <3>3, <3>4, <3>5, <3>6
  <2> QED BY <2>1, <2>2
<1> QED BY <1>4, <1>5 DEF ProcessQ

\* A packet that fails is the one behind the position that the pass gets to.
LEMMA FailedNext ==
    ASSUME IInv, Joined, NEW sn \in Packet, NEW ok \in BOOLEAN, ProcessQ(sn, ok),
           NEW p \in FailedAt(sn, ok)
    PROVE  /\ p = qseq_num' + 1 /\ p \in Packet
           /\ ~ Recovering
           /\ \A r \in FailedAt(sn, ok) : r = p
<1> DEFINE Q == msg_q \cup {sn}
           C == IF ok \/ sn \in msg_q THEN corrupt ELSE corrupt \cup {sn}
           bad == Run(Q) \ Decodable(Q, C)
<1>1. /\ qseq_num \in Nat /\ msg_q \subseteq Packet /\ corrupt \subseteq msg_q
      /\ Packet \subseteq Nat
  BY DEF IInv, TypeOK, Packet
<1>2. Buffer(Q, C) BY <1>1 DEF Buffer
<1>3. /\ FailedAt(sn, ok) \subseteq bad /\ \A r \in FailedAt(sn, ok) : \A j \in bad : r <= j
      /\ ~ Recovering /\ ~ stopq /\ qseq_num < sn
  BY DEF FailedAt
<1>4. Q \subseteq Packet BY <1>1
<1>5. running = "started" BY DEF ProcessQ
<1>6. qseq_num # 0 BY <1>3, <1>5 DEF Joined, Recovering
<1>7. ~ (sn <= qseq_num \/ stopq) BY <1>1, <1>3 DEF Packet
<1>8. processq(Q, C) BY <1>7 DEF ProcessQ
<1> HIDE DEF Q, C
<1>9. p \in Run(Q) /\ p \notin Decodable(Q, C) /\ \A j \in bad : p <= j
  BY <1>3
<1>10. qseq_num' = Reached(Q, C)
  <2>1. Decodable(Q, C) # Run(Q) BY <1>9
  <2> QED BY <1>3, <1>8, <2>1
          DEF processq, DrainAll, WaitForGap, RecoverGap, SkipGap, DecodeFailure
<1>11. /\ p \in Packet /\ qseq_num < p
       /\ \A j \in qseq_num + 1 .. p : j \in Q
  BY <1>4, <1>6, <1>9 DEF Run, Fresh, NextUp
<1>12. /\ Decodable(Q, C) \subseteq Q /\ Reached(Q, C) \in Nat /\ qseq_num <= Reached(Q, C)
       /\ Decodable(Q, C) = {} => Reached(Q, C) = qseq_num
       /\ \A d \in Decodable(Q, C) : d <= Reached(Q, C)
       /\ Decodable(Q, C) # {} =>
             \A d \in qseq_num + 1 .. Reached(Q, C) : d \in Decodable(Q, C)
  BY <1>1, <1>2, <1>6, PassFact
<1>13. \A j \in qseq_num + 1 .. p - 1 : j \in Decodable(Q, C)
  <2> SUFFICES ASSUME NEW j \in qseq_num + 1 .. p - 1 PROVE j \in Decodable(Q, C)
    OBVIOUS
  <2>1. j \in Nat /\ p \in Nat /\ qseq_num < j /\ ~ (p <= j) /\ \A k \in qseq_num + 1 .. j : k \in Q
    BY <1>1, <1>11
  <2>2. j \in Run(Q)
    <3>1. j \in qseq_num + 1 .. j BY <1>1, <2>1
    <3>2. j \in Q BY <2>1, <3>1
    <3> QED BY <1>1, <1>6, <2>1, <3>2 DEF Run, Fresh, NextUp
  <2> QED BY <1>9, <2>1, <2>2
<1>14. ~ (p <= Reached(Q, C))
  <2> SUFFICES ASSUME p <= Reached(Q, C) PROVE FALSE OBVIOUS
  <2>1. p \in Nat /\ p \in qseq_num + 1 .. Reached(Q, C) BY <1>1, <1>11, <1>12
  <2>2. Decodable(Q, C) # {} BY <1>1, <1>11, <1>12, <2>1
  <2> QED BY <1>9, <1>12, <2>1, <2>2
<1>15. p = Reached(Q, C) + 1
  <2>1. p \in Nat BY <1>1, <1>11
  <2>2. CASE p = qseq_num + 1 BY <2>1, <2>2, <1>1, <1>12, <1>14
  <2>3. CASE p # qseq_num + 1
    <3>1. p - 1 \in qseq_num + 1 .. p - 1 BY <2>1, <2>3, <1>1, <1>11
    <3>2. p - 1 <= Reached(Q, C) BY <3>1, <1>12, <1>13
    <3> QED BY <2>1, <3>2, <1>12, <1>14
  <2> QED BY <2>2, <2>3
<1>16. \A r \in FailedAt(sn, ok) : r = p
  <2> SUFFICES ASSUME NEW r \in FailedAt(sn, ok) PROVE r = p OBVIOUS
  <2>1. r \in bad /\ r <= p BY <1>3, <1>9
  <2>2. r \in Packet /\ p <= r BY <1>4, <1>9, <2>1 DEF Run, Fresh
  <2> QED BY <1>1, <1>11, <2>1, <2>2
<1> QED BY <1>3, <1>10, <1>11, <1>15, <1>16

-----------------------------------------------------------------------------
(* The book's invariant is inductive *)

\* A later snapshot is not of an earlier time.
LEMMA SnapTxMono ==
    ASSUME BookTypes, NEW a \in 0..MaxSeq, NEW b \in 0..MaxSeq, a <= b
    PROVE  SnapTx(a) <= SnapTx(b)
<1> DEFINE S == {sn \in About : sn <= a}
<1>1. S \subseteq Packet
  <2> SUFFICES ASSUME NEW sn \in About, sn <= a PROVE sn \in Packet
    OBVIOUS
  <2>1. sn \in Packet \/ sn = delAt
    BY TouchingAssumption DEF About, BookTypes
  <2>2. delAt \in Nat /\ delAt > 0 /\ a \in Nat /\ a <= MaxSeq
    BY BoundAssumption DEF BookTypes
  <2> QED BY <2>1, <2>2, BoundAssumption DEF Packet
<1>2. SnapTx(a) = IF S = {} THEN 1 ELSE Tx(Greatest(S))
  BY DEF SnapTx
<1>3. SnapTx(b) \in Nat /\ SnapTx(b) # 0 /\ \A sn \in About : sn <= b => Tx(sn) <= SnapTx(b)
  BY SnapTxFact
<1>4. CASE S = {}
  BY <1>2, <1>3, <1>4
<1>5. CASE S # {}
  <2>1. Greatest(S) \in S
    <3> HIDE DEF S
    <3> QED BY <1>1, <1>5, GreatestFact
  <2>2. Greatest(S) \in About /\ Greatest(S) <= a /\ Greatest(S) \in Nat
    BY <1>1, <2>1 DEF Packet
  <2>3. Greatest(S) <= b BY <2>2
  <2> HIDE DEF S
  <2> QED BY <1>2, <1>3, <1>5, <2>2, <2>3
<1> QED BY <1>4, <1>5

\* The exchange's history of x is fixed.
LEMMA SameHistory ==
    ASSUME UNCHANGED <<addAt, delAt>>, NEW w, snapv' = w, NEW y, BookAt' = y
    PROVE  /\ About' = About
           /\ SnapTx(snapv)' = SnapTx(w)
           /\ Exchange(BookAt)' = Exchange(y)
<1>1. About' = About BY DEF About
<1>2. SnapTx(snapv)' = SnapTx(w) BY <1>1 DEF SnapTx, Tx
<1>3. Exchange(BookAt)' = Exchange(y) BY DEF Exchange
<1> QED BY <1>1, <1>2, <1>3

\* Packets reach the book: BookProcessQ keeps the invariant.
LEMMA BookProcessQStep ==
    ASSUME IInv, IInv', BookInv, dorecovery,
           NEW sn \in Packet, NEW ok \in BOOLEAN, BookProcessQ(sn, ok)
    PROVE  BookInv'
<1>1. BookTypes /\ Joined /\ LiveTimes /\ SnapTimes /\ Blank /\ BookKept
  BY DEF BookInv
<1>2. /\ qseq_num' \in Nat /\ qseq_num <= qseq_num'
      /\ decoded' = decoded \cup (qseq_num + 1 .. qseq_num')
      /\ base' = base
      /\ qseq_num # qseq_num' => ~ Recovering
      /\ in_data_recovery => in_data_recovery'
      /\ reqData' = reqData \/ reqData' = reqData + 1
      /\ running = "started"
      /\ UNCHANGED <<endData, covered, dorecovery>>
  BY <1>1, DecodedRun DEF BookProcessQ
<1>3. UNCHANGED <<addAt, delAt, lastv, snapv, stacked>>
  BY DEF BookProcessQ, snapVars
<1>a. PICK part \in SUBSET FailedAt(sn, ok) :
         /\ OBBecomes(LiveRun(OB, (decoded' \ decoded) \cup part))
         /\ torn' = IF part = {} THEN torn ELSE Least(part)
  BY DEF BookProcessQ
<1>4. /\ qseq_num \in Nat /\ decoded \subseteq Packet /\ reqData \in Nat
      /\ snapv \in Nat /\ lastv \in Nat /\ last_tx_tim \in Nat /\ last_recovery_tx_tim \in Nat
      /\ torn \in Nat /\ torn <= qseq_num + 1
      /\ \A d \in decoded : d <= qseq_num
      /\ endData \in Seq(0..MaxSeq) /\ Len(endData) \in Nat
      /\ qseq_num' <= MaxSeq
  <2>1. qseq_num' <= published' /\ published' \in 0..MaxSeq BY DEF IInv, TypeOK, ProcessorInv, PositionInv
  <2>2. endData \in Seq(0..MaxSeq) BY DEF IInv, TypeOK
  <2> QED BY <1>1, <1>2, <2>1, <2>2, LenProperties, BoundAssumption
        DEF IInv, TypeOK, ProcessorInv, PositionInv, BookTypes, Joined
<1>5. decoded' \ decoded = qseq_num + 1 .. qseq_num'
  BY <1>2, <1>4 DEF Packet
<1>g. PICK q \in Nat : q = qseq_num' /\ qseq_num <= q BY <1>2
<1>h. q \in Nat /\ q + 1 \in Nat /\ q <= q + 1 OBVIOUS
<1>i. torn <= q + 1
  <2>1. qseq_num \in Nat /\ torn \in Nat /\ torn <= qseq_num + 1 /\ qseq_num <= q BY <1>4, <1>g
  <2> QED BY <2>1
\* The packets that the book has the records of: up to e.
<1>b. \E e \in Nat : /\ q <= e /\ e <= q + 1 /\ e <= MaxSeq
                     /\ (decoded' \ decoded) \cup part = qseq_num + 1 .. e
                     /\ torn' = IF e = q THEN torn ELSE e
                     /\ e # qseq_num => ~ Recovering
  <2>1. CASE part = {}
    <3>1. torn' = torn BY <1>a, <2>1
    <3>2. (decoded' \ decoded) \cup part = qseq_num + 1 .. q BY <1>5, <1>g, <2>1
    <3>3. q <= q OBVIOUS
    <3>4. q <= MaxSeq BY <1>4, <1>g
    <3>5. q # qseq_num => ~ Recovering BY <1>2, <1>g
    <3> QED BY <1>h, <3>1, <3>2, <3>3, <3>4, <3>5
  <2>2. CASE part # {}
    <3>1. PICK p \in part : TRUE BY <2>2
    <3>2. /\ p = qseq_num' + 1 /\ p \in Packet /\ ~ Recovering
          /\ \A r \in FailedAt(sn, ok) : r = p
      BY <1>1, <3>1, FailedNext DEF BookProcessQ
    <3>3. part = {p} BY <3>1, <3>2
    <3>4. Least({p}) = p BY <3>2 DEF Least, Packet
    <3>5. torn' = p BY <1>a, <2>2, <3>3, <3>4
    <3>6. p = q + 1 BY <1>g, <3>2
    <3>7. p <= MaxSeq BY <3>2, BoundAssumption DEF Packet
    <3>8. (qseq_num + 1 .. q) \cup {p} = qseq_num + 1 .. p
      <4>1. qseq_num \in Nat /\ qseq_num <= q BY <1>4, <1>g
      <4> QED BY <3>6, <4>1
    <3>9. (decoded' \ decoded) \cup part = qseq_num + 1 .. p BY <1>5, <1>g, <3>3, <3>8
    <3>10. p \in Nat /\ q <= p /\ p <= q + 1 /\ p # q BY <3>6
    <3> QED BY <3>2, <3>5, <3>7, <3>9, <3>10
  <2> QED BY <2>1, <2>2
<1>c. PICK e \in Nat : /\ q <= e /\ e <= q + 1 /\ e <= MaxSeq
                       /\ (decoded' \ decoded) \cup part = qseq_num + 1 .. e
                       /\ torn' = IF e = q THEN torn ELSE e
                       /\ e # qseq_num => ~ Recovering
  BY <1>b
<1>j. qseq_num \in Nat /\ qseq_num <= q /\ q <= e /\ e <= q + 1 BY <1>4, <1>c, <1>g
<1>d. OBBecomes(LiveRun(OB, qseq_num + 1 .. e)) BY <1>a, <1>c
<1>6. BookAt \in Nat /\ BookAt' \in Nat /\ BookAt <= BookAt' /\ BookAt' = Later(e)
  <2>1. snapv' = snapv BY <1>3
  <2>2. PICK t : t = torn' OBVIOUS
  <2>3. t = IF e = q THEN torn ELSE e BY <1>c, <2>2
  <2>4. BookAt' = LET m == IF snapv < t THEN t ELSE snapv IN IF m < q THEN q ELSE m
    BY <1>g, <2>1, <2>2 DEF BookAt, Later
  <2>5. BookAt = LET m == IF snapv < torn THEN torn ELSE snapv
                 IN IF m < qseq_num THEN qseq_num ELSE m
    BY DEF BookAt, Later
  <2>6. Later(e) = LET m == IF snapv < torn THEN torn ELSE snapv IN IF m < e THEN e ELSE m
    BY DEF Later
  <2>7. snapv \in Nat /\ torn \in Nat BY <1>4
  <2> DEFINE Top(x, n) == LET m == IF snapv < x THEN x ELSE snapv IN IF m < n THEN n ELSE m
  <2>8. Top(t, q) \in Nat /\ Top(torn, qseq_num) \in Nat BY <1>j, <2>3, <2>7
  <2>9. Top(torn, qseq_num) <= Top(t, q) BY <1>i, <1>j, <2>3, <2>7
  <2>10. Top(t, q) = Top(torn, e)
    <3>1. CASE e = q BY <2>3, <3>1
    <3>2. CASE e # q
      <4>1. t = e /\ e = q + 1 BY <1>j, <2>3, <3>2
      <4> QED BY <1>i, <1>j, <2>7, <4>1
    <3> QED BY <3>1, <3>2
  <2>11. BookAt' = Top(t, q) /\ BookAt = Top(torn, qseq_num) /\ Later(e) = Top(torn, e)
    BY <2>4, <2>5, <2>6
  <2> HIDE DEF Top
  <2> QED BY <2>8, <2>9, <2>10, <2>11
<1>7. About' = About /\ SnapTx(snapv)' = SnapTx(snapv)
      /\ Exchange(BookAt)' = Exchange(Later(e))
  BY <1>3, <1>6, SameHistory
<1>8. Joined'
  <2>1. qseq_num' = 0 => qseq_num = 0 BY <1>2, <1>4
  <2>2. \A i \in 1..Len(endData) : endData[i] \in Nat
    <3>1. \A i \in 1..Len(endData) : endData[i] \in 0..MaxSeq BY <1>4, ElementOfSeq
    <3>2. \A x \in 0..MaxSeq : x \in Nat OBVIOUS
    <3> QED BY <3>1, <3>2
  <2>3. \A i \in 1..Len(endData) : endData[i] <= BookAt'
    BY <1>1, <1>6, <2>2 DEF Joined
  <2>4. torn' <= qseq_num' + 1
    <3>1. torn' <= q + 1 BY <1>c, <1>i, <1>j
    <3> QED BY <1>g, <3>1
  <2> QED BY <1>1, <1>2, <1>3, <2>1, <2>3, <2>4 DEF Joined
<1>e. torn' \in 0..MaxSeq
  <2>1. torn \in 0..MaxSeq BY <1>1 DEF BookTypes
  <2> QED BY <1>c, <2>1, BoundAssumption
<1>9. CASE e = qseq_num
  <2>1. qseq_num' = qseq_num BY <1>9, <1>g, <1>j
  <2>2. qseq_num + 1 .. e = {} BY <1>4, <1>9
  <2>3. LiveRun(OB, qseq_num + 1 .. e) = OB BY <2>2, LiveRunNone
  <2>4. UNCHANGED <<ordermap, last_tx_tim, last_recovery_tx_tim, is_in_recovery>>
    BY <1>1, <1>d, <2>3, OBFact DEF OBBecomes
  <2>5. decoded' = decoded
    <3>1. qseq_num + 1 .. qseq_num = {} BY <1>4
    <3> QED BY <1>2, <2>1, <3>1
  <2>6. BookAt' = BookAt BY <1>6, <1>9 DEF BookAt
  <2>7. Exchange(BookAt)' = Exchange(BookAt) BY <1>3, <2>6, SameHistory
  <2>8. BookTypes' BY <1>1, <1>3, <1>e, <2>4 DEF BookTypes
  <2>9. LiveTimes' BY <1>1, <1>3, <1>7, <2>1, <2>4, <2>5 DEF LiveTimes, Tx
  <2>10. SnapTimes' BY <1>1, <1>3, <1>7, <2>4, <2>6 DEF SnapTimes, Tx
  <2>11. Blank' BY <1>1, <1>2, <1>4, <2>4 DEF Blank
  <2>12. BookKept' BY <1>1, <1>3, <2>4, <2>7 DEF BookKept, Holds
  <2> QED BY <1>8, <2>8, <2>9, <2>10, <2>11, <2>12 DEF BookInv
<1>10. CASE e # qseq_num
  <2> DEFINE S == qseq_num + 1 .. e
             h == LiveRun(OB, S)
  <2>1. e \in Packet /\ qseq_num < e
    BY <1>10, <1>c, <1>j, BoundAssumption DEF Packet
  <2>2. last_recovery_tx_tim # 0
    <3>1. ~ in_data_recovery BY <1>c, <1>10 DEF Recovering
    <3>2. reqData = 0 BY <3>1, <1>4 DEF IInv, ProcessorInv, FlagInv
    <3> QED BY <1>1, <1>2, <3>2 DEF Blank
  <2>3. /\ h \in Books
        /\ h.rec = last_recovery_tx_tim
        /\ Holds(h.orders, Later(e))
        /\ h.tx # 0 => \E d \in Packet : d \in About /\ d <= e /\ h.tx = Tx(d)
        /\ last_tx_tim <= h.tx
        /\ \A d \in S : d \in About => Tx(d) <= h.tx
    BY <1>1, <2>1, <2>2, RunKeeps
  <2>4. ordermap' = h.orders /\ last_tx_tim' = h.tx /\ last_recovery_tx_tim' = h.rec
        /\ is_in_recovery' = h.inrec
    BY <1>d DEF OBBecomes
  <2> HIDE DEF h
  <2>5. h.orders \subseteq {"base", "x"} /\ h.tx \in Nat /\ h.inrec \in BOOLEAN
    BY <2>3 DEF Books
  <2>6. BookTypes' BY <1>1, <1>3, <1>e, <2>3, <2>4, <2>5 DEF BookTypes
  <2>7. LiveTimes'
    <3>1. last_tx_tim' # 0 =>
             \E d \in Packet : d \in About' /\ d <= qseq_num' + 1 /\ last_tx_tim' = Tx(d)
      <4>a. e <= q + 1 /\ q + 1 \in Nat BY <1>h, <1>j
      <4>b. \A d \in Packet : d <= e => d <= q + 1 BY <4>a DEF Packet
      <4>1. \A d \in Packet : d <= e => d <= qseq_num' + 1 BY <1>g, <4>b
      <4> QED BY <1>7, <2>3, <2>4, <4>1
    <3>2. ASSUME NEW d \in decoded', d \in About PROVE Tx(d) <= last_tx_tim' \/ d <= lastv'
      <4>1. CASE d \in qseq_num + 1 .. qseq_num'
        <5>1. d \in qseq_num + 1 .. q BY <4>1, <1>g
        <5>2. d \in S BY <5>1, <1>j
        <5> QED BY <5>2, <3>2, <2>3, <2>4
      <4>2. CASE d \in decoded
        <5>1. Tx(d) <= last_tx_tim \/ d <= lastv BY <4>2, <3>2, <1>1 DEF LiveTimes
        <5>2. Tx(d) \in Nat BY <4>2, <1>4 DEF Packet, Tx
        <5> QED BY <5>1, <5>2, <1>3, <1>4, <2>3, <2>4, <2>5
      <4> QED BY <4>1, <4>2, <1>2
    <3> QED BY <3>1, <3>2, <1>7 DEF LiveTimes, Tx
  <2>8. SnapTimes'
    <3>1. last_recovery_tx_tim <= BookAt + 1 BY <1>1 DEF SnapTimes, Tx
    <3>2. last_recovery_tx_tim' <= BookAt' + 1 BY <3>1, <1>4, <1>6, <2>3, <2>4
    <3> QED BY <3>2, <1>1, <1>3, <1>7, <2>3, <2>4 DEF SnapTimes, Tx
  <2>9. Blank' BY <2>2, <2>3, <2>4 DEF Blank
  <2>10. BookKept' BY <1>3, <1>7, <2>3, <2>4 DEF BookKept, Holds
  <2> QED BY <1>8, <2>6, <2>7, <2>8, <2>9, <2>10 DEF BookInv
<1> QED BY <1>9, <1>10

\* A snapshot is replayed into the book and answered: BookAnswerData keeps the
\* invariant, whether the gate lets the snapshot in or not.
LEMMA BookAnswerStep ==
    ASSUME IInv, BookInv, dorecovery, NEW last \in Packet, NEW v \in Packet, BookAnswerData(last, v)
    PROVE  BookInv'
<1> DEFINE h == Snapshot(OB, v)
           old == last_tx_tim # 0 /\ SnapTx(v) < last_tx_tim
<1>1. BookTypes /\ Joined /\ LiveTimes /\ SnapTimes /\ Blank /\ BookKept
  BY DEF BookInv
<1>2. /\ qseq_num \in Nat /\ decoded \subseteq Packet /\ reqData \in Nat /\ covered \in Nat
      /\ snapv \in Nat /\ lastv \in Nat /\ last_tx_tim \in Nat /\ last_recovery_tx_tim \in Nat
      /\ torn \in Nat /\ torn <= qseq_num + 1
      /\ snapv <= lastv /\ MaxSeq \in Nat
      /\ last \in Nat /\ v \in Nat /\ v > 0 /\ v \in 0..MaxSeq
      /\ \A d \in decoded : d <= qseq_num
  BY <1>1, BoundAssumption DEF IInv, TypeOK, ProcessorInv, PositionInv, BookTypes, Packet, Joined
<1>3. /\ reqData > 0 /\ 1 <= last /\ last <= v /\ lastv <= v /\ lastv' = v
      /\ OBBecomes(h) /\ endData' = Append(endData, last)
      /\ UNCHANGED <<addAt, delAt, dorecovery, qseq_num, running, in_data_recovery, decoded, covered, base>>
  BY DEF BookAnswerData, AnswerData, mpVars, histVars
<1>4. Len(endData') = 1 /\ endData'[1] = last
  <2>1. endData \in Seq(0..MaxSeq) BY DEF IInv, TypeOK
  <2>2. Len(endData) = 0
    <3>1. Len(endData) \in Nat BY <2>1, LenProperties
    <3> QED BY <3>1, <1>2, <1>3 DEF IInv, ProcessorInv, FlagInv
  <2>3. last \in 0..MaxSeq BY <1>2 DEF Packet
  <2> QED BY <1>3, <2>1, <2>2, <2>3, AppendProperties
<1>5. /\ h \in Books /\ h.tx = last_tx_tim /\ h.rec = SnapTx(v)
      /\ snapv' = IF old THEN snapv ELSE v
      /\ stacked' = IF old THEN stacked ELSE is_in_recovery /\ ordermap # {}
      /\ torn' = IF old THEN torn ELSE 0
      /\ old => h.orders = ordermap
      /\ ~ old => Exchange(v) \subseteq h.orders
      /\ ~ old /\ (~ is_in_recovery \/ ordermap = {}) => h.orders = Exchange(v)
  <2>1. PICK b : b = OB OBVIOUS
  <2>2. /\ b \in Books /\ b.orders = ordermap /\ b.tx = last_tx_tim /\ b.inrec = is_in_recovery
    BY <1>1, <2>1, OBFact
  <2>3. LET first == SnapshotRecord(v, "base")
        IN /\ Snapshot(b, v) \in Books
           /\ Snapshot(b, v).tx = b.tx /\ Snapshot(b, v).rec = SnapTx(v)
           /\ Rejected(Stamp(b, first), first) <=> (b.tx # 0 /\ SnapTx(v) < b.tx)
           /\ b.tx # 0 /\ SnapTx(v) < b.tx => Snapshot(b, v).orders = b.orders
           /\ ~ (b.tx # 0 /\ SnapTx(v) < b.tx) => Exchange(v) \subseteq Snapshot(b, v).orders
           /\ ~ (b.tx # 0 /\ SnapTx(v) < b.tx) /\ (~ b.inrec \/ b.orders = {})
                => Snapshot(b, v).orders = Exchange(v)
    BY <1>1, <1>2, <2>2, SnapshotFact
  <2>4. LET first == SnapshotRecord(v, "base")
            taken == ~ Rejected(Stamp(b, first), first)
        IN /\ snapv' = IF taken THEN v ELSE snapv
           /\ stacked' = IF taken THEN is_in_recovery /\ ordermap # {} ELSE stacked
           /\ torn' = IF taken THEN 0 ELSE torn
    BY <2>1 DEF BookAnswerData
  <2> QED BY <2>1, <2>2, <2>3, <2>4
<1>6. ordermap' = h.orders /\ last_tx_tim' = h.tx /\ last_recovery_tx_tim' = h.rec
      /\ is_in_recovery' = h.inrec
  BY <1>3 DEF OBBecomes
<1> HIDE DEF h
<1>7. /\ SnapTx(v) \in Nat /\ SnapTx(v) # 0 /\ SnapTx(v) <= v + 1
      /\ \A d \in About : d <= v => d + 1 <= SnapTx(v)
  BY <1>1, <1>2, SnapTxFact DEF Tx
<1>8. /\ snapv' \in Nat /\ snapv' > 0 /\ snapv' <= v
      /\ BookAt' \in Nat /\ last <= BookAt'
      /\ SnapTx(v) <= BookAt' + 1
      /\ SnapTx(snapv') <= SnapTx(v)
      /\ Exchange(BookAt') \subseteq ordermap'
      /\ stacked' \/ ordermap' = Exchange(BookAt')
      /\ torn' \in 0..MaxSeq /\ torn' <= qseq_num + 1
  <2>a. torn \in 0..MaxSeq BY <1>1 DEF BookTypes
  <2>1. CASE old
    <3>1. PICK d \in Packet : d \in About /\ d <= qseq_num + 1 /\ last_tx_tim = d + 1
      BY <1>1, <2>1 DEF LiveTimes, Tx
    <3>2. d \in Nat BY <1>2 DEF Packet
    <3>3. v < d
      <4>1. d <= v => d + 1 <= SnapTx(v) BY <1>7, <3>1
      <4> QED BY <4>1, <1>2, <1>7, <2>1, <3>1, <3>2
    <3>4. /\ snapv' = snapv /\ torn' = torn /\ v <= qseq_num
          /\ BookAt' = BookAt /\ BookAt \in Nat /\ qseq_num <= BookAt
      BY <1>2, <1>3, <1>5, <2>1, <3>1, <3>2, <3>3 DEF BookAt, Later
    <3>5. last_recovery_tx_tim # 0 BY <1>1, <2>1 DEF Blank
    <3>6. snapv > 0 /\ Holds(ordermap, BookAt)
      BY <1>1, <3>5 DEF SnapTimes, BookKept
    <3>7. SnapTx(snapv) <= SnapTx(v) BY <1>1, <1>2, <1>3, SnapTxMono DEF BookTypes
    <3>8. SnapTx(v) <= BookAt' + 1 /\ last <= BookAt' BY <1>2, <1>3, <1>7, <3>4
    <3>9. stacked' = stacked /\ ordermap' = ordermap BY <1>5, <1>6, <2>1
    <3>10. Exchange(BookAt') \subseteq ordermap' /\ (stacked' \/ ordermap' = Exchange(BookAt'))
      BY <3>4, <3>6, <3>9 DEF Holds
    <3> QED BY <1>2, <1>3, <2>a, <3>4, <3>6, <3>7, <3>8, <3>10
  <2>2. CASE ~ old
    <3>1. snapv' = v /\ torn' = 0 BY <1>5, <2>2
    <3>2. /\ BookAt' = IF v < qseq_num THEN qseq_num ELSE v
          /\ BookAt' \in Nat /\ v <= BookAt'
      BY <1>2, <1>3, <3>1 DEF BookAt, Later
    <3>3. Exchange(v) = Exchange(BookAt')
      <4>1. PICK y : y = BookAt' OBVIOUS
      <4>2. ASSUME NEW d \in v + 1 .. y, d \in About PROVE FALSE
        <5>1. d \in Packet /\ d <= qseq_num /\ v < d /\ d \in Nat
          <6>1. d \in Nat /\ v < d /\ d <= qseq_num BY <1>2, <3>2, <4>1, <4>2
          <6>2. qseq_num <= MaxSeq
            BY <1>2 DEF IInv, TypeOK, ProcessorInv, PositionInv
          <6> QED BY <6>1, <6>2, <1>2 DEF Packet
        <5>2. base < d BY <1>1, <1>2, <5>1 DEF Joined
        <5>3. d \in decoded \/ d <= covered
          BY <5>1, <5>2 DEF IInv, ProcessorInv, NoSilentLoss
        <5>4. covered <= lastv BY <1>1 DEF Joined
        <5>5. d \in decoded BY <5>1, <5>3, <5>4, <1>2, <1>3
        <5>6. d + 1 <= last_tx_tim \/ d <= lastv BY <1>1, <4>2, <5>5 DEF LiveTimes, Tx
        <5> QED BY <1>2, <1>3, <1>7, <2>2, <5>1, <5>6
      <4> QED BY <1>1, <1>2, <3>2, <4>1, <4>2, ExchangeSame
    <3>4. stacked' \/ ordermap' = Exchange(v) BY <1>1, <1>5, <1>6, <2>2 DEF BookTypes
    <3>5. Exchange(v) \subseteq ordermap' BY <1>5, <1>6, <2>2
    <3>6. torn' \in 0..MaxSeq /\ torn' <= qseq_num + 1 BY <1>2, <3>1
    <3>7. Exchange(BookAt') \subseteq ordermap' BY <3>3, <3>5
    <3> QED BY <1>2, <1>3, <1>7, <3>1, <3>2, <3>3, <3>4, <3>6, <3>7
  <2> QED BY <2>1, <2>2
<1>9. About' = About /\ SnapTx(snapv)' = SnapTx(snapv') /\ Exchange(BookAt)' = Exchange(BookAt')
  <2>1. PICK w, y : w = snapv' /\ y = BookAt' OBVIOUS
  <2> QED BY <1>3, <2>1, SameHistory
<1>10. BookTypes'
  <2>1. h.orders \subseteq {"base", "x"} /\ h.inrec \in BOOLEAN BY <1>5 DEF Books
  <2>2. stacked' \in BOOLEAN BY <1>1, <1>5 DEF BookTypes
  <2>3. lastv' \in 0..MaxSeq /\ snapv' \in 0..MaxSeq /\ snapv' <= lastv' BY <1>2, <1>3, <1>8
  <2> QED BY <1>1, <1>2, <1>3, <1>5, <1>6, <1>7, <1>8, <2>1, <2>2, <2>3 DEF BookTypes
<1>11. Joined'
  <2>1. covered <= v BY <1>1, <1>2, <1>3 DEF Joined
  <2> QED BY <1>1, <1>3, <1>4, <1>8, <2>1 DEF Joined
<1>12. LiveTimes'
  <2>1. \A d \in decoded : d <= lastv => d <= v BY <1>2, <1>3 DEF Packet
  <2> QED BY <1>1, <1>3, <1>5, <1>6, <1>9, <2>1 DEF LiveTimes, Tx
<1>13. SnapTimes' BY <1>5, <1>6, <1>8, <1>9 DEF SnapTimes, Tx
<1>14. Blank' BY <1>5, <1>6, <1>7 DEF Blank
<1>15. BookKept' BY <1>8, <1>9 DEF BookKept, Holds
<1> QED BY <1>10, <1>11, <1>12, <1>13, <1>14, <1>15 DEF BookInv

\* CLEAR in the middle of a recovery empties the book and forgets both times;
\* the snapshot still to come covers what was decoded.
LEMMA BookRestartStep ==
    ASSUME IInv, BookInv, dorecovery, NEW v \in Packet, BookRestart(v)
    PROVE  BookInv'
<1>1. BookTypes /\ Joined /\ LiveTimes /\ SnapTimes /\ Blank /\ BookKept
  BY DEF BookInv
<1>2. /\ reqData > 0 /\ lastv <= v /\ qseq_num <= v /\ lastv' = v
      /\ ordermap' = {} /\ last_tx_tim' = 0 /\ last_recovery_tx_tim' = 0 /\ stacked' = FALSE
      /\ torn' = 0
      /\ is_in_recovery' \in {is_in_recovery, TRUE}
      /\ UNCHANGED <<addAt, delAt, snapv, dorecovery, qseq_num, running, in_data_recovery, decoded,
                     covered, base, reqData, endData>>
  BY DEF BookRestart, vars, mpVars, mailVars, histVars
<1>3. /\ qseq_num \in Nat /\ decoded \subseteq Packet /\ reqData \in Nat /\ covered \in Nat
      /\ snapv \in Nat /\ lastv \in Nat /\ snapv <= lastv /\ v \in 0..MaxSeq
      /\ \A d \in decoded : d <= qseq_num
  BY <1>1, BoundAssumption DEF IInv, TypeOK, ProcessorInv, PositionInv, BookTypes, Packet
<1>4. Len(endData) = 0
  <2>1. Len(endData) \in Nat BY LenProperties DEF IInv, TypeOK
  <2> QED BY <2>1, <1>2, <1>3 DEF IInv, ProcessorInv, FlagInv
<1>5. BookTypes'
  <2>1. snapv <= v BY <1>2, <1>3
  <2>2. is_in_recovery \in BOOLEAN BY <1>1 DEF BookTypes
  <2>3. is_in_recovery' \in BOOLEAN BY <1>2, <2>2
  <2>4. torn' \in 0..MaxSeq BY <1>2, BoundAssumption
  <2> QED BY <1>1, <1>2, <1>3, <2>1, <2>3, <2>4 DEF BookTypes
<1>6. Joined'
  <2>1. covered <= v BY <1>1, <1>2, <1>3 DEF Joined
  <2>2. torn' <= qseq_num' + 1 BY <1>2, <1>3
  <2> QED BY <1>1, <1>2, <1>4, <2>1, <2>2 DEF Joined
<1>7. LiveTimes'
  <2>1. \A d \in decoded : d <= v BY <1>2, <1>3 DEF Packet
  <2> QED BY <1>2, <2>1 DEF LiveTimes
<1>8. SnapTimes' BY <1>2, <1>3 DEF SnapTimes, BookAt, Later, Tx
<1>9. Blank' /\ BookKept' BY <1>2 DEF Blank, BookKept
<1> QED BY <1>5, <1>6, <1>7, <1>8, <1>9 DEF BookInv

\* An answer is handled: the position moves up to the book's at most.
LEMMA BookEndStep ==
    ASSUME IInv, BookInv, dorecovery, Unseen(EndDataRecovery)
    PROVE  BookInv'
<1>1. BookTypes /\ Joined /\ LiveTimes /\ SnapTimes /\ Blank /\ BookKept
  BY DEF BookInv
<1> DEFINE last == Head(endData)
<1>2. /\ endData # <<>> /\ endData' = Tail(endData)
      /\ qseq_num' = IF qseq_num < last THEN last ELSE qseq_num
      /\ covered' = IF covered < last THEN last ELSE covered
      /\ UNCHANGED <<addAt, delAt, snapv, lastv, stacked, torn, ordermap, last_tx_tim, last_recovery_tx_tim,
                     is_in_recovery, dorecovery, running, decoded, base, reqData>>
  BY DEF Unseen, EndDataRecovery, obVars, snapVars
<1>3. /\ qseq_num \in Nat /\ reqData \in Nat /\ covered \in Nat /\ snapv \in Nat /\ lastv \in Nat
      /\ endData \in Seq(0..MaxSeq) /\ torn \in Nat /\ torn <= qseq_num + 1
  BY <1>1, BoundAssumption DEF IInv, TypeOK, BookTypes, Joined
<1>4. /\ last = endData[1] /\ last \in Nat
      /\ Len(endData) = 1 /\ Len(endData') = 0 /\ reqData = 0
  <2>1. /\ Head(endData) \in 0..MaxSeq /\ Len(Tail(endData)) = Len(endData) - 1
        /\ Len(endData) \in Nat \ {0} /\ Head(endData) = endData[1]
    <3>1. Head(endData) \in 0..MaxSeq /\ Len(Tail(endData)) = Len(endData) - 1
          /\ Tail(endData) \in Seq(0..MaxSeq)
      BY <1>2, <1>3, HeadTailProperties
    <3>2. Len(endData) \in Nat /\ Len(Tail(endData)) \in Nat BY <1>3, <3>1, LenProperties
    <3>3. Head(endData) = endData[1] BY <1>3
    <3> QED BY <3>1, <3>2, <3>3
  <2>2. Len(endData) = 1 /\ reqData = 0
    BY <2>1, <1>3 DEF IInv, TypeOK, ProcessorInv, FlagInv
  <2> QED BY <1>2, <2>1, <2>2
<1> HIDE DEF last
<1>5. 1 <= last /\ last <= lastv /\ last <= BookAt BY <1>1, <1>4 DEF Joined
<1>6. BookAt' = BookAt BY <1>2, <1>3, <1>4, <1>5 DEF BookAt, Later
<1>7. About' = About /\ SnapTx(snapv)' = SnapTx(snapv) /\ Exchange(BookAt)' = Exchange(BookAt)
  BY <1>2, <1>6, SameHistory
<1>8. BookTypes' BY <1>1, <1>2 DEF BookTypes
<1>9. Joined'
  <2>1. qseq_num' # 0 /\ covered' <= lastv /\ torn' <= qseq_num' + 1 BY <1>1, <1>2, <1>3, <1>4, <1>5 DEF Joined
  <2>2. \A i \in 1..Len(endData') : FALSE BY <1>4
  <2> QED BY <1>1, <1>2, <2>1, <2>2 DEF Joined
<1>10. LiveTimes'
  <2>1. \A sn \in Packet : sn <= qseq_num + 1 => sn <= qseq_num' + 1
    BY <1>2, <1>3, <1>4 DEF Packet
  <2> QED BY <1>1, <1>2, <1>7, <2>1 DEF LiveTimes, Tx
<1>11. SnapTimes' BY <1>1, <1>2, <1>6, <1>7 DEF SnapTimes, Tx
<1>12. Blank' /\ BookKept' BY <1>1, <1>2, <1>7 DEF Blank, BookKept, Holds
<1> QED BY <1>8, <1>9, <1>10, <1>11, <1>12 DEF BookInv

\* What the book's invariant is about.
bookFrame == <<obVars, addAt, delAt, snapVars, torn, dorecovery, qseq_num, running, in_data_recovery,
               reqData, endData, decoded, covered, base>>

\* A step that leaves all that as it is keeps the invariant.
LEMMA BookFrameStep ==
    ASSUME BookInv, UNCHANGED bookFrame
    PROVE  BookInv'
<1>1. UNCHANGED <<addAt, delAt, snapv, lastv, stacked, torn, ordermap, last_tx_tim, last_recovery_tx_tim,
                  is_in_recovery, dorecovery, qseq_num, running, in_data_recovery, reqData, endData,
                  decoded, covered, base>>
  BY DEF bookFrame, obVars, snapVars
<1>2. BookAt' = BookAt BY <1>1 DEF BookAt, Later
<1>3. About' = About /\ SnapTx(snapv)' = SnapTx(snapv) /\ Exchange(BookAt)' = Exchange(BookAt)
  BY <1>1, <1>2, SameHistory
<1>4. BookTypes => BookTypes' BY <1>1 DEF BookTypes
<1>5. Joined => Joined' BY <1>1, <1>2 DEF Joined
<1>6. LiveTimes => LiveTimes' BY <1>1, <1>3 DEF LiveTimes, Tx
<1>7. SnapTimes => SnapTimes' BY <1>1, <1>2, <1>3 DEF SnapTimes, Tx
<1>8. Blank /\ BookKept => Blank' /\ BookKept' BY <1>1, <1>3 DEF Blank, BookKept, Holds
<1> QED BY <1>1, <1>4, <1>5, <1>6, <1>7, <1>8 DEF BookInv

\* A step of the composition is one of the arbitration, or invisible to it.
LEMMA BookNextIsNext == BookNext => [Next]_vars
<1> SUFFICES ASSUME BookNext PROVE Next \/ UNCHANGED vars
  OBVIOUS
<1>1. ASSUME NEW last \in Packet, NEW v \in Packet, BookAnswerData(last, v) PROVE Next
  <2>1. last \in 0..MaxSeq BY BoundAssumption DEF Packet
  <2> QED BY <1>1, <2>1 DEF BookAnswerData, Answer, Next
<1>2. ASSUME NEW sn \in Packet, NEW ok \in BOOLEAN, BookProcessQ(sn, ok) PROVE Next
  BY <1>2 DEF BookProcessQ, Next
<1>3. ASSUME NEW v \in Packet, BookRestart(v) PROVE UNCHANGED vars
  BY <1>3 DEF BookRestart
<1>4. Unseen(Start \/ Publish \/ EndRecovery \/ AnswerInstr) => Next
  BY DEF Unseen, Answer, Next
<1> QED BY <1>1, <1>2, <1>3, <1>4 DEF BookNext

\* dorecovery is set once, by the constructor.
LEMMA DoRecoveryFixed == BookNext => dorecovery' = dorecovery
<1>1. Next => dorecovery' = dorecovery
  <2>1. \A sn, ok : ProcessQ(sn, ok) => dorecovery' = dorecovery BY DEF ProcessQ, mpVars
  <2> QED BY <2>1 DEF Next, Start, Publish, EndRecovery, EndDataRecovery, EndInstrumentRecovery,
                      Answer, AnswerInstr, AnswerData, SetStopQ, mpVars
<1>2. UNCHANGED vars => dorecovery' = dorecovery BY DEF vars, mpVars
<1> QED BY <1>1, <1>2, BookNextIsNext

\* The start request puts an empty book in wait of its first snapshot.
LEMMA BookStartStep ==
    ASSUME OnStart, IInv, BookInv, dorecovery, Unseen(Start)
    PROVE  BookInv'
<1>1. BookTypes /\ Joined /\ LiveTimes /\ SnapTimes /\ Blank /\ BookKept
  BY DEF BookInv
<1>2. /\ in_data_recovery' = TRUE /\ reqData' = 1 /\ running = "new"
      /\ UNCHANGED <<addAt, delAt, snapv, lastv, stacked, torn, ordermap, last_tx_tim, last_recovery_tx_tim,
                     is_in_recovery, dorecovery, qseq_num, endData, decoded, covered, base>>
  BY DEF Unseen, Start, obVars, snapVars, histVars
<1>3. BookAt' = BookAt BY <1>2 DEF BookAt, Later
<1>4. About' = About /\ SnapTx(snapv)' = SnapTx(snapv) /\ Exchange(BookAt)' = Exchange(BookAt)
  BY <1>2, <1>3, SameHistory
<1>5. BookTypes' /\ Joined' BY <1>1, <1>2, <1>3 DEF BookTypes, Joined
<1>6. LiveTimes' BY <1>1, <1>2, <1>4 DEF LiveTimes, Tx
<1>7. SnapTimes' BY <1>1, <1>2, <1>3, <1>4 DEF SnapTimes, Tx
<1>8. Blank' /\ BookKept' BY <1>1, <1>2, <1>4 DEF Blank, BookKept, Holds
<1> QED BY <1>5, <1>6, <1>7, <1>8 DEF BookInv

\* Every step of the composition keeps the book's invariant.
LEMMA BookStep ==
    ASSUME OnStart, IInv, IInv', BookInv, BookNext
    PROVE  BookInv'
<1> SUFFICES ASSUME dorecovery PROVE BookInv'
  BY DoRecoveryFixed DEF BookInv
<1>1. CASE Unseen(Publish) \/ Unseen(EndInstrumentRecovery) \/ Unseen(AnswerInstr)
  <2>1. UNCHANGED bookFrame
    BY <1>1 DEF bookFrame, Unseen, Publish, EndInstrumentRecovery, AnswerInstr, mpVars, mailVars, histVars
  <2> QED BY <2>1, BookFrameStep
<1>2. Unseen(Start \/ Publish \/ EndRecovery \/ AnswerInstr) =>
        \/ Unseen(Start) \/ Unseen(EndDataRecovery)
        \/ Unseen(Publish) \/ Unseen(EndInstrumentRecovery) \/ Unseen(AnswerInstr)
  BY DEF Unseen, EndRecovery
<1> QED BY <1>1, <1>2, BookProcessQStep, BookAnswerStep, BookRestartStep, BookEndStep, BookStartStep
        DEF BookNext

\* Nothing is in the book before the first snapshot.
LEMMA BookInvInit == BookInit => BookInv
<1> SUFFICES ASSUME BookInit PROVE BookTypes /\ Joined /\ LiveTimes /\ SnapTimes /\ Blank /\ BookKept
  BY DEF BookInv
<1>1. Init /\ ordermap = {} /\ last_tx_tim = 0 /\ last_recovery_tx_tim = 0
      /\ is_in_recovery = FALSE /\ lastv = 0 /\ snapv = 0 /\ stacked = FALSE /\ torn = 0
      /\ addAt \in Packet /\ delAt \in 2..MaxSeq + 1 /\ delAt > addAt
  BY DEF BookInit
<1>2. BookTypes
  <2>1. delAt \in 1..MaxSeq + 1 /\ addAt < delAt /\ 0 \in 0..MaxSeq
    BY <1>1, BoundAssumption DEF Packet
  <2>2. lastv \in 0..MaxSeq /\ snapv \in 0..MaxSeq /\ snapv <= lastv BY <1>1, <2>1
  <2>3. /\ ordermap \subseteq {"base", "x"} /\ is_in_recovery \in BOOLEAN /\ stacked \in BOOLEAN
        /\ last_tx_tim \in Nat /\ last_recovery_tx_tim \in Nat
    BY <1>1
  <2> QED BY <1>1, <2>1, <2>2, <2>3 DEF BookTypes
<1>3. Joined
  <2>1. Len(endData) = 0 BY <1>1 DEF Init
  <2> QED BY <1>1, <2>1 DEF Init, Joined
<1>4. LiveTimes BY <1>1 DEF Init, LiveTimes
<1>5. SnapTimes BY <1>1 DEF Init, SnapTimes, BookAt, Later, Tx
<1>6. Blank /\ BookKept BY <1>1 DEF Init, Blank, BookKept
<1> QED BY <1>2, <1>3, <1>4, <1>5, <1>6

\* The composition implements the arbitration, so that what is proved of the
\* one holds of the other.
THEOREM BookRefinesArbitration == BookSpec => Spec
<1>1. BookInit => Init BY DEF BookInit
<1>2. [BookNext]_bookVars => [Next]_vars BY BookNextIsNext DEF bookVars
<1> QED BY <1>1, <1>2, PTL DEF BookSpec, Spec

\* With a recovery at the start, as kaspr always asks for, the book has every
\* order of the exchange's whenever no recovery is under way and the arbitration
\* has caught up with the book's snapshot, and no other unless that snapshot was
\* loaded on top of another one (data_handler's time gates and clear, the
\* arbitration's position, packets that fail half-way and come again).
THEOREM BookCorrectHolds ==
    ASSUME OnStart
    PROVE  BookSpec => []BookCorrect
<1>1. BookInit => IInv /\ BookInv
  BY InitIInv, BookInvInit DEF BookInit
<1>2. IInv /\ BookInv /\ [BookNext]_bookVars => IInv' /\ BookInv'
  <2> SUFFICES ASSUME IInv, BookInv, [BookNext]_bookVars PROVE IInv' /\ BookInv'
    OBVIOUS
  <2>1. CASE BookNext
    <3>1. [Next]_vars BY <2>1, BookNextIsNext
    <3>2. IInv' BY <3>1, NextIInv, StutterIInv
    <3> QED BY <2>1, <3>2, BookStep
  <2>2. CASE UNCHANGED bookVars
    <3>1. UNCHANGED vars /\ UNCHANGED bookFrame
      BY <2>2 DEF bookVars, bookFrame, vars, mpVars, mailVars, histVars
    <3> QED BY <3>1, StutterIInv, BookFrameStep
  <2> QED BY <2>1, <2>2
<1>3. IInv /\ BookInv => BookCorrect
  <2> SUFFICES ASSUME IInv, BookInv, dorecovery, running = "started", ~ Recovering,
                      snapv > 0, qseq_num >= snapv
               PROVE  Holds(ordermap, Followed)
    BY DEF BookCorrect, Holds
  <2>1. BookTypes /\ Blank /\ BookKept BY DEF BookInv
  <2>2. reqData = 0
    <3>1. Len(endData) \in Nat BY LenProperties DEF IInv, TypeOK
    <3> QED BY <3>1 DEF IInv, TypeOK, ProcessorInv, FlagInv, Recovering
  <2>3. last_recovery_tx_tim # 0 BY <2>1, <2>2 DEF Blank
  <2>4. BookAt = Followed
    <3>1. qseq_num \in Nat /\ snapv \in Nat /\ torn \in Nat
      BY <2>1 DEF IInv, TypeOK, BookTypes
    <3> QED BY <3>1 DEF BookAt, Later, Followed
  <2> QED BY <2>1, <2>3, <2>4 DEF BookKept
<1> QED BY <1>1, <1>2, <1>3, PTL DEF BookSpec
=============================================================================

-------------------------- MODULE MessageProcessor --------------------------
(***************************************************************************)
(* mdp3::MessageProcessor: arbitrates the merged A/B packets of one MDP3   *)
(* channel, hands them to the decoder in sequence, and asks the            *)
(* RecoveryProcessor for a snapshot when a gap does not close or a packet  *)
(* does not decode.                                                        *)
(*                                                                         *)
(* The feed is UDP multicast: a published packet may arrive any number of  *)
(* times, in any order, or never, and a copy may be corrupt.  The handlers *)
(* run under the actor's fast_send mutex (packets on the MsgBuf's thread,  *)
(* the ends of recoveries on the actor's own), so each is one step.        *)
(***************************************************************************)
EXTENDS Integers, Sequences

CONSTANTS
    MaxSeq,         \* bound: packets the exchange publishes
    MaxRecoveries,  \* bound: recoveries the model follows
    Corruptible,    \* packets a copy of which may arrive undecodable
    MaxWait,        \* maxwaitcnt
    HasRecovery,    \* recovery_processor # nullptr
    OnStart         \* data_recoveryonstart

ASSUME BoundAssumption == MaxSeq \in Nat /\ MaxRecoveries \in Nat
ASSUME MaxWaitAssumption == MaxWait \in Nat \ {0}
ASSUME FlagAssumption ==
    /\ HasRecovery \in BOOLEAN /\ OnStart \in BOOLEAN
    /\ OnStart => HasRecovery

VARIABLES
    dorecovery,         \* a gap is recovered, not skipped (set once, by the constructor)
    qseq_num,           \* last sequence number handed to the decoder
    msg_q,              \* sequence numbers of the buffered packets
    corrupt,            \* buffered packets that will not decode
    waitcnt,            \* arrivals left before a gap counts as lost
    in_data_recovery, in_instr_recovery,
    stopq,              \* the console has stopped the queue
    numdrecoveries,
    running             \* "new", "started", or "crashed" (null recovery_processor)

\* The messages between the two actors: requests the RecoveryProcessor has not
\* answered, and answers not handled yet (EndDataRecovery by its last_seq).
VARIABLES reqData, reqInstr, endData, endInstr

\* Histories: the packets published, decoded, and covered by a snapshot; the
\* packet before the one at which the channel was joined without a snapshot.
VARIABLES published, decoded, covered, base

mpVars == <<dorecovery, qseq_num, msg_q, corrupt, waitcnt, in_data_recovery,
            in_instr_recovery, stopq, numdrecoveries, running>>
mailVars == <<reqData, reqInstr, endData, endInstr>>
histVars == <<published, decoded, covered, base>>
vars == <<mpVars, mailVars, histVars>>

Packet == 1..MaxSeq

Least(S) == CHOOSE x \in S : \A y \in S : x <= y
Greatest(S) == CHOOSE x \in S : \A y \in S : y <= x

Init ==
    /\ dorecovery \in {b \in BOOLEAN : b => HasRecovery}
    /\ qseq_num = 0
    /\ msg_q = {}
    /\ corrupt = {}
    /\ waitcnt = MaxWait
    /\ in_data_recovery = FALSE
    /\ in_instr_recovery = FALSE
    /\ stopq = FALSE
    /\ numdrecoveries = 0
    /\ running = "new"
    /\ reqData = 0
    /\ reqInstr = 0
    /\ endData = <<>>
    /\ endInstr = 0
    /\ published = 0
    /\ decoded = {}
    /\ covered = 0
    /\ base = 0

-----------------------------------------------------------------------------
(* start_handler: Manager::init delivers Start before any thread runs. *)

Start ==
    /\ running = "new"
    /\ running' = "started"
    /\ in_instr_recovery' = HasRecovery
    /\ reqInstr' = IF HasRecovery THEN 1 ELSE 0
    /\ in_data_recovery' = OnStart
    /\ reqData' = IF OnStart THEN 1 ELSE 0
    /\ numdrecoveries' = IF OnStart THEN 1 ELSE 0
    /\ waitcnt' = IF OnStart THEN MaxWait ELSE waitcnt
    /\ UNCHANGED <<dorecovery, qseq_num, msg_q, corrupt, stopq, endData, endInstr, histVars>>

-----------------------------------------------------------------------------
(* processq: what one pass over the sorted buffer does.                    *)

\* Mutant of Recovering: `&&' instead of `||'.
RecoveringBoth == in_data_recovery /\ in_instr_recovery

\* Decoding waits for every recovery under way.
Recovering == in_data_recovery \/ in_instr_recovery

Fresh(Q) == {sn \in Q : sn > qseq_num}

\* The packet to decode next: with nothing decoded yet, whichever came first.
NextUp(Q) == IF qseq_num = 0 THEN Least(Fresh(Q)) ELSE qseq_num + 1

\* The unbroken run of buffered packets from there, and its decodable prefix.
Run(Q) == {sn \in Fresh(Q) : \A j \in NextUp(Q)..sn : j \in Q}
Decodable(Q, C) == {sn \in Run(Q) : \A j \in NextUp(Q)..sn : j \notin C}

\* Where the pass gets to, and what it leaves in the buffer.
Reached(Q, C) == IF Decodable(Q, C) = {} THEN qseq_num ELSE Greatest(Decodable(Q, C))
Left(Q, C) == {sn \in Q : sn > Reached(Q, C)}
\* waitcnt when the pass gets there: a decoded packet closes the gap.
WaitAt(Q, C) == IF Decodable(Q, C) = {} THEN waitcnt ELSE MaxWait

\* The packets that are decoded to their end, and what is left.  Of a packet
\* that fails the messages before the one that does not decode have reached the
\* books as well: see BookProcessQ in BookRecovery.
Decode(Q, C) ==
    /\ decoded' = decoded \cup Decodable(Q, C)
    /\ base' = IF qseq_num = 0 /\ Decodable(Q, C) # {} THEN NextUp(Q) - 1 ELSE base
    /\ msg_q' = Left(Q, C)
    /\ corrupt' = C \cap Left(Q, C)

do_data_recovery ==
    /\ numdrecoveries < MaxRecoveries
    /\ reqData' = reqData + 1
    /\ in_data_recovery' = TRUE
    /\ numdrecoveries' = numdrecoveries + 1
    /\ waitcnt' = MaxWait

\* Nothing is left, or nothing was there.
DrainAll(Q, C) ==
    /\ Left(Q, C) = {}
    /\ Decode(Q, C)
    /\ qseq_num' = Reached(Q, C)
    /\ waitcnt' = WaitAt(Q, C)
    /\ UNCHANGED <<in_data_recovery, numdrecoveries, reqData, running>>

\* A gap: wait a few arrivals for the other feed to fill it.
WaitForGap(Q, C) ==
    /\ Left(Q, C) # {}
    /\ Decodable(Q, C) = Run(Q)
    /\ WaitAt(Q, C) - 1 > 0
    /\ Decode(Q, C)
    /\ qseq_num' = Reached(Q, C)
    /\ waitcnt' = WaitAt(Q, C) - 1
    /\ UNCHANGED <<in_data_recovery, numdrecoveries, reqData, running>>

\* Mutant of RecoverGap: skips the gap instead of asking for a snapshot.
RecoverGapBySkipping(Q, C) ==
    /\ Left(Q, C) # {}
    /\ Decodable(Q, C) = Run(Q)
    /\ WaitAt(Q, C) - 1 <= 0
    /\ dorecovery
    /\ Decode(Q, C)
    /\ qseq_num' = Least(Left(Q, C)) - 1
    /\ waitcnt' = MaxWait
    /\ UNCHANGED <<in_data_recovery, numdrecoveries, reqData, running>>

\* The gap has not closed: ask for a snapshot.
RecoverGap(Q, C) ==
    /\ Left(Q, C) # {}
    /\ Decodable(Q, C) = Run(Q)
    /\ WaitAt(Q, C) - 1 <= 0
    /\ dorecovery
    /\ Decode(Q, C)
    /\ qseq_num' = Reached(Q, C)
    /\ do_data_recovery
    /\ UNCHANGED running

\* Mutant of SkipGap: one packet too far.
SkipGapOffByOne(Q, C) ==
    /\ Left(Q, C) # {}
    /\ Decodable(Q, C) = Run(Q)
    /\ WaitAt(Q, C) - 1 <= 0
    /\ ~ dorecovery
    /\ Decode(Q, C)
    /\ qseq_num' = Least(Left(Q, C))
    /\ waitcnt' = WaitAt(Q, C) - 1
    /\ UNCHANGED <<in_data_recovery, numdrecoveries, reqData, running>>

\* Without recovery the gap is given up; the packet behind it stays buffered
\* until the next arrival.
SkipGap(Q, C) ==
    /\ Left(Q, C) # {}
    /\ Decodable(Q, C) = Run(Q)
    /\ WaitAt(Q, C) - 1 <= 0
    /\ ~ dorecovery
    /\ Decode(Q, C)
    /\ qseq_num' = Least(Left(Q, C)) - 1
    /\ waitcnt' = WaitAt(Q, C) - 1
    /\ UNCHANGED <<in_data_recovery, numdrecoveries, reqData, running>>

\* A critical message did not decode: GAP to the books, then a snapshot,
\* whether or not dorecovery is set.  The packet stays buffered and is decoded
\* again from its start if the snapshot does not cover it.
DecodeFailure(Q, C) ==
    /\ Decodable(Q, C) # Run(Q)
    /\ Decode(Q, C)
    /\ qseq_num' = Reached(Q, C)
    /\ IF HasRecovery
       THEN do_data_recovery /\ UNCHANGED running
       ELSE /\ running' = "crashed"
            /\ waitcnt' = WaitAt(Q, C)
            /\ UNCHANGED <<in_data_recovery, numdrecoveries, reqData>>

processq(Q, C) ==
    \/ /\ Recovering
       /\ msg_q' = Q
       /\ corrupt' = C
       /\ UNCHANGED <<qseq_num, decoded, base, waitcnt, in_data_recovery,
                      numdrecoveries, reqData, running>>
    \/ /\ ~ Recovering
       /\ \/ DrainAll(Q, C)
          \/ WaitForGap(Q, C)
          \/ RecoverGap(Q, C)
          \/ SkipGap(Q, C)
          \/ DecodeFailure(Q, C)

-----------------------------------------------------------------------------
(* processq_handler: a copy of packet sn arrives; ok says it will decode.  *)

ProcessQ(sn, ok) ==
    /\ running = "started"
    /\ sn <= published
    /\ ok \/ sn \in Corruptible
    /\ \/ /\ sn <= qseq_num \/ stopq
          /\ UNCHANGED <<mpVars, reqData, decoded, base>>
       \/ /\ sn > qseq_num /\ ~ stopq
          /\ processq(msg_q \cup {sn},
                      IF ok \/ sn \in msg_q THEN corrupt ELSE corrupt \cup {sn})
          /\ UNCHANGED <<dorecovery, in_instr_recovery, stopq>>
    /\ UNCHANGED <<reqInstr, endData, endInstr, published, covered>>

\* Mutants of EndDataRecovery: last_seq always taken; the flag stays set.
EndDataRecoveryBackwards ==
    /\ running = "started"
    /\ endData # <<>>
    /\ endData' = Tail(endData)
    /\ qseq_num' = Head(endData)
    /\ covered' = IF covered < Head(endData) THEN Head(endData) ELSE covered
    /\ in_data_recovery' = FALSE
    /\ UNCHANGED <<dorecovery, msg_q, corrupt, waitcnt, in_instr_recovery, stopq, numdrecoveries,
                   running, reqData, reqInstr, endInstr, published, decoded, base>>

EndDataRecoveryFlagKept ==
    /\ running = "started"
    /\ endData # <<>>
    /\ endData' = Tail(endData)
    /\ qseq_num' = IF qseq_num < Head(endData) THEN Head(endData) ELSE qseq_num
    /\ covered' = IF covered < Head(endData) THEN Head(endData) ELSE covered
    /\ UNCHANGED <<dorecovery, msg_q, corrupt, waitcnt, in_data_recovery, in_instr_recovery,
                   stopq, numdrecoveries, running, reqData, reqInstr, endInstr, published,
                   decoded, base>>

\* enddatarecovery_handler.  Its processq(0, 0) returns at once, because
\* in_data_recovery is still set: the buffer waits for the next arrival.
EndDataRecovery ==
    /\ running = "started"
    /\ endData # <<>>
    /\ endData' = Tail(endData)
    /\ qseq_num' = IF qseq_num < Head(endData) THEN Head(endData) ELSE qseq_num
    /\ covered' = IF covered < Head(endData) THEN Head(endData) ELSE covered
    /\ in_data_recovery' = FALSE
    /\ UNCHANGED <<dorecovery, msg_q, corrupt, waitcnt, in_instr_recovery, stopq, numdrecoveries,
                   running, reqData, reqInstr, endInstr, published, decoded, base>>

\* endinstrrecovery_handler, whose processq(0, 0) is likewise a no-op.
EndInstrumentRecovery ==
    /\ running = "started"
    /\ endInstr > 0
    /\ endInstr' = endInstr - 1
    /\ in_instr_recovery' = FALSE
    /\ UNCHANGED <<dorecovery, qseq_num, msg_q, corrupt, waitcnt, in_data_recovery, stopq,
                   numdrecoveries, running, reqData, reqInstr, endData, histVars>>

\* stopq_handler, startq_handler
SetStopQ(b) ==
    /\ running = "started"
    /\ stopq # b
    /\ stopq' = b
    /\ UNCHANGED <<dorecovery, qseq_num, msg_q, corrupt, waitcnt, in_data_recovery,
                   in_instr_recovery, numdrecoveries, running, mailVars, histVars>>

-----------------------------------------------------------------------------
(* The surroundings: the exchange, and the RecoveryProcessor's answers.  A *)
(* snapshot may be older than what has been decoded.                       *)

Publish ==
    /\ published < MaxSeq
    /\ published' = published + 1
    /\ UNCHANGED <<mpVars, mailVars, decoded, covered, base>>

AnswerData(last) ==
    /\ reqData > 0
    /\ last <= published
    /\ reqData' = reqData - 1
    /\ endData' = Append(endData, last)
    /\ UNCHANGED <<mpVars, reqInstr, endInstr, histVars>>

AnswerInstr ==
    /\ reqInstr > 0
    /\ reqInstr' = reqInstr - 1
    /\ endInstr' = endInstr + 1
    /\ UNCHANGED <<mpVars, reqData, endData, histVars>>

-----------------------------------------------------------------------------
EndRecovery == EndDataRecovery \/ EndInstrumentRecovery
Answer == AnswerInstr \/ \E last \in 0..MaxSeq : AnswerData(last)

Next ==
    \/ Start
    \/ Publish
    \/ \E sn \in Packet, ok \in BOOLEAN : ProcessQ(sn, ok)
    \/ EndRecovery
    \/ Answer
    \/ \E b \in BOOLEAN : SetStopQ(b)

Spec == Init /\ [][Next]_vars

-----------------------------------------------------------------------------
(* Properties *)

\* Every variable stays in its type; with recovery on, waitcnt never runs out.
TypeOK ==
    /\ dorecovery \in BOOLEAN /\ (dorecovery => HasRecovery)
    /\ qseq_num \in Nat
    /\ msg_q \subseteq Packet
    /\ corrupt \subseteq msg_q
    /\ waitcnt \in 0..MaxWait
    /\ dorecovery => waitcnt > 0
    /\ in_data_recovery \in BOOLEAN
    /\ in_instr_recovery \in BOOLEAN
    /\ stopq \in BOOLEAN
    /\ numdrecoveries \in Nat
    /\ running \in {"new", "started", "crashed"}
    /\ reqData \in Nat /\ reqInstr \in Nat /\ endInstr \in Nat
    /\ endData \in Seq(0..MaxSeq)
    /\ published \in 0..MaxSeq
    /\ decoded \subseteq Packet
    /\ covered \in 0..MaxSeq
    /\ base \in 0..MaxSeq

\* The flags say exactly which request is with the RecoveryProcessor or on its
\* way back; there is never a second one of the same kind.
FlagInv ==
    /\ reqData + Len(endData) = IF in_data_recovery THEN 1 ELSE 0
    /\ reqInstr + endInstr = IF in_instr_recovery THEN 1 ELSE 0

\* The position never runs ahead of the exchange, nor behind what was decoded.
PositionInv ==
    /\ qseq_num <= published
    /\ covered <= qseq_num
    /\ \A sn \in decoded : sn <= qseq_num
    /\ \A sn \in msg_q : sn <= published
    /\ \A i \in 1..Len(endData) : endData[i] <= published

\* With recovery on, no packet is passed over silently: from the packet at
\* which the channel was joined, each one up to qseq_num was decoded or is
\* covered by a snapshot (processq's branches, enddatarecovery_handler).
NoSilentLoss ==
    dorecovery => \A sn \in Packet :
        base < sn /\ sn <= qseq_num => sn \in decoded \/ sn <= covered

\* waitcnt is used up only by a skipped gap, and then the packet behind the
\* gap is buffered: the next pass decodes it and re-arms waitcnt.
WaitInv ==
    waitcnt = 0 => qseq_num > 0 /\ qseq_num + 1 \in msg_q /\ ~ in_data_recovery

\* The packets left behind in the buffer are covered by a snapshot.
BufferInv == \A sn \in msg_q : qseq_num < sn \/ sn <= covered

\* What makes the properties inductive.
ProcessorInv ==
    /\ FlagInv
    /\ PositionInv
    /\ WaitInv
    /\ BufferInv
    /\ NoSilentLoss
    /\ base > 0 => qseq_num > 0
    /\ running = "new" => ~ Recovering /\ qseq_num = 0

\* Packets are decoded to their end in increasing order, and the position below
\* which nothing is decoded again never goes back, whatever the order and number
\* of their copies and the age of the snapshots (msg_q, qseq_num).
DecodeOrder ==
    [][/\ qseq_num <= qseq_num'
       /\ \A sn \in decoded' \ decoded : sn > qseq_num /\ \A d \in decoded : d < sn]_vars

\* The feed handler has one user at a time: nothing is decoded while the
\* RecoveryProcessor, on its own thread, replays a snapshot or instrument
\* definitions into the same handler_if.
HandlerExclusive ==
    [][decoded' # decoded => reqData = 0 /\ reqInstr = 0]_vars

\* A packet that made it into the buffer is not lost: it leaves msg_q only by
\* being decoded or because a snapshot covers it, also when gaps are skipped.
BufferedNotDropped ==
    [][\A sn \in msg_q \ msg_q' : sn \in decoded' \/ sn <= covered]_vars

\* Recovery never stalls the channel for ever.
RecoveryEnds == []<>(running = "started" /\ ~ Recovering)
=============================================================================

-------------------------- MODULE RecoveryProcessor --------------------------
(***************************************************************************)
(* mdp3::RecoveryProcessor: answers DoDataRecovery by replaying the        *)
(* snapshot feed into the order books, and DoInstrumentRecovery by reading *)
(* the instrument definitions.  Both feeds are endless cycles of UDP       *)
(* packets numbered from 1; the processor joins one anywhere in a cycle,   *)
(* waits for packet 1 and reads until it has everything.                   *)
(*                                                                         *)
(* A data packet carries one chunk of one book.  Cycles differ in their    *)
(* books and in the position of their snapshots; from MaxCycle on the feed *)
(* repeats the last cycle.                                                 *)
(***************************************************************************)
EXTENDS Integers, Sequences, FiniteSets

CONSTANTS
    Book,       \* securities of the channel
    Chunks,     \* noChunks: how many chunks each book's snapshot takes
    MaxCycle,   \* bound: snapshot cycles that differ
    Layout,     \* Layout[c]: the chunks of cycle c, one per packet
    LastSeq,    \* LastSeq[c][b]: lastMsgSeqNumProcessed of b's snapshot in cycle c
    MaxLast,    \* bound of LastSeq
    Defs,       \* Defs[n]: instruments defined by packet n of the definition feed
    Window,     \* bound: packets in the socket buffer
    MaxFaults,  \* bound: packets lost, duplicated or overtaken
    MaxRequests \* bound: recoveries asked for

Cycle == 1..MaxCycle
Chunk == {k \in [book : Book, chunk : Nat] : k.chunk \in 1..Chunks[k.book]}

ASSUME BookAssumption ==
    /\ IsFiniteSet(Book)
    /\ Chunks \in [Book -> Nat \ {0}]
ASSUME FeedAssumption ==
    /\ MaxCycle \in Nat \ {0}
    /\ Layout \in [Cycle -> Seq(Chunk) \ {<<>>}]
    /\ MaxLast \in Nat
    /\ LastSeq \in [Cycle -> [Book -> 0..MaxLast]]
    /\ Defs \in Seq(SUBSET Book) \ {<<>>}

ASSUME BoundAssumption == Window \in Nat /\ MaxFaults \in Nat /\ MaxRequests \in Nat

VARIABLES
    mode,       \* the handler that runs: "idle", "data" or "instr"
    inbox,      \* requests not handled yet
    requests    \* requests sent so far

\* datarecovery_handler's locals.
VARIABLES curr_seq_num, found_first_packet, recovered_books, last_seq_num, numreports

\* instrumentrecovery_handler's locals; found_first_packet is shared.
VARIABLES seq_num_processed, securities, totnumreports

\* The feed joined: its cycle, the last packet sent, the socket buffer.
VARIABLES cyc, pos, net, faults

\* Histories: the chunks in the books since they were last cleared, and what
\* the last EndDataRecovery said.
VARIABLES loaded, answer

dataVars == <<curr_seq_num, recovered_books, last_seq_num, numreports>>
instrVars == <<seq_num_processed, securities, totnumreports>>
mailVars == <<mode, inbox, requests>>
feedVars == <<cyc, pos, net, faults>>
vars == <<mailVars, dataVars, found_first_packet, instrVars, feedVars, loaded, answer>>

\* The uint32 maxima that stand for "not known yet".
NoReports == Cardinality(Book) + 1
NoSeq == MaxLast + 1
NoAnswer == NoSeq + 1

\* totNumReports, and the packets of the feed the handler reads.
Listed(c) == {Layout[c][n].book : n \in DOMAIN Layout[c]}
Reports(c) == Cardinality(Listed(c))

\* The exchange sends the chunks of a book in order, which is what lets the
\* handler take the last one (currentChunk = noChunks) for the whole book.
ASSUME ChunkOrderAssumption ==
    \A c \in Cycle : \A n \in DOMAIN Layout[c] : \A i \in 1..Layout[c][n].chunk :
        \E m \in 1..n : Layout[c][m] = [book |-> Layout[c][n].book, chunk |-> i]

\* What the handler relies on when it compares totNumReports and nothing else:
\* a cycle with as many books as another has the same ones, in the same order.
CountTellsBooks == \A c, d \in Cycle : Reports(c) = Reports(d) => Layout[c] = Layout[d]

Defined == UNION {Defs[n] : n \in DOMAIN Defs}
FeedLen(c) == IF mode = "data" THEN Len(Layout[c]) ELSE Len(Defs)

Init ==
    /\ mode = "idle"
    /\ inbox = <<>>
    /\ requests = 0
    /\ curr_seq_num = 0
    /\ found_first_packet = FALSE
    /\ recovered_books = {}
    /\ last_seq_num = NoSeq
    /\ numreports = NoReports
    /\ seq_num_processed = {}
    /\ securities = {}
    /\ totnumreports = NoReports
    /\ cyc = 1
    /\ pos = 0
    /\ net = <<>>
    /\ faults = 0
    /\ loaded = {}
    /\ answer = NoAnswer

-----------------------------------------------------------------------------
(* The MessageProcessor's requests, and the start of a handler *)

Request(kind) ==
    /\ requests < MaxRequests
    /\ requests' = requests + 1
    /\ inbox' = Append(inbox, kind)
    /\ UNCHANGED <<mode, dataVars, found_first_packet, instrVars, feedVars, loaded, answer>>

\* The handler joins its feed somewhere in a cycle.
Begin(c, n) ==
    /\ mode = "idle"
    /\ inbox # <<>>
    /\ mode' = Head(inbox)
    /\ inbox' = Tail(inbox)
    /\ curr_seq_num' = 0
    /\ found_first_packet' = FALSE
    /\ recovered_books' = {}
    /\ last_seq_num' = NoSeq
    /\ numreports' = NoReports
    /\ seq_num_processed' = {}
    /\ securities' = {}
    /\ totnumreports' = NoReports
    /\ c >= cyc /\ cyc' = c
    /\ n <= FeedLen(c)' /\ pos' = n
    /\ net' = <<>>
    /\ loaded' = {}
    /\ answer' = NoAnswer
    /\ UNCHANGED <<requests, faults>>

-----------------------------------------------------------------------------
(* The feed and the network *)

Emit ==
    /\ mode # "idle"
    /\ Len(net) < Window
    /\ LET wrap == pos >= FeedLen(cyc)
           c == IF wrap /\ cyc < MaxCycle THEN cyc + 1 ELSE cyc
           n == IF wrap THEN 1 ELSE pos + 1
       IN /\ cyc' = c
          /\ pos' = n
          /\ net' = Append(net, [seq |-> n, cycle |-> c])
    /\ UNCHANGED <<mailVars, dataVars, found_first_packet, instrVars, faults, loaded, answer>>

Fault(newNet) ==
    /\ faults < MaxFaults
    /\ faults' = faults + 1
    /\ net' = newNet
    /\ UNCHANGED <<mailVars, dataVars, found_first_packet, instrVars, cyc, pos, loaded, answer>>

Lose == net # <<>> /\ Fault(Tail(net))
Duplicate == net # <<>> /\ Fault(<<Head(net)>> \o net)
Overtake == Len(net) >= 2 /\ Fault(<<net[2], net[1]>> \o SubSeq(net, 3, Len(net)))

-----------------------------------------------------------------------------
(* datarecovery_handler: one pass of its loop reads one packet.            *)

Packet == Head(net)

Reading(kind) ==
    /\ mode = kind
    /\ net # <<>>

\* Mutant of DataRestart: forgets to reset numreports.
DataRestartReportsKept ==
    /\ curr_seq_num' = 0
    /\ recovered_books' = {}
    /\ found_first_packet' = FALSE
    /\ loaded' = {}
    /\ net' = Tail(net)
    /\ UNCHANGED <<mailVars, numreports, last_seq_num, instrVars, cyc, pos, faults, answer>>

\* DataReceoveryRestart: the books are cleared, and the processor waits for
\* the next packet 1.  last_seq_num is kept.
DataRestart ==
    /\ curr_seq_num' = 0
    /\ recovered_books' = {}
    /\ found_first_packet' = FALSE
    /\ numreports' = NoReports
    /\ loaded' = {}
    /\ net' = Tail(net)
    /\ UNCHANGED <<mailVars, last_seq_num, instrVars, cyc, pos, faults, answer>>

Found == found_first_packet \/ Packet.seq = 1

\* Mutant of Gap: one lost packet goes unnoticed.
GapOffByOne == Packet.seq # 1 /\ Packet.seq \notin curr_seq_num..curr_seq_num + 2

\* MsgSeqNum - curr_seq_num > 1 in uint32: an older packet is a gap too.
Gap == Packet.seq # 1 /\ Packet.seq \notin {curr_seq_num, curr_seq_num + 1}

ReportsDiffer == numreports # NoReports /\ numreports # Reports(Packet.cycle)

WaitForFirst ==
    /\ Reading("data")
    /\ ~ Found
    /\ net' = Tail(net)
    /\ UNCHANGED <<mailVars, dataVars, found_first_packet, instrVars, cyc, pos, faults, loaded, answer>>

PacketGap ==
    /\ Reading("data")
    /\ Found /\ Gap
    /\ DataRestart

ReportsChanged ==
    /\ Reading("data")
    /\ Found /\ ~ Gap /\ ReportsDiffer
    /\ DataRestart

\* Mutant of MinSeq: the last snapshot read wins.
LatestSeq(a, b) == b

MinSeq(a, b) == IF b < a THEN b ELSE a

LoadChunk ==
    /\ Reading("data")
    /\ Found /\ ~ Gap /\ ~ ReportsDiffer
    /\ LET k == Layout[Packet.cycle][Packet.seq]
       IN /\ last_seq_num' = MinSeq(last_seq_num, LastSeq[Packet.cycle][k.book])
          /\ recovered_books' = IF k.chunk = Chunks[k.book]
                                THEN recovered_books \cup {k.book} ELSE recovered_books
          /\ loaded' = loaded \cup {[book |-> k.book, chunk |-> k.chunk, cycle |-> Packet.cycle]}
    /\ found_first_packet' = TRUE
    /\ curr_seq_num' = Packet.seq
    /\ numreports' = IF numreports = NoReports THEN Reports(Packet.cycle) ELSE numreports
    /\ \/ /\ Cardinality(recovered_books') < numreports'
          /\ net' = Tail(net)
          /\ UNCHANGED <<mode, answer>>
       \/ /\ Cardinality(recovered_books') >= numreports'
          /\ net' = <<>>
          /\ mode' = "idle"
          /\ answer' = last_seq_num'
    /\ UNCHANGED <<inbox, requests, instrVars, cyc, pos, faults>>

-----------------------------------------------------------------------------
(* instrumentrecovery_handler: gaps do not matter, a second packet 1 starts *)
(* over (and is itself thrown away), the securities seen are kept.          *)

InstrWaitForFirst ==
    /\ Reading("instr")
    /\ ~ Found
    /\ net' = Tail(net)
    /\ UNCHANGED <<mailVars, dataVars, found_first_packet, instrVars, cyc, pos, faults, loaded, answer>>

InstrRestart ==
    /\ Reading("instr")
    /\ found_first_packet /\ Packet.seq = 1
    /\ seq_num_processed' = {}
    /\ totnumreports' = NoReports
    /\ found_first_packet' = FALSE
    /\ net' = Tail(net)
    /\ UNCHANGED <<mailVars, dataVars, securities, cyc, pos, faults, loaded, answer>>

InstrSeen ==
    /\ Reading("instr")
    /\ found_first_packet /\ Packet.seq # 1
    /\ Packet.seq \in seq_num_processed
    /\ net' = Tail(net)
    /\ UNCHANGED <<mailVars, dataVars, found_first_packet, instrVars, cyc, pos, faults, loaded, answer>>

InstrDefine ==
    /\ Reading("instr")
    /\ Found
    /\ ~ (found_first_packet /\ Packet.seq = 1)
    /\ Packet.seq \notin seq_num_processed
    /\ found_first_packet' = TRUE
    /\ seq_num_processed' = seq_num_processed \cup {Packet.seq}
    /\ securities' = securities \cup Defs[Packet.seq]
    /\ totnumreports' = IF Defs[Packet.seq] = {} THEN totnumreports ELSE Cardinality(Defined)
    /\ \/ /\ Cardinality(securities') < totnumreports'
          /\ net' = Tail(net)
          /\ UNCHANGED mode
       \/ /\ Cardinality(securities') >= totnumreports'
          /\ net' = <<>>
          /\ mode' = "idle"
    /\ UNCHANGED <<inbox, requests, dataVars, cyc, pos, faults, loaded, answer>>

-----------------------------------------------------------------------------
Read == WaitForFirst \/ PacketGap \/ ReportsChanged \/ LoadChunk
          \/ InstrWaitForFirst \/ InstrRestart \/ InstrSeen \/ InstrDefine
BeginAny == \E c \in Cycle : \E n \in 0..Len(Layout[c]) + Len(Defs) : Begin(c, n)

Next ==
    \/ \E kind \in {"data", "instr"} : Request(kind)
    \/ BeginAny
    \/ Emit
    \/ Lose \/ Duplicate \/ Overtake
    \/ Read

Spec == Init /\ [][Next]_vars

\* The exchange sends for ever and the actor's thread runs.
FairSpec == Spec /\ WF_vars(BeginAny) /\ WF_vars(Emit) /\ WF_vars(Read)

-----------------------------------------------------------------------------
(* Properties *)

\* Every variable stays in its type; curr_seq_num counts from packet 1.
TypeOK ==
    /\ mode \in {"idle", "data", "instr"}
    /\ inbox \in Seq({"data", "instr"})
    /\ requests \in 0..MaxRequests
    /\ curr_seq_num \in Nat
    /\ curr_seq_num # 0 => found_first_packet
    /\ found_first_packet \in BOOLEAN
    /\ recovered_books \subseteq Book
    /\ last_seq_num \in 0..NoSeq
    /\ numreports \in 0..NoReports
    /\ seq_num_processed \subseteq DOMAIN Defs
    /\ securities \subseteq Book
    /\ totnumreports \in 0..NoReports
    /\ cyc \in Cycle
    /\ pos \in Nat
    /\ net \in Seq([seq : Nat \ {0}, cycle : Cycle])
    /\ faults \in 0..MaxFaults
    /\ loaded \subseteq [book : Book, chunk : Nat, cycle : Cycle]
    /\ answer \in 0..NoAnswer

\* The position handed back is covered by every snapshot in the books: the
\* MessageProcessor replays every packet some book still lacks
\* (datarecovery_handler's minimum, which survives restarts).
AnswerCovered ==
    /\ \A l \in loaded : last_seq_num <= LastSeq[l.cycle][l.book]
    /\ answer # NoAnswer => answer = last_seq_num /\ loaded # {}

\* A book that counts as recovered has had all of its chunks loaded since the
\* books were last cleared, whatever was lost, repeated or overtaken.
WholeBooks ==
    \A b \in recovered_books : \A i \in 1..Chunks[b] :
        \E l \in loaded : l.book = b /\ l.chunk = i

\* When a recovery is answered, every book of the channel has been recovered.
AllBooks == answer # NoAnswer => \E c \in Cycle : Listed(c) \subseteq recovered_books

\* The state the two loops keep is consistent, recovered books are whole, and
\* an answered recovery (datarecovery_handler) has recovered all of them.
RecoveryInv == TypeOK /\ WholeBooks /\ AllBooks

\* A recovery that was asked for is finished, whatever was lost on the way.
RecoveryCompletes ==
    /\ mode = "data" ~> mode = "idle"
    /\ mode = "instr" ~> mode = "idle"
=============================================================================

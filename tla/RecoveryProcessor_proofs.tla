----------------------- MODULE RecoveryProcessor_proofs -----------------------
(***************************************************************************)
(* The recoveries for every channel, every sequence of snapshot cycles,    *)
(* every number of requests and every loss, repetition or overtaking of    *)
(* packets.  FeedInv is inductive by itself; what the books hold needs it  *)
(* and, where the handler compares nothing but the number of books of two  *)
(* cycles, that this number tells them apart (CountTellsBooks).            *)
(***************************************************************************)
EXTENDS RecoveryProcessor, FiniteSetTheorems, SequenceTheorems, TLAPS

NetPacket == [seq : Nat \ {0}, cycle : Cycle]

\* What is in the socket buffer belongs to the feed that is being read.
NetOK ==
    /\ mode = "idle" => net = <<>>
    /\ mode = "data" => \A i \in DOMAIN net : net[i].seq \in DOMAIN Layout[net[i].cycle]
    /\ mode = "instr" => \A i \in DOMAIN net : net[i].seq \in DOMAIN Defs

\* A recovery under way has not been answered, and the loop that reads the
\* definitions leaves the data loop's count as Begin has set it.
Unanswered ==
    /\ mode # "idle" => answer = NoAnswer
    /\ mode = "instr" => curr_seq_num = 0

FeedInv == TypeOK /\ NetOK /\ Unanswered /\ AnswerCovered

\* Chunk k has been loaded since the books were last cleared.
Loaded(k) == \E l \in loaded : l.book = k.book /\ l.chunk = k.chunk

\* Before packet 1 nothing is known of the cycle; from then on the packets up
\* to curr_seq_num have been loaded, in whichever of the cycles alike.
Progress ==
    mode = "data" =>
        IF found_first_packet
        THEN \E c \in Cycle :
                /\ numreports = Reports(c)
                /\ curr_seq_num \in DOMAIN Layout[c]
                /\ \A n \in 1..curr_seq_num : Loaded(Layout[c][n])
                /\ recovered_books \subseteq Listed(c)
        ELSE numreports = NoReports /\ recovered_books = {}

BooksInv == WholeBooks /\ AllBooks /\ Progress

-----------------------------------------------------------------------------
(* The constants *)

\* A cycle lists some of the books, so totNumReports is never the maximum that
\* stands for "not known yet".
LEMMA ReportsBounded ==
    \A c \in Cycle :
        /\ Listed(c) \subseteq Book
        /\ IsFiniteSet(Listed(c))
        /\ Reports(c) \in 0..NoReports
        /\ Reports(c) # NoReports
<1> SUFFICES ASSUME NEW c \in Cycle
             PROVE  /\ Listed(c) \subseteq Book
                    /\ IsFiniteSet(Listed(c))
                    /\ Reports(c) \in 0..NoReports
                    /\ Reports(c) # NoReports
  OBVIOUS
<1>1. Layout[c] \in Seq(Chunk) BY FeedAssumption
<1>2. \A n \in DOMAIN Layout[c] : Layout[c][n] \in Chunk BY <1>1
<1>3. Listed(c) \subseteq Book BY <1>2 DEF Listed, Chunk
<1>4. IsFiniteSet(Listed(c)) /\ Cardinality(Listed(c)) <= Cardinality(Book)
  BY <1>3, BookAssumption, FS_Subset
<1>5. Cardinality(Listed(c)) \in Nat /\ Cardinality(Book) \in Nat
  BY <1>4, BookAssumption, FS_CardinalityType
<1> QED BY <1>3, <1>4, <1>5 DEF Reports, NoReports

\* The packets of both feeds and what they carry.
LEMMA FeedTypes ==
    /\ \A c \in Cycle : /\ Len(Layout[c]) \in Nat \ {0}
                        /\ DOMAIN Layout[c] = 1..Len(Layout[c])
                        /\ \A n \in DOMAIN Layout[c] : /\ Layout[c][n].book \in Book
                                                      /\ Layout[c][n].chunk \in Nat
                                                      /\ Layout[c][n].chunk \in
                                                            1..Chunks[Layout[c][n].book]
    /\ Len(Defs) \in Nat \ {0}
    /\ DOMAIN Defs = 1..Len(Defs)
    /\ \A n \in DOMAIN Defs : Defs[n] \subseteq Book
    /\ Defined \subseteq Book
    /\ Cardinality(Defined) \in 0..NoReports
    /\ NoReports \in Nat /\ NoSeq \in Nat /\ NoAnswer \in Nat
    /\ Cycle \subseteq Nat /\ 1 \in Cycle
<1>1. ASSUME NEW c \in Cycle
      PROVE  /\ Len(Layout[c]) \in Nat \ {0}
             /\ DOMAIN Layout[c] = 1..Len(Layout[c])
             /\ \A n \in DOMAIN Layout[c] : Layout[c][n] \in Chunk
  <2>1. Layout[c] \in Seq(Chunk) /\ Layout[c] # <<>> BY FeedAssumption
  <2> QED BY <2>1, EmptySeq
<1>2. ASSUME NEW k \in Chunk
      PROVE  k.book \in Book /\ k.chunk \in Nat /\ k.chunk \in 1..Chunks[k.book]
  BY DEF Chunk
<1>3. Defs \in Seq(SUBSET Book) /\ Defs # <<>> BY FeedAssumption
<1>4. /\ Len(Defs) \in Nat \ {0}
      /\ DOMAIN Defs = 1..Len(Defs)
      /\ \A n \in DOMAIN Defs : Defs[n] \in SUBSET Book
  BY <1>3, EmptySeq
<1>5. Defined \subseteq Book BY <1>4 DEF Defined
<1>6. /\ Cardinality(Defined) \in Nat /\ Cardinality(Book) \in Nat
      /\ Cardinality(Defined) <= Cardinality(Book)
  BY <1>5, BookAssumption, FS_Subset, FS_CardinalityType
<1> QED BY <1>1, <1>2, <1>4, <1>5, <1>6, FeedAssumption DEF NoReports, NoSeq, NoAnswer, Cycle

-----------------------------------------------------------------------------
(* The socket buffer *)

\* The packet that is read next, if any, is a packet of a cycle.
LEMMA TypedNet ==
    TypeOK => /\ net \in Seq(NetPacket)
              /\ \A i \in DOMAIN net : net[i].seq \in Nat \ {0} /\ net[i].cycle \in Cycle
              /\ net # <<>> => /\ Packet.seq \in Nat \ {0} /\ Packet.cycle \in Cycle
                              /\ Len(net) \in Nat \ {0}
                              /\ Packet = net[1] /\ 1 \in DOMAIN net
<1> SUFFICES ASSUME TypeOK
             PROVE  /\ net \in Seq(NetPacket)
                    /\ \A i \in DOMAIN net : net[i].seq \in Nat \ {0} /\ net[i].cycle \in Cycle
                    /\ net # <<>> => /\ Packet.seq \in Nat \ {0} /\ Packet.cycle \in Cycle
                                    /\ Len(net) \in Nat \ {0}
                                    /\ Packet = net[1] /\ 1 \in DOMAIN net
  OBVIOUS
<1>1. net \in Seq(NetPacket) BY DEF TypeOK, NetPacket
<1>2. \A p \in NetPacket : p.seq \in Nat \ {0} /\ p.cycle \in Cycle BY DEF NetPacket
<1>3. net # <<>> => Len(net) \in Nat \ {0} /\ Packet = net[1] /\ 1 \in DOMAIN net
  BY <1>1, EmptySeq DEF Packet
<1> QED BY <1>1, <1>2, <1>3

\* Reading a packet, and every fault of the network, leaves packets that were
\* in the buffer before.
LEMMA NetKept ==
    ASSUME TypeOK, net # <<>>,
           NEW q, \/ q = Tail(net) \/ q = <<Head(net)>> \o net
                  \/ Len(net) >= 2 /\ q = <<net[2], net[1]>> \o SubSeq(net, 3, Len(net))
    PROVE  /\ q \in Seq(NetPacket)
           /\ \A i \in DOMAIN q : \E j \in DOMAIN net : q[i] = net[j]
<1>1. net \in Seq(NetPacket) /\ Len(net) \in Nat \ {0} /\ DOMAIN net = 1..Len(net)
      /\ Head(net) = net[1]
  BY TypedNet
<1>2. \A i \in 1..Len(net) : net[i] \in NetPacket BY <1>1
<1> DEFINE n == Len(net)
<1>n. n \in Nat /\ n >= 1 /\ DOMAIN net = 1..n BY <1>1
<1> HIDE DEF n
<1>3. CASE q = Tail(net)
  <2>1. q \in Seq(NetPacket) /\ Len(q) = Len(net) - 1 /\ \A i \in 1..Len(q) : q[i] = net[i+1]
    BY <1>1, <1>3, HeadTailProperties
  <2>2. ASSUME NEW i \in DOMAIN q PROVE \E j \in DOMAIN net : q[i] = net[j]
    <3>1. i \in 1..Len(q) /\ i + 1 \in DOMAIN net BY <2>1, <1>1
    <3> QED BY <3>1, <2>1
  <2> QED BY <2>1, <2>2
<1>4. CASE q = <<Head(net)>> \o net
  <2>1. <<Head(net)>> \in Seq(NetPacket) /\ Len(<<Head(net)>>) = 1 BY <1>1, <1>2
  <2>2. /\ q \in Seq(NetPacket) /\ Len(q) = 1 + Len(net)
        /\ \A i \in 1..Len(q) : q[i] = IF i <= 1 THEN net[1] ELSE net[i-1]
    BY <2>1, <1>1, <1>4, ConcatProperties
  <2>4. Len(q) = 1 + n BY <2>2 DEF n
  <2>3. ASSUME NEW i \in DOMAIN q PROVE \E j \in DOMAIN net : q[i] = net[j]
    <3>1. i \in 1..(1 + Len(net)) BY <2>2
    <3>2. CASE i = 1
      <4>1. 1 \in DOMAIN net /\ 1 \in 1..Len(q) BY <2>4, <1>n
      <4>2. q[1] = net[1] BY <4>1, <2>2
      <4> QED BY <4>1, <4>2, <3>2
    <3>3. CASE i # 1
      <4>1. i \in 1..(1+n) BY <3>1 DEF n
      <4>3. i - 1 \in DOMAIN net /\ i \in 1..Len(q) /\ ~ (i <= 1) BY <4>1, <3>3, <2>4, <1>n
      <4>2. q[i] = net[i-1] BY <4>3, <2>2
      <4> QED BY <4>3, <4>2
    <3> QED BY <3>2, <3>3
  <2> QED BY <2>2, <2>3
<1>5. CASE Len(net) >= 2 /\ q = <<net[2], net[1]>> \o SubSeq(net, 3, Len(net))
  <2> DEFINE s == SubSeq(net, 3, Len(net))
  <2>a. n >= 2 BY <1>5 DEF n
  <2>0. 1 \in 1..Len(net) /\ 2 \in 1..Len(net) BY <2>a, <1>n DEF n
  <2>1. <<net[2], net[1]>> \in Seq(NetPacket) /\ Len(<<net[2], net[1]>>) = 2
    <3>1. net[1] \in NetPacket /\ net[2] \in NetPacket BY <2>0, <1>2
    <3> QED BY <3>1
  <2>2. /\ s \in Seq(NetPacket) /\ Len(s) = Len(net) - 2
        /\ \A i \in 1..Len(s) : s[i] = net[i+2]
    <3>1. Len(net) \in Int /\ 3 \in Int /\ \A i \in 3..Len(net) : net[i] \in NetPacket
      BY <1>1, <1>2
    <3> QED BY <3>1, <1>5, SubSeqProperties
  <2>3. /\ q \in Seq(NetPacket) /\ Len(q) = 2 + Len(s)
        /\ \A i \in 1..Len(q) : q[i] = IF i <= 2 THEN <<net[2], net[1]>>[i] ELSE s[i-2]
    BY <2>1, <2>2, <1>5, ConcatProperties
  <2> HIDE DEF s
  <2>4. ASSUME NEW i \in DOMAIN q PROVE \E j \in DOMAIN net : q[i] = net[j]
    <3>1. i \in 1..Len(net) BY <2>2, <2>3, <1>1
    <3>0. /\ 1 \in 1..Len(q) /\ 2 \in 1..Len(q)
          /\ <<net[2], net[1]>>[1] = net[2] /\ <<net[2], net[1]>>[2] = net[1]
      BY <2>2, <2>3
    <3>2. CASE i = 1
      <4>1. q[1] = net[2] BY <3>0, <2>3
      <4> QED BY <4>1, <3>2, <2>0, <1>1
    <3>3. CASE i = 2
      <4>1. q[2] = net[1] BY <3>0, <2>3
      <4> QED BY <4>1, <3>3, <2>0, <1>1
    <3>4. CASE i > 2
      <4>1. i - 2 \in 1..Len(s) BY <3>1, <3>4, <2>2, <1>1
      <4>2. q[i] = net[i] BY <4>1, <3>1, <3>4, <2>2, <2>3, <1>1
      <4> QED BY <4>2, <3>1, <1>1
    <3> QED BY <3>1, <3>2, <3>3, <3>4
  <2> QED BY <2>3, <2>4
<1> QED BY <1>3, <1>4, <1>5

\* Reading a packet leaves a buffer of packets of the feed.
LEMMA NetTail ==
    TypeOK /\ NetOK /\ net # <<>> /\ net' = Tail(net) /\ mode' = mode =>
        net' \in Seq(NetPacket) /\ NetOK'
<1> SUFFICES ASSUME TypeOK, NetOK, net # <<>>, net' = Tail(net), mode' = mode
             PROVE  net' \in Seq(NetPacket) /\ NetOK'
  OBVIOUS
<1>1. /\ net' \in Seq(NetPacket)
      /\ \A i \in DOMAIN net' : \E j \in DOMAIN net : net'[i] = net[j]
  BY NetKept
<1> QED BY <1>1 DEF NetOK

-----------------------------------------------------------------------------
(* Types, the feed and the answer: FeedInv *)

\* Nothing asked for, nothing read.
LEMMA FeedInit == Init => FeedInv
<1> SUFFICES ASSUME Init PROVE FeedInv OBVIOUS
<1>1. TypeOK
  <2>1. /\ 1 \in Cycle /\ 0 \in 0..MaxRequests /\ 0 \in 0..MaxFaults
        /\ NoSeq \in 0..NoSeq /\ NoReports \in 0..NoReports /\ NoAnswer \in 0..NoAnswer
    BY FeedTypes, BoundAssumption
  <2>2. <<>> \in Seq({"data", "instr"}) /\ <<>> \in Seq([seq : Nat \ {0}, cycle : Cycle])
    BY EmptySeq
  <2> QED BY <2>1, <2>2 DEF Init, TypeOK
<1>2. NetOK /\ Unanswered /\ AnswerCovered
  BY DEF Init, NetOK, Unanswered, AnswerCovered
<1> QED BY <1>1, <1>2 DEF FeedInv

\* The requests and the start of a handler.
LEMMA RequestStep ==
    ASSUME FeedInv, NEW kind \in {"data", "instr"}, Request(kind)
    PROVE  FeedInv'
<1> USE DEF FeedInv
<1>1. inbox' \in Seq({"data", "instr"})
  BY AppendProperties DEF Request, TypeOK
<1>2. TypeOK'
  BY <1>1, BoundAssumption DEF TypeOK, Request, dataVars, instrVars, feedVars
<1>3. NetOK' /\ Unanswered' /\ AnswerCovered'
  BY DEF NetOK, Unanswered, AnswerCovered, Request, dataVars, instrVars, feedVars
<1> QED BY <1>2, <1>3

\* A request opens the socket and resets the loop it starts.
LEMMA BeginStep ==
    ASSUME FeedInv, NEW c \in Cycle, NEW n \in Nat, Begin(c, n)
    PROVE  FeedInv'
<1> USE DEF FeedInv
<1>1. inbox' \in Seq({"data", "instr"}) /\ mode' \in {"data", "instr"}
  BY HeadTailProperties DEF Begin, TypeOK
<1>2. TypeOK'
  <2>1. NoSeq \in 0..NoSeq /\ NoReports \in 0..NoReports /\ NoAnswer \in 0..NoAnswer
    BY FeedTypes
  <2>2. <<>> \in Seq([seq : Nat \ {0}, cycle : Cycle])
    BY EmptySeq
  <2> QED BY <1>1, <2>1, <2>2 DEF TypeOK, Begin
<1>3. NetOK' /\ Unanswered' /\ AnswerCovered'
  BY <1>1 DEF NetOK, Unanswered, AnswerCovered, Begin
<1> QED BY <1>2, <1>3

\* The exchange's next packet is one of the feed that is read.
LEMMA EmitStep ==
    ASSUME FeedInv, Emit
    PROVE  FeedInv'
<1> USE DEF FeedInv
<1> DEFINE wrap == pos >= FeedLen(cyc)
           c == IF wrap /\ cyc < MaxCycle THEN cyc + 1 ELSE cyc
           n == IF wrap THEN 1 ELSE pos + 1
           p == [seq |-> n, cycle |-> c]
<1>1. cyc' = c /\ pos' = n /\ net' = Append(net, p)
  BY DEF Emit
<1>2. /\ mode # "idle" /\ mode' = mode
      /\ UNCHANGED <<inbox, requests, dataVars, found_first_packet, instrVars, faults, loaded, answer>>
  BY DEF Emit, mailVars
<1>3. c \in Cycle /\ n \in Nat \ {0}
  BY FeedAssumption DEF TypeOK, Cycle
<1>4. /\ mode = "data" => n \in DOMAIN Layout[c]
      /\ mode = "instr" => n \in DOMAIN Defs
  <2>1. cyc \in Cycle /\ pos \in Nat BY DEF TypeOK
  <2>2. Len(Layout[cyc]) \in Nat /\ Len(Defs) \in Nat BY <2>1, FeedTypes
  <2>3. CASE wrap
    <3>1. n = 1 /\ 1 \in DOMAIN Layout[c] /\ 1 \in DOMAIN Defs
      <4> HIDE DEF c
      <4> QED BY <2>3, <1>3, FeedTypes
    <3> QED BY <3>1
  <2>4. CASE ~ wrap
    <3>1. pos < FeedLen(cyc) BY <2>4, <2>1, <2>2 DEF FeedLen
    <3> QED BY <3>1, <2>4, <2>1, <2>2, FeedTypes DEF FeedLen
  <2> QED BY <2>3, <2>4
<1> HIDE DEF n, c
<1>5. /\ net' \in Seq(NetPacket)
      /\ \A i \in DOMAIN net' : net'[i] = p \/ \E j \in DOMAIN net : net'[i] = net[j]
  <2>1. p \in NetPacket BY <1>3 DEF NetPacket
  <2>2. net \in Seq(NetPacket) BY TypedNet
  <2>3. /\ Append(net, p) \in Seq(NetPacket) /\ Len(Append(net, p)) = Len(net) + 1
        /\ Append(net, p)[Len(net) + 1] = p
        /\ \A i \in 1..Len(net) : Append(net, p)[i] = net[i]
    BY <2>1, <2>2, AppendProperties
  <2> HIDE DEF p
  <2> QED BY <1>1, <2>2, <2>3
<1>6. TypeOK'
  BY <1>1, <1>2, <1>3, <1>5 DEF TypeOK, NetPacket, dataVars, instrVars
<1>7. NetOK'
  <2>1. p.seq = n /\ p.cycle = c OBVIOUS
  <2> QED BY <1>2, <1>4, <1>5, <2>1 DEF NetOK
<1>8. Unanswered' /\ AnswerCovered'
  BY <1>2 DEF Unanswered, AnswerCovered, dataVars
<1> QED BY <1>6, <1>7, <1>8

\* A packet is lost, repeated or overtaken.
LEMMA FaultStep ==
    ASSUME FeedInv, Lose \/ Duplicate \/ Overtake
    PROVE  FeedInv'
<1> USE DEF FeedInv
<1>1. /\ net # <<>>
      /\ faults < MaxFaults /\ faults' = faults + 1
      /\ UNCHANGED <<mailVars, dataVars, found_first_packet, instrVars, cyc, pos, loaded, answer>>
      /\ \/ net' = Tail(net) \/ net' = <<Head(net)>> \o net
         \/ Len(net) >= 2 /\ net' = <<net[2], net[1]>> \o SubSeq(net, 3, Len(net))
  <2>1. CASE Lose BY <2>1 DEF Lose, Fault
  <2>2. CASE Duplicate BY <2>2 DEF Duplicate, Fault
  <2>3. CASE Overtake
    <3>1. net # <<>> BY <2>3, EmptySeq DEF Overtake
    <3> QED BY <2>3, <3>1 DEF Overtake, Fault
  <2> QED BY <2>1, <2>2, <2>3
<1>2. /\ net' \in Seq(NetPacket)
      /\ \A i \in DOMAIN net' : \E j \in DOMAIN net : net'[i] = net[j]
  BY <1>1, NetKept
<1>3. TypeOK'
  <2>1. faults' \in 0..MaxFaults BY <1>1, BoundAssumption DEF TypeOK
  <2> QED BY <1>1, <1>2, <2>1 DEF TypeOK, NetPacket, mailVars, dataVars, instrVars
<1>4. NetOK'
  <2>1. mode # "idle" /\ mode' = mode BY <1>1 DEF NetOK, mailVars
  <2> QED BY <1>2, <2>1 DEF NetOK
<1>5. Unanswered' /\ AnswerCovered'
  BY <1>1 DEF Unanswered, AnswerCovered, mailVars, dataVars
<1> QED BY <1>3, <1>4, <1>5

\* A packet is read and thrown away: before packet 1, or defined already.
LEMMA SkipStep ==
    ASSUME FeedInv, WaitForFirst \/ InstrWaitForFirst \/ InstrSeen
    PROVE  FeedInv'
<1> USE DEF FeedInv
<1>1. /\ net # <<>> /\ net' = Tail(net)
      /\ UNCHANGED <<mailVars, dataVars, found_first_packet, instrVars, cyc, pos, faults, loaded, answer>>
  BY DEF WaitForFirst, InstrWaitForFirst, InstrSeen, Reading
<1>2. net' \in Seq(NetPacket) /\ NetOK'
  BY <1>1, NetTail DEF mailVars
<1>3. TypeOK'
  BY <1>1, <1>2 DEF TypeOK, NetPacket, mailVars, dataVars, instrVars
<1>4. Unanswered' /\ AnswerCovered'
  BY <1>1 DEF Unanswered, AnswerCovered, mailVars, dataVars
<1> QED BY <1>2, <1>3, <1>4

\* The books are cleared in the middle of a recovery.
LEMMA RestartStep ==
    ASSUME FeedInv, PacketGap \/ ReportsChanged
    PROVE  FeedInv'
<1> USE DEF FeedInv
<1>1. mode = "data" /\ net # <<>> /\ DataRestart
  BY DEF PacketGap, ReportsChanged, Reading
<1>2. net' \in Seq(NetPacket) /\ NetOK'
  BY <1>1, NetTail DEF DataRestart, mailVars
<1>3. TypeOK'
  <2>1. NoReports \in 0..NoReports BY FeedTypes
  <2> QED BY <1>1, <1>2, <2>1 DEF TypeOK, DataRestart, NetPacket, mailVars, instrVars
<1>4. Unanswered' /\ AnswerCovered'
  BY <1>1 DEF Unanswered, AnswerCovered, DataRestart, mailVars
<1> QED BY <1>2, <1>3, <1>4

\* The chunk read is one of the packet's cycle.
LEMMA LoadChunkFact ==
    ASSUME FeedInv, LoadChunk
    PROVE  /\ mode = "data" /\ net # <<>>
           /\ Packet.cycle \in Cycle /\ Packet.seq \in DOMAIN Layout[Packet.cycle]
           /\ Packet.seq \in Nat \ {0}
           /\ Layout[Packet.cycle][Packet.seq].book \in Book
           /\ Layout[Packet.cycle][Packet.seq].chunk \in Nat
           /\ answer = NoAnswer
           /\ Found /\ ~ Gap /\ ~ ReportsDiffer
<1>1. mode = "data" /\ net # <<>> /\ Found /\ ~ Gap /\ ~ ReportsDiffer BY DEF LoadChunk, Reading
<1>2. /\ Packet = net[1] /\ 1 \in DOMAIN net
      /\ Packet.cycle \in Cycle /\ Packet.seq \in Nat \ {0}
  BY <1>1, TypedNet DEF FeedInv
<1>3. Packet.seq \in DOMAIN Layout[Packet.cycle]
  BY <1>1, <1>2 DEF FeedInv, NetOK
<1>4. /\ Layout[Packet.cycle][Packet.seq].book \in Book
      /\ Layout[Packet.cycle][Packet.seq].chunk \in Nat
  BY <1>2, <1>3, FeedTypes
<1>5. answer = NoAnswer BY <1>1 DEF FeedInv, Unanswered
<1> QED BY <1>1, <1>2, <1>3, <1>4, <1>5

\* A chunk reaches its book, and the position follows the oldest snapshot.
LEMMA LoadChunkStep ==
    ASSUME FeedInv, LoadChunk
    PROVE  FeedInv'
<1> DEFINE k == Layout[Packet.cycle][Packet.seq]
           l == [book |-> k.book, chunk |-> k.chunk, cycle |-> Packet.cycle]
           lsn == LastSeq[Packet.cycle][k.book]
<1>1. /\ mode = "data" /\ net # <<>> /\ answer = NoAnswer
      /\ Packet.cycle \in Cycle /\ Packet.seq \in Nat \ {0}
      /\ k.book \in Book /\ k.chunk \in Nat
  BY LoadChunkFact
<1>2. lsn \in 0..MaxLast BY <1>1, FeedAssumption
<1>3. /\ last_seq_num' = MinSeq(last_seq_num, lsn)
      /\ recovered_books' \in {recovered_books, recovered_books \cup {k.book}}
      /\ loaded' = loaded \cup {l}
      /\ found_first_packet' = TRUE
      /\ curr_seq_num' = Packet.seq
      /\ numreports' \in {numreports, Reports(Packet.cycle)}
      /\ UNCHANGED <<inbox, requests, instrVars, cyc, pos, faults>>
      /\ \/ net' = Tail(net) /\ UNCHANGED <<mode, answer>>
         \/ net' = <<>> /\ mode' = "idle" /\ answer' = last_seq_num'
  BY DEF LoadChunk
<1> HIDE DEF k
<1>4. /\ last_seq_num' \in 0..NoSeq /\ last_seq_num' <= last_seq_num /\ last_seq_num' <= lsn
      /\ last_seq_num \in Nat
  <2>1. last_seq_num \in 0..NoSeq /\ MaxLast \in Nat /\ NoSeq = MaxLast + 1
    BY FeedAssumption DEF FeedInv, TypeOK, NoSeq
  <2> HIDE DEF lsn
  <2> QED BY <2>1, <1>2, <1>3 DEF MinSeq
<1>5. /\ net' \in Seq(NetPacket) /\ NetOK'
  <2>1. CASE net' = Tail(net) /\ UNCHANGED <<mode, answer>>
    BY <2>1, <1>1, NetTail DEF FeedInv
  <2>2. CASE net' = <<>> /\ mode' = "idle" /\ answer' = last_seq_num'
    BY <2>2, EmptySeq DEF NetOK
  <2> QED BY <2>1, <2>2, <1>3
<1>6. TypeOK'
  <2>1. Reports(Packet.cycle) \in 0..NoReports BY <1>1, ReportsBounded
  <2>2. answer' \in 0..NoAnswer BY <1>3, <1>4, FeedTypes DEF NoAnswer, FeedInv, TypeOK
  <2>3. loaded' \subseteq [book : Book, chunk : Nat, cycle : Cycle]
    BY <1>1, <1>3 DEF FeedInv, TypeOK
  <2>4. mode' \in {"idle", "data"} BY <1>1, <1>3
  <2>5. curr_seq_num' \in Nat BY <1>1, <1>3
  <2>6. recovered_books' \subseteq Book /\ numreports' \in 0..NoReports
    BY <1>1, <1>3, <2>1 DEF FeedInv, TypeOK
  <2> QED BY <1>3, <1>4, <1>5, <2>2, <2>3, <2>4, <2>5, <2>6
          DEF FeedInv, TypeOK, NetPacket, instrVars
<1>7. Unanswered'
  BY <1>1, <1>3 DEF Unanswered
<1>8. AnswerCovered'
  <2>1. ASSUME NEW m \in loaded' PROVE last_seq_num' <= LastSeq[m.cycle][m.book]
    <3>1. CASE m \in loaded
      <4>1. last_seq_num <= LastSeq[m.cycle][m.book] BY <3>1 DEF FeedInv, AnswerCovered
      <4>2. LastSeq[m.cycle][m.book] \in 0..MaxLast
        BY <3>1, FeedAssumption DEF FeedInv, TypeOK
      <4> QED BY <4>1, <4>2, <1>4, FeedAssumption DEF NoSeq
    <3>2. CASE m = l
      BY <3>2, <1>4
    <3> QED BY <3>1, <3>2, <1>3
  <2>2. answer' # NoAnswer => answer' = last_seq_num' /\ loaded' # {}
    BY <1>1, <1>3
  <2> QED BY <2>1, <2>2 DEF AnswerCovered
<1> QED BY <1>5, <1>6, <1>7, <1>8 DEF FeedInv

\* The first definition comes round again: the loop starts anew.
LEMMA InstrRestartStep ==
    ASSUME FeedInv, InstrRestart
    PROVE  FeedInv'
<1> USE DEF FeedInv
<1>1. mode = "instr" /\ net # <<>> /\ net' = Tail(net) /\ UNCHANGED mode
  BY DEF InstrRestart, Reading, mailVars
<1>2. net' \in Seq(NetPacket) /\ NetOK' BY <1>1, NetTail
<1>3. TypeOK'
  <2>1. NoReports \in 0..NoReports BY FeedTypes
  <2>2. /\ UNCHANGED <<mode, inbox, requests, curr_seq_num, recovered_books, last_seq_num,
                       numreports, securities, cyc, pos, faults, loaded, answer>>
        /\ seq_num_processed' = {} /\ totnumreports' = NoReports /\ found_first_packet' = FALSE
        /\ found_first_packet /\ Packet.seq = 1
    BY DEF InstrRestart, mailVars, dataVars
  <2>3. curr_seq_num = 0 BY <1>1 DEF Unanswered
  <2> QED BY <1>2, <2>1, <2>2, <2>3 DEF TypeOK, NetPacket
<1>4. Unanswered' /\ AnswerCovered'
  BY DEF Unanswered, AnswerCovered, InstrRestart, mailVars, dataVars
<1> QED BY <1>2, <1>3, <1>4

\* A definition is taken, and the last one answers.
LEMMA InstrDefineStep ==
    ASSUME FeedInv, InstrDefine
    PROVE  FeedInv'
<1>1. /\ mode = "instr" /\ net # <<>> /\ answer = NoAnswer
      /\ Packet.seq \in DOMAIN Defs /\ Defs[Packet.seq] \subseteq Book
  <2>1. mode = "instr" /\ net # <<>> BY DEF InstrDefine, Reading
  <2>2. Packet = net[1] /\ 1 \in DOMAIN net BY <2>1, TypedNet DEF FeedInv
  <2> QED BY <2>1, <2>2, FeedTypes DEF FeedInv, NetOK, Unanswered
<1>2. /\ found_first_packet' = TRUE
      /\ seq_num_processed' = seq_num_processed \cup {Packet.seq}
      /\ securities' = securities \cup Defs[Packet.seq]
      /\ totnumreports' \in {totnumreports, Cardinality(Defined)}
      /\ UNCHANGED <<inbox, requests, dataVars, cyc, pos, faults, loaded, answer>>
      /\ \/ net' = Tail(net) /\ UNCHANGED mode
         \/ net' = <<>> /\ mode' = "idle"
  BY DEF InstrDefine
<1>3. net' \in Seq(NetPacket) /\ NetOK'
  <2>1. CASE net' = Tail(net) /\ UNCHANGED mode
    BY <2>1, <1>1, NetTail DEF FeedInv
  <2>2. CASE net' = <<>> /\ mode' = "idle"
    BY <2>2, EmptySeq DEF NetOK
  <2> QED BY <2>1, <2>2, <1>2
<1>4. TypeOK'
  <2>1. mode' \in {"idle", "instr"} BY <1>1, <1>2
  <2>2. seq_num_processed' \subseteq DOMAIN Defs /\ securities' \subseteq Book
    BY <1>1, <1>2 DEF FeedInv, TypeOK
  <2>3. totnumreports' \in 0..NoReports
    BY <1>2, FeedTypes DEF FeedInv, TypeOK
  <2> QED BY <1>2, <1>3, <2>1, <2>2, <2>3 DEF FeedInv, TypeOK, NetPacket, dataVars
<1>5. Unanswered' /\ AnswerCovered'
  BY <1>1, <1>2 DEF FeedInv, Unanswered, AnswerCovered, dataVars
<1> QED BY <1>3, <1>4, <1>5 DEF FeedInv

\* Every step of either loop keeps the types, the feed and the answer.
LEMMA FeedNext == FeedInv /\ [Next]_vars => FeedInv'
<1> SUFFICES ASSUME FeedInv, [Next]_vars PROVE FeedInv' OBVIOUS
<1>1. CASE \E kind \in {"data", "instr"} : Request(kind) BY <1>1, RequestStep
<1>2. CASE BeginAny
  <2>1. PICK c \in Cycle : \E n \in 0..Len(Layout[c]) + Len(Defs) : Begin(c, n)
    BY <1>2 DEF BeginAny
  <2>2. PICK n \in 0..Len(Layout[c]) + Len(Defs) : Begin(c, n) BY <2>1
  <2>3. n \in Nat BY FeedTypes
  <2> QED BY <2>2, <2>3, BeginStep
<1>3. CASE Emit BY <1>3, EmitStep
<1>4. CASE Lose \/ Duplicate \/ Overtake BY <1>4, FaultStep
<1>5. CASE WaitForFirst \/ InstrWaitForFirst \/ InstrSeen BY <1>5, SkipStep
<1>6. CASE PacketGap \/ ReportsChanged BY <1>6, RestartStep
<1>7. CASE LoadChunk BY <1>7, LoadChunkStep
<1>8. CASE InstrRestart BY <1>8, InstrRestartStep
<1>9. CASE InstrDefine BY <1>9, InstrDefineStep
<1>10. CASE UNCHANGED vars
  BY <1>10 DEF FeedInv, TypeOK, NetOK, Unanswered, AnswerCovered, vars, mailVars, dataVars,
               instrVars, feedVars
<1> QED BY <1>1, <1>2, <1>3, <1>4, <1>5, <1>6, <1>7, <1>8, <1>9, <1>10 DEF Next, Read

\* So they hold throughout.
LEMMA FeedInductive == Spec => []FeedInv
<1> QED BY FeedInit, FeedNext, PTL DEF Spec

\* The state of both loops keeps its types, whatever the feeds carry.
THEOREM TypeCorrect == Spec => []TypeOK
<1>1. FeedInv => TypeOK BY DEF FeedInv
<1> QED BY <1>1, FeedInductive, PTL

\* The position a recovery is answered with (datarecovery_handler) is covered
\* by every snapshot in the books, for every channel and feed.
THEOREM AnswerCoveredCorrect == Spec => []AnswerCovered
<1>1. FeedInv => AnswerCovered BY DEF FeedInv
<1> QED BY <1>1, FeedInductive, PTL

-----------------------------------------------------------------------------
(* What the books hold: BooksInv *)

\* No book is loaded at first.
LEMMA BooksInit == Init => BooksInv
<1> SUFFICES ASSUME Init PROVE BooksInv OBVIOUS
<1> QED BY DEF Init, BooksInv, WholeBooks, AllBooks, Progress

\* The steps that leave the books and the data loop's variables alone.
LEMMA BooksKept ==
    ASSUME BooksInv, UNCHANGED <<dataVars, loaded, answer>>,
           \/ UNCHANGED <<mode, found_first_packet>>
           \/ mode' # "data"
    PROVE  BooksInv'
<1>1. WholeBooks' /\ AllBooks'
  BY DEF BooksInv, WholeBooks, AllBooks, dataVars
<1>2. Progress'
  BY DEF BooksInv, Progress, Loaded, dataVars
<1> QED BY <1>1, <1>2 DEF BooksInv

\* The books are empty, and nothing is known of the cycle.
LEMMA BooksCleared ==
    ASSUME recovered_books' = {}, numreports' = NoReports, found_first_packet' = FALSE,
           answer' = NoAnswer
    PROVE  BooksInv'
<1> QED BY DEF BooksInv, WholeBooks, AllBooks, Progress

\* A packet that is no gap continues the packets loaded so far, or starts a
\* cycle over.  All of them are those of the packet's own cycle.
LEMMA LoadChunkBooks ==
    ASSUME CountTellsBooks, FeedInv, BooksInv, LoadChunk
    PROVE  BooksInv'
<1>1. PICK c \in Cycle, n \in Nat \ {0} :
        /\ c = Packet.cycle /\ n = Packet.seq
        /\ n \in DOMAIN Layout[c]
        /\ Layout[c][n].book \in Book /\ Layout[c][n].chunk \in Nat
        /\ mode = "data" /\ answer = NoAnswer
        /\ Found /\ ~ Gap /\ ~ ReportsDiffer
  BY LoadChunkFact
<1> DEFINE k == Layout[c][n]
           l == [book |-> k.book, chunk |-> k.chunk, cycle |-> c]
<1>2. /\ recovered_books' = IF k.chunk = Chunks[k.book]
                            THEN recovered_books \cup {k.book} ELSE recovered_books
      /\ loaded' = loaded \cup {l}
      /\ found_first_packet' = TRUE
      /\ curr_seq_num' = n
      /\ numreports' = IF numreports = NoReports THEN Reports(c) ELSE numreports
      /\ \/ mode' = mode /\ answer' = answer
         \/ Cardinality(recovered_books') >= numreports' /\ mode' = "idle"
  BY <1>1 DEF LoadChunk
<1>3. Reports(c) \in Nat /\ Reports(c) # NoReports /\ Listed(c) \subseteq Book
      /\ IsFiniteSet(Listed(c))
  <2>1. /\ Listed(c) \subseteq Book /\ IsFiniteSet(Listed(c))
        /\ Reports(c) \in 0..NoReports /\ Reports(c) # NoReports
    BY ReportsBounded
  <2> QED BY <2>1, FeedTypes
<1>4. l.book = k.book /\ l.chunk = k.chunk /\ k.book \in Listed(c)
  BY <1>1 DEF Listed
<1> HIDE DEF k, l
\* What was loaded before the packet is of a cycle like the packet's.
<1>5. /\ numreports' = Reports(c)
      /\ recovered_books \subseteq Listed(c)
      /\ \A m \in 1..n : m # n => Loaded(Layout[c][m])
  <2>1. CASE ~ found_first_packet
    <3>1. n = 1 BY <2>1, <1>1 DEF Found
    <3>2. numreports = NoReports /\ recovered_books = {}
      BY <2>1, <1>1 DEF BooksInv, Progress
    <3> QED BY <3>1, <3>2, <1>2
  <2>2. CASE found_first_packet
    <3>1. PICK d \in Cycle :
            /\ numreports = Reports(d)
            /\ curr_seq_num \in DOMAIN Layout[d]
            /\ \A m \in 1..curr_seq_num : Loaded(Layout[d][m])
            /\ recovered_books \subseteq Listed(d)
      BY <2>2, <1>1 DEF BooksInv, Progress
    <3>2. Reports(d) # NoReports BY ReportsBounded
    <3>3. Reports(d) = Reports(c) BY <3>1, <3>2, <1>1 DEF ReportsDiffer
    <3>4. Layout[c] = Layout[d] BY <3>3, <1>1 DEF CountTellsBooks
    <3>5. Listed(c) = Listed(d) BY <3>4 DEF Listed
    <3>6. curr_seq_num \in Nat BY DEF FeedInv, TypeOK
    <3>7. n = 1 \/ n \in {curr_seq_num, curr_seq_num + 1} BY <1>1 DEF Gap
    <3>8. ASSUME NEW m \in 1..n, m # n PROVE Loaded(Layout[c][m])
      <4>1. m \in 1..curr_seq_num BY <3>6, <3>7, <3>8, <1>1
      <4> QED BY <4>1, <3>1, <3>4
    <3> QED BY <3>1, <3>2, <3>3, <3>5, <3>8, <1>2
  <2> QED BY <2>1, <2>2
<1>6. ASSUME NEW m \in 1..n PROVE Loaded(Layout[c][m])'
  <2>1. CASE m = n BY <2>1, <1>2, <1>4 DEF Loaded, k
  <2>2. CASE m # n
    <3>1. Loaded(Layout[c][m]) BY <2>2, <1>5
    <3> QED BY <3>1, <1>2 DEF Loaded
  <2> QED BY <2>1, <2>2
<1>7. recovered_books' \subseteq Listed(c) BY <1>2, <1>4, <1>5
<1>8. WholeBooks'
  <2> SUFFICES ASSUME NEW b \in recovered_books', NEW i \in 1..Chunks[b]
               PROVE  \E x \in loaded' : x.book = b /\ x.chunk = i
    BY DEF WholeBooks
  <2>1. CASE b \in recovered_books
    BY <2>1, <1>2 DEF BooksInv, WholeBooks
  <2>2. CASE b = k.book /\ k.chunk = Chunks[k.book]
    <3>1. i \in 1..k.chunk BY <2>2
    <3>2. PICK m \in 1..n : Layout[c][m] = [book |-> k.book, chunk |-> i]
      BY <3>1, <1>1, ChunkOrderAssumption DEF k
    <3>3. Layout[c][m].book = b /\ Layout[c][m].chunk = i BY <3>2, <2>2
    <3> QED BY <3>3, <1>6 DEF Loaded
  <2> QED BY <2>1, <2>2, <1>2
<1>9. AllBooks'
  <2>1. CASE answer' = NoAnswer BY <2>1 DEF AllBooks
  <2>2. CASE Cardinality(recovered_books') >= numreports'
    <3>1. /\ Cardinality(recovered_books') <= Cardinality(Listed(c))
          /\ Cardinality(Listed(c)) = Cardinality(recovered_books') => Listed(c) = recovered_books'
          /\ IsFiniteSet(recovered_books')
      BY <1>3, <1>7, FS_Subset
    <3>2. Cardinality(recovered_books') \in Nat BY <3>1, FS_CardinalityType
    <3>3. Cardinality(recovered_books') = Cardinality(Listed(c))
      BY <3>1, <3>2, <2>2, <1>3, <1>5 DEF Reports
    <3> QED BY <3>1, <3>3, <1>1 DEF AllBooks, Listed
  <2> QED BY <2>1, <2>2, <1>1, <1>2
<1>10. Progress'
  <2>2. \A m \in 1..n : Loaded(Layout[c][m])' BY <1>6
  <2> QED BY <1>1, <1>2, <1>5, <1>7, <2>2 DEF Progress, Listed, Reports, Loaded
<1> QED BY <1>8, <1>9, <1>10 DEF BooksInv

\* Every step keeps what the books hold, if the count of reports tells lists of books apart.
LEMMA BooksNext ==
    ASSUME CountTellsBooks
    PROVE  FeedInv /\ BooksInv /\ [Next]_vars => BooksInv'
<1> SUFFICES ASSUME FeedInv, BooksInv, [Next]_vars PROVE BooksInv' OBVIOUS
<1>1. CASE \E kind \in {"data", "instr"} : Request(kind)
  BY <1>1, BooksKept DEF Request
<1>2. CASE BeginAny
  <2>1. PICK c, n : Begin(c, n) BY <1>2 DEF BeginAny
  <2> QED BY <2>1, BooksCleared DEF Begin
<1>3. CASE Emit BY <1>3, BooksKept DEF Emit, mailVars
<1>4. CASE Lose \/ Duplicate \/ Overtake
  BY <1>4, BooksKept DEF Lose, Duplicate, Overtake, Fault, mailVars
<1>5. CASE WaitForFirst \/ InstrWaitForFirst \/ InstrSeen
  BY <1>5, BooksKept DEF WaitForFirst, InstrWaitForFirst, InstrSeen, mailVars
<1>6. CASE PacketGap \/ ReportsChanged
  <2>1. answer' = NoAnswer
    BY <1>6 DEF PacketGap, ReportsChanged, Reading, DataRestart, FeedInv, Unanswered
  <2> QED BY <1>6, <2>1, BooksCleared DEF PacketGap, ReportsChanged, DataRestart
<1>7. CASE LoadChunk BY <1>7, LoadChunkBooks
<1>8. CASE InstrRestart
  <2>1. UNCHANGED <<dataVars, loaded, answer>> /\ mode' # "data"
    BY <1>8 DEF InstrRestart, Reading, mailVars
  <2> QED BY <2>1, BooksKept
<1>9. CASE InstrDefine
  <2>1. UNCHANGED <<dataVars, loaded, answer>> /\ mode' # "data"
    BY <1>9 DEF InstrDefine, Reading
  <2> QED BY <2>1, BooksKept
<1>10. CASE UNCHANGED vars
  BY <1>10, BooksKept DEF vars, mailVars
<1> QED BY <1>1, <1>2, <1>3, <1>4, <1>5, <1>6, <1>7, <1>8, <1>9, <1>10 DEF Next, Read

\* The loops' state is consistent, a book that counts as recovered has had all
\* its chunks loaded and an answered recovery has recovered every book: for
\* every channel and feed in which the number of books tells cycles apart
\* (datarecovery_handler looks at nothing else).
THEOREM RecoveryCorrect == CountTellsBooks /\ Spec => []RecoveryInv
<1> SUFFICES ASSUME CountTellsBooks PROVE Spec => []RecoveryInv OBVIOUS
<1>1. FeedInv /\ BooksInv /\ [Next]_vars => BooksInv' BY BooksNext
<1>2. FeedInv /\ BooksInv => RecoveryInv
  BY DEF FeedInv, BooksInv, RecoveryInv
<1> QED BY <1>1, <1>2, BooksInit, FeedInductive, PTL DEF Spec
=============================================================================

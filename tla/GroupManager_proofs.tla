------------------------ MODULE GroupManager_proofs ------------------------
(***************************************************************************)
(* Proofs about the group manager, for any number of groups and actors,    *)
(* any crashes, silences and commands of the debugger:                     *)
(*   - the group that runs holds the active permission, unless that lapsed *)
(*     when the group was unregistered (PermissionInv);                    *)
(*   - a stop of the debugger holds every grant back (StopHolds);          *)
(*   - the manager is a first in, first out lock (FifoPermissionSpec).     *)
(*                                                                         *)
(* The first needs to know where the permission with sequence number n can *)
(* be: in one GRANT under way, with one running group, or in DONEs.  That  *)
(* is ManagerInv.                                                          *)
(***************************************************************************)
EXTENDS GroupManager, FiniteSetTheorems, FunctionTheorems, SequenceTheorems,
        WellFoundedInduction, TLAPS
-----------------------------------------------------------------------------
(* The inductive invariant *)

\* the types of the manager's members
ManagerState ==
    [registered : SUBSET Group, actors : SUBSET Actor,
     identity : [Group -> Nat], queue : Seq(Actor), active : Nat,
     active_actor : Actor \cup {NoActor}, global_sequence : Nat,
     pending : [Actor -> Nat], running : BOOLEAN, shutting_down : BOOLEAN,
     pending_acks : SUBSET Group, debug_stopped : BOOLEAN,
     breakpoints : SUBSET Pattern, seen : SUBSET Group, silent : SUBSET Group,
     lapsed : SUBSET Nat, down : [Group -> Seq(Message)]]

\* m is the grant with sequence number n
IsGrant(m, n) == m.type = "GRANT" /\ m.seq = n

\* permission n of the manager s is active for actor a, or lapsed
Valid(s, n, a) == n \in s.lapsed \/ (s.active = n /\ s.active_actor = a)

\* no grant with number n is under way
NotUnderWay(s, n) ==
    \A g \in Group : \A i \in DOMAIN s.down[g] : ~IsGrant(s.down[g][i], n)

\* the members of the manager agree with each other
Members(s) ==
    /\ s \in ManagerState
    /\ s.active <= s.global_sequence
    /\ s.active = 0 <=> s.active_actor = NoActor
    /\ s.pending_acks \subseteq s.registered
    /\ s.registered \subseteq s.seen /\ s.silent \subseteq s.seen

\* a grant under way was given and is valid
GrantsValid(s) ==
    \A g \in Group : \A i \in DOMAIN s.down[g] :
        /\ s.down[g][i].type \in {"GRANT", "WAIT"} => s.down[g][i].actor \in Actor
        /\ s.down[g][i].type = "GRANT" =>
               /\ s.down[g][i].seq \in 1..s.global_sequence
               /\ Valid(s, s.down[g][i].seq, s.down[g][i].actor)

\* and is the only one with its number
GrantsUnique(s) ==
    \A g, h \in Group : \A i \in DOMAIN s.down[g], j \in DOMAIN s.down[h] :
        /\ s.down[g][i].type = "GRANT" /\ s.down[h][j].type = "GRANT"
        /\ s.down[g][i].seq = s.down[h][j].seq
        => g = h /\ i = j

Sound(s) == Members(s) /\ GrantsValid(s) /\ GrantsUnique(s)

\* what the groups send the manager
ClientTypes ==
    {"REGISTER_GROUP", "REGISTER_ACTOR", "TOKEN", "REQUEST", "DONE",
     "SHUTDOWN_REQUEST", "SHUTDOWN_ACK"}

\* the groups and what they have sent
Clients ==
    /\ up \in [Group -> Seq(Message)]
    /\ st \in [Group -> GroupState]
    /\ cur \in [Group -> Actor \cup {NoActor}]
    /\ grant \in [Group -> Nat]
    /\ inc \in [Group -> Nat]
    /\ \A g \in Group : \A i \in DOMAIN up[g] :
        /\ up[g][i].type \in ClientTypes
        /\ up[g][i].type \in {"TOKEN", "REQUEST", "REGISTER_ACTOR"} => up[g][i].actor \in Actor

\* a running group has a permission that was given, is valid and is nobody else's
RunnersAlone ==
    /\ \A g \in Group : st[g] = "running" =>
        /\ grant[g] \in 1..gm.global_sequence
        /\ Valid(gm, grant[g], cur[g])
        /\ NotUnderWay(gm, grant[g])
    /\ \A g, h \in Group :
        st[g] = "running" /\ st[h] = "running" /\ grant[g] = grant[h] => g = h

\* the permission of a DONE was given and nobody runs or will run under it
DoneIsOver ==
    \A g \in Group : \A i \in DOMAIN up[g] : up[g][i].type = "DONE" =>
        /\ up[g][i].seq <= gm.global_sequence
        /\ NotUnderWay(gm, up[g][i].seq)
        /\ \A h \in Group : st[h] = "running" => grant[h] # up[g][i].seq

ManagerInv == Sound(gm) /\ Clients /\ RunnersAlone /\ DoneIsOver
-----------------------------------------------------------------------------
(* Induction, over numbers and over sequences, as a fact about sets *)

\* A set of numbers that is not empty has a least one.
LEMMA LeastNat ==
    ASSUME NEW T \in SUBSET Nat, T # {}
    PROVE  \E x \in T : \A y \in T : x <= y
<1>1. PICK x \in T : \A y \in T : ~ (<<y, x>> \in OpToRel(<, Nat))
  BY NatLessThanWellFounded, WFMin
<1>2. \A y \in T : ~ (y < x)
  BY <1>1 DEF OpToRel
<1> QED BY <1>2

\* A set that holds 0 and with n also n + 1 holds every number.
LEMMA SetInduction ==
    ASSUME NEW T \in SUBSET Nat, 0 \in T, \A n \in T : n + 1 \in T
    PROVE  T = Nat
<1> SUFFICES ASSUME Nat \ T # {} PROVE FALSE
  OBVIOUS
<1>1. PICK x \in Nat \ T : \A y \in Nat \ T : x <= y
  BY LeastNat, Nat \ T \in SUBSET Nat
<1>2. x # 0 /\ x - 1 \in Nat
  BY <1>1
<1>3. x - 1 \in T
  BY <1>1, <1>2
<1> QED BY <1>3, <1>2

\* A sequence that is not empty is another one with an element appended, and
\* one with an element in front.
LEMMA SeqParts ==
    ASSUME NEW A, NEW s \in Seq(A), s # <<>>
    PROVE  /\ \E r \in Seq(A), e \in A : s = Append(r, e) /\ Len(r) = Len(s) - 1
           /\ s = <<Head(s)>> \o Tail(s) /\ Head(s) \in A /\ Tail(s) \in Seq(A)
<1>1. Len(s) \in Nat \ {0}
  BY EmptySeq
<1> DEFINE r == [i \in 1..(Len(s) - 1) |-> s[i]]
           e == s[Len(s)]
<1>2. r \in Seq(A) /\ Len(r) = Len(s) - 1 /\ e \in A
  BY <1>1
<1>3. s = Append(r, e)
  BY <1>1, <1>2
<1>4. s = <<Head(s)>> \o Tail(s) /\ Head(s) \in A /\ Tail(s) \in Seq(A)
  <2>1. /\ Head(s) \in A /\ Tail(s) \in Seq(A) /\ Len(Tail(s)) = Len(s) - 1
        /\ \A i \in 1..Len(Tail(s)) : Tail(s)[i] = s[i + 1]
        /\ Head(s) = s[1]
    BY HeadTailProperties
  <2>2. <<Head(s)>> \in Seq(A) /\ Len(<<Head(s)>>) = 1 /\ <<Head(s)>>[1] = s[1]
    BY <2>1
  <2>3. /\ <<Head(s)>> \o Tail(s) \in Seq(A)
        /\ Len(<<Head(s)>> \o Tail(s)) = Len(s)
        /\ \A i \in 1..Len(s) : (<<Head(s)>> \o Tail(s))[i] =
               IF i <= 1 THEN <<Head(s)>>[i] ELSE Tail(s)[i - 1]
    BY <1>1, <2>1, <2>2, ConcatProperties
  <2>4. \A i \in 1..Len(s) : (<<Head(s)>> \o Tail(s))[i] = s[i]
    BY <1>1, <2>1, <2>2, <2>3
  <2> QED BY <2>1, <2>3, <2>4, SeqEqual
<1> QED BY <1>2, <1>3, <1>4

\* A set of sequences that holds the empty one, and with s also s with any
\* element appended, holds every sequence.
LEMMA SeqInduction ==
    ASSUME NEW A, NEW T \in SUBSET Seq(A), <<>> \in T,
           \A s \in T, e \in A : Append(s, e) \in T
    PROVE  T = Seq(A)
<1> DEFINE L == {n \in Nat : \A s \in Seq(A) : Len(s) = n => s \in T}
<1>1. 0 \in L
  OBVIOUS
<1>2. ASSUME NEW n \in L PROVE n + 1 \in L
  <2> SUFFICES ASSUME NEW s \in Seq(A), Len(s) = n + 1 PROVE s \in T
    OBVIOUS
  <2>1. s # <<>> /\ n \in Nat
    OBVIOUS
  <2>2. PICK r \in Seq(A), e \in A : s = Append(r, e) /\ Len(r) = Len(s) - 1
    BY <2>1, SeqParts
  <2>3. r \in T
    BY <2>1, <2>2
  <2> QED BY <2>2, <2>3
<1>3. L = Nat
  <2>1. L \in SUBSET Nat OBVIOUS
  <2> HIDE DEF L
  <2> QED BY <1>1, <1>2, <2>1, SetInduction
<1>4. ASSUME NEW s \in Seq(A) PROVE s \in T
  <2>1. Len(s) \in L BY <1>3
  <2> QED BY <2>1
<1> QED BY <1>4
-----------------------------------------------------------------------------
(* What is left of a queue without the tokens of some groups *)

\* the recursive definition of Without has a function, for every prefix
Kept(q, S, n, f) ==
    f = [i \in 0..n |->
            IF i = 0 THEN <<>>
            ELSE IF GroupOf[q[i]] \in S THEN f[i - 1]
            ELSE Append(f[i - 1], q[i])]

\* The recursion of Without has a solution for every length.
LEMMA KeptExists ==
    ASSUME NEW q, NEW S, NEW n \in Nat
    PROVE  \E f : Kept(q, S, n, f)
<1> DEFINE T == {k \in Nat : \E f : Kept(q, S, k, f)}
<1>1. 0 \in T
  <2> DEFINE f == [i \in 0..0 |-> <<>>]
  <2>1. Kept(q, S, 0, f)
    BY DEF Kept
  <2> QED BY <2>1
<1>2. ASSUME NEW k \in T PROVE k + 1 \in T
  <2>1. PICK f : Kept(q, S, k, f)
    OBVIOUS
  <2> DEFINE h == [i \in 0..(k + 1) |->
                     IF i <= k THEN f[i]
                     ELSE IF GroupOf[q[i]] \in S THEN f[i - 1]
                     ELSE Append(f[i - 1], q[i])]
  <2>2. k \in Nat /\ f = [i \in 0..k |->
                     IF i = 0 THEN <<>>
                     ELSE IF GroupOf[q[i]] \in S THEN f[i - 1]
                     ELSE Append(f[i - 1], q[i])]
    BY <2>1 DEF Kept
  <2>3. \A i \in 0..k : h[i] = f[i]
    BY <2>2
  <2>4. h[k + 1] = IF GroupOf[q[k + 1]] \in S THEN h[k] ELSE Append(h[k], q[k + 1])
    BY <2>2
  <2>5. \A i \in 0..k : h[i] = IF i = 0 THEN <<>>
                               ELSE IF GroupOf[q[i]] \in S THEN h[i - 1]
                               ELSE Append(h[i - 1], q[i])
    <3> SUFFICES ASSUME NEW i \in 0..k
                 PROVE  h[i] = IF i = 0 THEN <<>>
                               ELSE IF GroupOf[q[i]] \in S THEN h[i - 1]
                               ELSE Append(h[i - 1], q[i])
      OBVIOUS
    <3>1. i # 0 => h[i - 1] = f[i - 1]
      BY <2>2, <2>3
    <3>2. f[i] = IF i = 0 THEN <<>>
                 ELSE IF GroupOf[q[i]] \in S THEN f[i - 1]
                 ELSE Append(f[i - 1], q[i])
      BY <2>2
    <3> HIDE DEF h
    <3> QED BY <2>3, <3>1, <3>2
  <2>6. h = [i \in 0..(k + 1) |-> h[i]]
    OBVIOUS
  <2>7. \A i \in 0..(k + 1) : h[i] = IF i = 0 THEN <<>>
                               ELSE IF GroupOf[q[i]] \in S THEN h[i - 1]
                               ELSE Append(h[i - 1], q[i])
    <3> HIDE DEF h
    <3> QED BY <2>2, <2>4, <2>5
  <2>8. Kept(q, S, k + 1, h)
    <3> HIDE DEF h
    <3> QED BY <2>6, <2>7 DEF Kept
  <2> QED BY <2>8, <2>2
<1>3. T = Nat
  <2>1. T \in SUBSET Nat OBVIOUS
  <2> HIDE DEF T
  <2> QED BY <1>1, <1>2, <2>1, SetInduction
<1> QED BY <1>3

\* two of them agree on the prefix they share
LEMMA KeptAgree ==
    \A q, r, S, f, h : \A m, n \in Nat :
        Kept(q, S, m, f) /\ Kept(r, S, n, h) /\ m <= n /\ (\A i \in 1..m : q[i] = r[i])
            => \A i \in 0..m : f[i] = h[i]
<1> SUFFICES ASSUME NEW q, NEW r, NEW S, NEW f, NEW h, NEW m \in Nat, NEW n \in Nat,
                    Kept(q, S, m, f), Kept(r, S, n, h), m <= n,
                    \A i \in 1..m : q[i] = r[i]
             PROVE  \A i \in 0..m : f[i] = h[i]
  OBVIOUS
<1> DEFINE T == {k \in Nat : k <= m => f[k] = h[k]}
<1>1. 0 \in T
  BY DEF Kept
<1>2. ASSUME NEW k \in T PROVE k + 1 \in T
  <2> SUFFICES ASSUME k + 1 <= m PROVE f[k + 1] = h[k + 1]
    OBVIOUS
  <2>1. /\ k \in Nat /\ f[k] = h[k] /\ q[k + 1] = r[k + 1]
        /\ k + 1 \in 0..m /\ k + 1 \in 0..n /\ k + 1 # 0 /\ (k + 1) - 1 = k
    OBVIOUS
  <2>2. f[k + 1] = IF GroupOf[q[k + 1]] \in S THEN f[k] ELSE Append(f[k], q[k + 1])
    BY <2>1 DEF Kept
  <2>3. h[k + 1] = IF GroupOf[r[k + 1]] \in S THEN h[k] ELSE Append(h[k], r[k + 1])
    BY <2>1 DEF Kept
  <2> QED BY <2>1, <2>2, <2>3
<1>3. T = Nat
  <2>1. T \in SUBSET Nat OBVIOUS
  <2> HIDE DEF T
  <2> QED BY <1>1, <1>2, <2>1, SetInduction
<1> QED BY <1>3

\* Without is that solution.
LEMMA WithoutIsKept ==
    ASSUME NEW q \in Seq(Actor), NEW S, NEW f, Kept(q, S, Len(q), f)
    PROVE  Perm!Without(q, S) = f[Len(q)]
<1>1. PICK h : h = CHOOSE k : Kept(q, S, Len(q), k)
  OBVIOUS
<1>2. Kept(q, S, Len(q), h)
  BY <1>1
<1>3. Perm!Without(q, S) = h[Len(q)]
  BY <1>1 DEF Perm!Without, Kept
<1>4. Len(q) \in Nat /\ Len(q) \in 0..Len(q)
  OBVIOUS
<1>5. \A i \in 0..Len(q) : f[i] = h[i]
  BY <1>2, <1>4, KeptAgree
<1> QED BY <1>3, <1>4, <1>5

\* Without goes through a queue from its front to its end.
LEMMA WithoutStep ==
    /\ \A S : Perm!Without(<<>>, S) = <<>>
    /\ \A S : \A q \in Seq(Actor), a \in Actor :
           Perm!Without(Append(q, a), S) =
               IF GroupOf[a] \in S THEN Perm!Without(q, S)
               ELSE Append(Perm!Without(q, S), a)
<1>1. ASSUME NEW S PROVE Perm!Without(<<>>, S) = <<>>
  <2>1. <<>> \in Seq(Actor) /\ Len(<<>>) = 0
    OBVIOUS
  <2>2. PICK f : Kept(<<>>, S, 0, f)
    BY KeptExists
  <2>3. f[0] = <<>>
    BY <2>2 DEF Kept
  <2>4. Perm!Without(<<>>, S) = f[Len(<<>>)]
    BY <2>1, <2>2, WithoutIsKept
  <2> QED BY <2>1, <2>3, <2>4
<1>2. ASSUME NEW S, NEW q \in Seq(Actor), NEW a \in Actor
      PROVE  Perm!Without(Append(q, a), S) =
                 IF GroupOf[a] \in S THEN Perm!Without(q, S)
                 ELSE Append(Perm!Without(q, S), a)
  <2>1. PICK r \in Seq(Actor), n \in Nat, m \in Nat :
            r = Append(q, a) /\ n = Len(q) /\ m = n + 1
    <3>1. Append(q, a) \in Seq(Actor) /\ Len(q) \in Nat /\ Len(q) + 1 \in Nat
      OBVIOUS
    <3> QED BY <3>1
  <2>2. /\ Len(r) = m /\ r[m] = a /\ n <= m /\ n \in 0..n
        /\ m \in 0..m /\ m # 0 /\ m - 1 = n
    BY <2>1
  <2>. \A i \in 1..n : q[i] = r[i]
    BY <2>1
  <2>3. PICK f : Kept(q, S, n, f)
    BY KeptExists
  <2>4. PICK h : Kept(r, S, m, h)
    BY KeptExists
  <2>5. \A i \in 0..n : f[i] = h[i]
    BY <2>2, <2>3, <2>4, KeptAgree
  <2>6. Perm!Without(q, S) = f[n]
    BY <2>1, <2>3, WithoutIsKept
  <2>7. Perm!Without(r, S) = h[m]
    BY <2>2, <2>4, WithoutIsKept
  <2>8. h[m] = IF GroupOf[r[m]] \in S THEN h[n] ELSE Append(h[n], r[m])
    BY <2>2, <2>4 DEF Kept
  <2> QED BY <2>1, <2>2, <2>5, <2>6, <2>7, <2>8
<1> QED BY <1>1, <1>2

\* What is left is a queue of actors.
LEMMA WithoutType ==
    ASSUME NEW q \in Seq(Actor), NEW S
    PROVE  Perm!Without(q, S) \in Seq(Actor)
<1> DEFINE T == {r \in Seq(Actor) : Perm!Without(r, S) \in Seq(Actor)}
<1>1. <<>> \in T
  <2>1. <<>> \in Seq(Actor)
    BY EmptySeq
  <2>2. Perm!Without(<<>>, S) = <<>>
    BY WithoutStep
  <2> QED BY <2>1, <2>2
<1>2. ASSUME NEW r \in T, NEW a \in Actor PROVE Append(r, a) \in T
  <2>1. r \in Seq(Actor) /\ Append(r, a) \in Seq(Actor) /\ Perm!Without(r, S) \in Seq(Actor)
    OBVIOUS
  <2>2. Append(Perm!Without(r, S), a) \in Seq(Actor)
    BY <2>1
  <2> QED BY <2>1, <2>2, WithoutStep
<1>3. T = Seq(Actor)
  <2>1. T \in SUBSET Seq(Actor) OBVIOUS
  <2> HIDE DEF T
  <2> QED BY <1>1, <1>2, <2>1, SeqInduction
<1> QED BY <1>3

\* Taking out the tokens of one group after those of others.
LEMMA WithoutTwice ==
    ASSUME NEW q \in Seq(Actor), NEW S, NEW R
    PROVE  Perm!Without(Perm!Without(q, S), R) = Perm!Without(q, S \cup R)
<1> DEFINE W(r, X) == Perm!Without(r, X)
           T == {r \in Seq(Actor) : W(W(r, S), R) = W(r, S \cup R)}
<1>1. <<>> \in T
  BY WithoutStep, EmptySeq
<1>2. ASSUME NEW r \in T, NEW a \in Actor PROVE Append(r, a) \in T
  <2>1. r \in Seq(Actor) /\ Append(r, a) \in Seq(Actor) /\ W(W(r, S), R) = W(r, S \cup R)
    OBVIOUS
  <2>2. W(r, S) \in Seq(Actor)
    BY WithoutType, <2>1
  <2>3. \A X : \A p \in Seq(Actor) :
            W(Append(p, a), X) = IF GroupOf[a] \in X THEN W(p, X) ELSE Append(W(p, X), a)
    BY WithoutStep
  <2> HIDE DEF W
  <2>4. W(W(Append(r, a), S), R) = W(Append(r, a), S \cup R)
    <3>1. CASE GroupOf[a] \in S
      BY <3>1, <2>1, <2>3
    <3>2. CASE GroupOf[a] \notin S
      <4>1. W(Append(r, a), S) = Append(W(r, S), a)
        BY <3>2, <2>1, <2>3
      <4>2. W(Append(W(r, S), a), R) =
                IF GroupOf[a] \in R THEN W(W(r, S), R) ELSE Append(W(W(r, S), R), a)
        BY <2>2, <2>3
      <4>3. W(Append(r, a), S \cup R) =
                IF GroupOf[a] \in R THEN W(r, S \cup R) ELSE Append(W(r, S \cup R), a)
        BY <3>2, <2>1, <2>3
      <4> QED BY <4>1, <4>2, <4>3, <2>1
    <3> QED BY <3>1, <3>2
  <2> QED BY <2>1, <2>4
<1>3. T = Seq(Actor)
  <2>1. T \in SUBSET Seq(Actor) OBVIOUS
  <2> HIDE DEF T
  <2> QED BY <1>1, <1>2, <2>1, SeqInduction
<1> QED BY <1>3

\* The head of a queue is taken out, or it is the head of what is left.
LEMMA WithoutFront ==
    ASSUME NEW a \in Actor, NEW q \in Seq(Actor), NEW S
    PROVE  Perm!Without(<<a>> \o q, S) =
               IF GroupOf[a] \in S THEN Perm!Without(q, S)
               ELSE <<a>> \o Perm!Without(q, S)
<1> DEFINE W(r) == Perm!Without(r, S)
           Claim(r) == W(<<a>> \o r) = IF GroupOf[a] \in S THEN W(r) ELSE <<a>> \o W(r)
           T == {r \in Seq(Actor) : Claim(r)}
<1>0. /\ W(<<>>) = <<>>
      /\ \A b \in Actor : \A p \in Seq(Actor) :
            W(Append(p, b)) = IF GroupOf[b] \in S THEN W(p) ELSE Append(W(p), b)
  BY WithoutStep
<1>1. Claim(<<>>)
  <2>1. <<a>> \o <<>> = Append(<<>>, a) /\ <<>> \in Seq(Actor) /\ Append(<<>>, a) = <<a>>
    OBVIOUS
  <2> HIDE DEF W
  <2> QED BY <2>1, <1>0
<1>2. ASSUME NEW r \in Seq(Actor), Claim(r), NEW b \in Actor PROVE Claim(Append(r, b))
  <2>1. W(r) \in Seq(Actor)
    BY WithoutType
  <2>2. \A p \in Seq(Actor) : <<a>> \o Append(p, b) = Append(<<a>> \o p, b) /\ <<a>> \o p \in Seq(Actor)
    OBVIOUS
  <2> HIDE DEF W
  <2>3. W(<<a>> \o Append(r, b)) =
            IF GroupOf[b] \in S THEN W(<<a>> \o r) ELSE Append(W(<<a>> \o r), b)
    BY <2>2, <1>0
  <2>4. W(Append(r, b)) = IF GroupOf[b] \in S THEN W(r) ELSE Append(W(r), b)
    BY <1>0
  <2>5. <<a>> \o Append(W(r), b) = Append(<<a>> \o W(r), b)
    BY <2>1, <2>2
  <2> QED BY <1>2, <2>3, <2>4, <2>5
<1>3. T = Seq(Actor)
  <2>1. T \in SUBSET Seq(Actor) /\ <<>> \in T BY <1>1, EmptySeq
  <2>2. \A r \in T, b \in Actor : Append(r, b) \in T
    <3> SUFFICES ASSUME NEW r \in T, NEW b \in Actor PROVE Append(r, b) \in T
      OBVIOUS
    <3>1. r \in Seq(Actor) /\ Claim(r) /\ Append(r, b) \in Seq(Actor)
      OBVIOUS
    <3> HIDE DEF Claim
    <3> QED BY <3>1, <1>2
  <2> HIDE DEF T
  <2> QED BY <2>1, <2>2, SeqInduction
<1> QED BY <1>3
-----------------------------------------------------------------------------
(* What a handler does to the permissions: t is the manager after s *)

\* it takes back no number, permission or lapse, the active permission n
\* excepted, and sends no old grant again
KeepsBut(s, t, n) ==
    /\ s.global_sequence <= t.global_sequence
    /\ s.lapsed \subseteq t.lapsed
    /\ s.active \notin {0, n} => Valid(t, s.active, s.active_actor)
    /\ \A k \in 0..s.global_sequence : NotUnderWay(s, k) => NotUnderWay(t, k)

\* no number is given while the debugger has stopped the system
Holds(s, t) ==
    s.debug_stopped => t.debug_stopped /\ t.global_sequence = s.global_sequence

\* Perm!Then of t
LeftWith(t, q, h) ==
    \/ t.queue = q /\ t.active_actor = h
    \/ h = NoActor /\ q # <<>> /\ t.active_actor = Head(q) /\ t.queue = Tail(q)

\* Permission n was over before the two steps; it still is.
LEMMA KeepsTwice ==
    ASSUME NEW s, NEW t, NEW u, NEW n \in Nat,
           Members(s), Members(t), Members(u), n = 0 \/ n = s.active,
           KeepsBut(s, t, n), KeepsBut(t, u, 0)
    PROVE  KeepsBut(s, u, n)
<1>1. /\ s.global_sequence \in Nat /\ t.global_sequence \in Nat /\ u.global_sequence \in Nat
      /\ s.active \in Nat /\ t.active \in Nat
  BY DEF Members, ManagerState
<1>2. s.active \notin {0, n} => Valid(u, s.active, s.active_actor)
  BY DEF KeepsBut, Valid
<1>3. \A k \in 0..s.global_sequence : NotUnderWay(s, k) => NotUnderWay(u, k)
  BY <1>1 DEF KeepsBut
<1> QED BY <1>1, <1>2, <1>3 DEF KeepsBut

\* A step that gives no permission and takes none back.
LEMMA NoGrant ==
    ASSUME NEW s, NEW t, Sound(s), Members(t),
           t.global_sequence = s.global_sequence, s.lapsed \subseteq t.lapsed,
           s.active # 0 => Valid(t, s.active, s.active_actor),
           \A g \in Group : \A i \in DOMAIN t.down[g] :
               /\ t.down[g][i].type = "GRANT" =>
                      i \in DOMAIN s.down[g] /\ t.down[g][i] = s.down[g][i]
               /\ t.down[g][i].type = "WAIT" => t.down[g][i].actor \in Actor
    PROVE  Sound(t) /\ KeepsBut(s, t, 0)
<1>1. s.global_sequence \in Nat
  BY DEF Sound, Members, ManagerState
<1>2. GrantsValid(t)
  <2> SUFFICES ASSUME NEW g \in Group, NEW i \in DOMAIN t.down[g], t.down[g][i].type = "GRANT"
               PROVE  /\ t.down[g][i].actor \in Actor
                      /\ t.down[g][i].seq \in 1..t.global_sequence
                      /\ Valid(t, t.down[g][i].seq, t.down[g][i].actor)
    BY DEF GrantsValid
  <2>1. i \in DOMAIN s.down[g] /\ t.down[g][i] = s.down[g][i]
    OBVIOUS
  <2>2. /\ s.down[g][i].actor \in Actor /\ s.down[g][i].seq \in 1..s.global_sequence
        /\ Valid(s, s.down[g][i].seq, s.down[g][i].actor)
    BY <2>1 DEF Sound, GrantsValid
  <2> QED BY <1>1, <2>1, <2>2 DEF Valid
<1>3. GrantsUnique(t)
  BY DEF Sound, GrantsUnique
<1>4. \A k \in 0..s.global_sequence : NotUnderWay(s, k) => NotUnderWay(t, k)
  BY DEF NotUnderWay, IsGrant
<1> QED BY <1>1, <1>2, <1>3, <1>4 DEF Sound, KeepsBut

\* A message that is not a grant.
LEMMA SendsOther ==
    ASSUME NEW s, Sound(s), NEW g \in Group, NEW i \in Nat, NEW type \in MsgType,
           NEW a \in Actor \cup {NoActor}, NEW n \in Nat,
           type # "GRANT", type = "WAIT" => a \in Actor
    PROVE  LET t == SendTo(s, g, i, type, a, n)
           IN  /\ Sound(t) /\ KeepsBut(s, t, 0)
               /\ t = [s EXCEPT !.down = t.down]
<1> DEFINE t == SendTo(s, g, i, type, a, n)
           m == Msg(type, a, n, i)
<1>1. m \in Message /\ m.type = type /\ m.actor = a
  BY DEF Msg, Message
<1>2. s \in ManagerState
  BY DEF Sound, Members
<1>3. t = [s EXCEPT !.down = [s.down EXCEPT ![g] = Append(s.down[g], m)]]
  BY DEF SendTo
<1> HIDE DEF m
<1>4. [s.down EXCEPT ![g] = Append(s.down[g], m)] \in [Group -> Seq(Message)]
  BY <1>1, <1>2, AppendProperties DEF ManagerState
<1>5. t \in ManagerState
  <2> HIDE DEF t
  <2> QED BY <1>2, <1>3, <1>4 DEF ManagerState
<1>6. t = [s EXCEPT !.down = t.down] /\ t.down = [s.down EXCEPT ![g] = Append(s.down[g], m)]
  <2> HIDE DEF t
  <2> QED BY <1>2, <1>3 DEF ManagerState
<1> HIDE DEF t
<1>7. Members(t)
  BY <1>2, <1>5, <1>6 DEF Members, Sound, ManagerState
<1>8. \A h \in Group : \A j \in DOMAIN t.down[h] :
               /\ t.down[h][j].type = "GRANT" =>
                      j \in DOMAIN s.down[h] /\ t.down[h][j] = s.down[h][j]
               /\ t.down[h][j].type = "WAIT" => t.down[h][j].actor \in Actor
  <2> SUFFICES ASSUME NEW h \in Group, NEW j \in DOMAIN t.down[h]
               PROVE  /\ t.down[h][j].type = "GRANT" =>
                             j \in DOMAIN s.down[h] /\ t.down[h][j] = s.down[h][j]
                      /\ t.down[h][j].type = "WAIT" => t.down[h][j].actor \in Actor
    OBVIOUS
  <2>1. s.down[h] \in Seq(Message)
    BY <1>2 DEF ManagerState
  <2>2. CASE h # g
    <3>1. t.down[h] = s.down[h]
      BY <2>2, <1>2, <1>6 DEF ManagerState
    <3> QED BY <3>1 DEF Sound, GrantsValid
  <2>3. CASE h = g
    <3>1. t.down[h] = Append(s.down[h], m)
      BY <2>3, <1>2, <1>6 DEF ManagerState
    <3>2. \/ j \in 1..Len(s.down[h]) /\ t.down[h][j] = s.down[h][j]
          \/ t.down[h][j] = m
      BY <3>1, <2>1, <1>1, AppendProperties, LenProperties
    <3>3. CASE j \in 1..Len(s.down[h]) /\ t.down[h][j] = s.down[h][j]
      BY <3>3, <2>1, LenProperties DEF Sound, GrantsValid
    <3>4. CASE t.down[h][j] = m
      BY <3>4, <1>1
    <3> QED BY <3>2, <3>3, <3>4
  <2> QED BY <2>2, <2>3
<1>9. /\ t.global_sequence = s.global_sequence /\ t.lapsed = s.lapsed
      /\ t.active = s.active /\ t.active_actor = s.active_actor
  BY <1>2, <1>6 DEF ManagerState
<1>10. s.active # 0 => Valid(t, s.active, s.active_actor)
  BY <1>9 DEF Valid
<1>11. Sound(t) /\ KeepsBut(s, t, 0)
  BY <1>7, <1>8, <1>9, <1>10, NoGrant
<1> QED BY <1>6, <1>11 DEF t

\* The head of the queue gets the permission.
LEMMA GrantsHead ==
    ASSUME NEW s, Sound(s), s.active = 0, s.queue # <<>>
    PROVE  LET t == GrantHead(s)
           IN  /\ Sound(t) /\ KeepsBut(s, t, 0)
               /\ t.queue = Tail(s.queue) /\ t.active_actor = Head(s.queue)
               /\ t.debug_stopped = s.debug_stopped
<1> DEFINE a == Head(s.queue)
           n == s.global_sequence + 1
           g == GroupOf[a]
           m == Msg("GRANT", a, n, s.pending[a])
           t == GrantHead(s)
<1>1. /\ s \in ManagerState /\ s.active_actor = NoActor
      /\ s.pending_acks \subseteq s.registered
      /\ s.registered \subseteq s.seen /\ s.silent \subseteq s.seen
      /\ s.queue \in Seq(Actor) /\ s.pending \in [Actor -> Nat]
      /\ s.global_sequence \in Nat
  BY DEF Sound, Members, ManagerState
<1>2. a \in Actor /\ Tail(s.queue) \in Seq(Actor)
  BY <1>1, HeadTailProperties
<1>3. g \in Group /\ a # NoActor
  BY <1>2, GroupAssumption
<1>4. n \in Nat \ {0} /\ n \notin 0..s.global_sequence
  BY <1>1
<1>5. m \in Message /\ m.type = "GRANT" /\ m.actor = a /\ m.seq = n
  BY <1>1, <1>2, <1>4 DEF Msg, Message, MsgType
<1>6. t = [s EXCEPT !.active = n, !.active_actor = a, !.global_sequence = n,
                    !.queue = Tail(s.queue), !.pending = [s.pending EXCEPT ![a] = 0],
                    !.down = [s.down EXCEPT ![g] = Append(s.down[g], m)]]
  BY <1>1 DEF GrantHead, SendTo, ManagerState
<1> HIDE DEF m, n, a, g, t
<1>7. [s.down EXCEPT ![g] = Append(s.down[g], m)] \in [Group -> Seq(Message)]
  BY <1>1, <1>3, <1>5, AppendProperties DEF ManagerState
<1>8. [s.pending EXCEPT ![a] = 0] \in [Actor -> Nat]
  BY <1>1
<1>9. t \in ManagerState
  BY <1>1, <1>2, <1>4, <1>6, <1>7, <1>8 DEF ManagerState
<1>10. /\ t.active = n /\ t.active_actor = a /\ t.global_sequence = n
       /\ t.queue = Tail(s.queue) /\ t.lapsed = s.lapsed
       /\ t.debug_stopped = s.debug_stopped
       /\ t.registered = s.registered /\ t.pending_acks = s.pending_acks
       /\ t.seen = s.seen /\ t.silent = s.silent
       /\ t.down = [s.down EXCEPT ![g] = Append(s.down[g], m)]
  BY <1>1, <1>6 DEF ManagerState
<1>11. Members(t)
  BY <1>1, <1>2, <1>3, <1>4, <1>9, <1>10 DEF Members
<1>12. ASSUME NEW h \in Group, NEW j \in DOMAIN t.down[h]
       PROVE  \/ j \in DOMAIN s.down[h] /\ t.down[h][j] = s.down[h][j]
              \/ h = g /\ j = Len(s.down[g]) + 1 /\ t.down[h][j] = m
  <2>1. s.down[h] \in Seq(Message)
    BY <1>1 DEF ManagerState
  <2>2. CASE h # g
    <3>1. t.down[h] = s.down[h]
      BY <2>2, <1>1, <1>10 DEF ManagerState
    <3> QED BY <3>1
  <2>3. CASE h = g
    <3>1. t.down[h] = Append(s.down[h], m)
      BY <2>3, <1>1, <1>10 DEF ManagerState
    <3> QED BY <2>3, <3>1, <2>1, <1>5, AppendProperties, LenProperties
  <2> QED BY <2>2, <2>3
\* a number that was not given yet
<1>13. NotUnderWay(s, n)
  BY <1>4 DEF NotUnderWay, IsGrant, Sound, GrantsValid
<1>14. GrantsValid(t)
  <2> SUFFICES ASSUME NEW h \in Group, NEW j \in DOMAIN t.down[h]
               PROVE  /\ t.down[h][j].type \in {"GRANT", "WAIT"} => t.down[h][j].actor \in Actor
                      /\ t.down[h][j].type = "GRANT" =>
                            /\ t.down[h][j].seq \in 1..t.global_sequence
                            /\ Valid(t, t.down[h][j].seq, t.down[h][j].actor)
    BY DEF GrantsValid
  <2>1. CASE j \in DOMAIN s.down[h] /\ t.down[h][j] = s.down[h][j]
    <3>1. t.down[h][j].type \in {"GRANT", "WAIT"} => t.down[h][j].actor \in Actor
      BY <2>1 DEF Sound, GrantsValid
    <3>2. ASSUME t.down[h][j].type = "GRANT"
          PROVE  /\ t.down[h][j].seq \in 1..s.global_sequence
                 /\ Valid(s, t.down[h][j].seq, t.down[h][j].actor)
      BY <2>1, <3>2 DEF Sound, GrantsValid
    <3>3. ASSUME t.down[h][j].type = "GRANT"
          PROVE  /\ t.down[h][j].seq \in 1..t.global_sequence
                 /\ t.down[h][j].seq \in t.lapsed
      BY <3>2, <3>3, <1>1, <1>10 DEF Valid, n
    <3> QED BY <3>1, <3>3 DEF Valid
  <2>2. CASE t.down[h][j] = m
    BY <2>2, <1>2, <1>4, <1>5, <1>10 DEF Valid
  <2> QED BY <2>1, <2>2, <1>12
<1>15. GrantsUnique(t)
  <2> SUFFICES ASSUME NEW h \in Group, NEW k \in Group,
                      NEW i \in DOMAIN t.down[h], NEW j \in DOMAIN t.down[k],
                      t.down[h][i].type = "GRANT", t.down[k][j].type = "GRANT",
                      t.down[h][i].seq = t.down[k][j].seq
               PROVE  h = k /\ i = j
    BY DEF GrantsUnique
  <2>1. CASE i \in DOMAIN s.down[h] /\ t.down[h][i] = s.down[h][i]
    <3>1. j \in DOMAIN s.down[k] /\ t.down[k][j] = s.down[k][j]
      BY <2>1, <1>12, <1>13, <1>5 DEF NotUnderWay, IsGrant
    <3> QED BY <2>1, <3>1 DEF Sound, GrantsUnique
  <2>2. CASE h = g /\ i = Len(s.down[g]) + 1 /\ t.down[h][i] = m
    <3>1. k = g /\ j = Len(s.down[g]) + 1
      BY <2>2, <1>12, <1>13, <1>5 DEF NotUnderWay, IsGrant
    <3> QED BY <2>2, <3>1
  <2> QED BY <2>1, <2>2, <1>12
<1>16. KeepsBut(s, t, 0)
  <2>1. \A k \in 0..s.global_sequence : NotUnderWay(s, k) => NotUnderWay(t, k)
    BY <1>4, <1>5, <1>12 DEF NotUnderWay, IsGrant
  <2> QED BY <2>1, <1>1, <1>10 DEF KeepsBut, n
<1> QED BY <1>10, <1>11, <1>14, <1>15, <1>16 DEF Sound, t, a

\* what an assignment to other members leaves alone
SamePermissions(s, t) ==
    /\ t.active = s.active /\ t.active_actor = s.active_actor
    /\ t.global_sequence = s.global_sequence /\ t.lapsed = s.lapsed
    /\ t.down = s.down

\* A handler that leaves the queue and the holder alone grants nothing.
LEMMA NoPermission ==
    ASSUME NEW s, NEW t, Sound(s), Members(t), SamePermissions(s, t)
    PROVE  Sound(t) /\ KeepsBut(s, t, 0)
<1>1. \A g \in Group : \A i \in DOMAIN t.down[g] :
          /\ t.down[g][i].type = "GRANT" =>
                 i \in DOMAIN s.down[g] /\ t.down[g][i] = s.down[g][i]
          /\ t.down[g][i].type = "WAIT" => t.down[g][i].actor \in Actor
  BY DEF SamePermissions, Sound, GrantsValid
<1>2. s.active # 0 => Valid(t, s.active, s.active_actor)
  BY DEF SamePermissions, Valid
<1>3. t.global_sequence = s.global_sequence /\ s.lapsed \subseteq t.lapsed
  BY DEF SamePermissions
<1> QED BY <1>1, <1>2, <1>3, NoGrant

\* Whenever the manager looks for a grant to give: its head, or none.
LEMMA TriesGrant ==
    ASSUME NEW s, Sound(s)
    PROVE  LET t == TryGrantNext(s)
           IN  /\ Sound(t) /\ KeepsBut(s, t, 0) /\ Holds(s, t)
               /\ LeftWith(t, s.queue, s.active_actor)
               /\ t.debug_stopped => t.global_sequence = s.global_sequence
<1> DEFINE t == TryGrantNext(s)
           a == Head(s.queue)
           u == [s EXCEPT !.debug_stopped = TRUE]
           w == SendTo(u, GroupOf[a], s.pending[a], "WAIT", a, 0)
<1>1. /\ s \in ManagerState /\ Members(s)
      /\ s.queue \in Seq(Actor) /\ s.pending \in [Actor -> Nat]
      /\ s.active = 0 => s.active_actor = NoActor
  BY DEF Sound, Members, ManagerState
<1>2. CASE t = s
  <2>1. SamePermissions(s, s)
    BY DEF SamePermissions
  <2>2. KeepsBut(s, s, 0)
    BY <1>1, <2>1, NoPermission
  <2> HIDE DEF t
  <2>3. /\ Sound(t) /\ KeepsBut(s, t, 0) /\ Holds(s, t)
        /\ LeftWith(t, s.queue, s.active_actor) /\ t.global_sequence = s.global_sequence
    BY <1>2, <2>2 DEF Holds, LeftWith
  <2> QED BY <2>3 DEF t
<1>3. CASE s.active = 0 /\ s.queue # <<>> /\ ~s.debug_stopped /\ t = w
  <2>1. a \in Actor /\ GroupOf[a] \in Group /\ s.pending[a] \in Nat
    BY <1>1, <1>3, HeadTailProperties, GroupAssumption
  <2>2. /\ u \in ManagerState /\ SamePermissions(s, u) /\ u.debug_stopped
        /\ u.queue = s.queue
        /\ u.pending_acks = s.pending_acks /\ u.registered = s.registered
        /\ u.seen = s.seen /\ u.silent = s.silent
    BY <1>1 DEF ManagerState, SamePermissions
  <2>3. Members(u)
    BY <1>1, <2>2 DEF Members, SamePermissions
  <2> HIDE DEF a, u, t
  <2>4. Sound(u) /\ KeepsBut(s, u, 0)
    BY <2>2, <2>3, NoPermission
  <2>5. Sound(w) /\ KeepsBut(u, w, 0) /\ w = [u EXCEPT !.down = w.down]
    <3>1. "WAIT" \in MsgType /\ 0 \in Nat /\ "WAIT" # "GRANT" /\ a \in Actor \cup {NoActor}
      BY <2>1 DEF MsgType
    <3> QED BY <2>1, <2>4, <3>1, SendsOther
  <2>6. /\ w.queue = s.queue /\ w.active_actor = s.active_actor
        /\ w.global_sequence = s.global_sequence /\ w.debug_stopped
    BY <2>2, <2>5 DEF ManagerState, SamePermissions
  <2>7. KeepsBut(s, w, 0)
    BY <1>1, <2>3, <2>4, <2>5, KeepsTwice DEF Sound
  <2> HIDE DEF w
  <2>8. Holds(s, w) /\ LeftWith(w, s.queue, s.active_actor)
    BY <2>6 DEF Holds, LeftWith
  <2>9. t = w
    BY <1>3
  <2> QED BY <2>5, <2>6, <2>7, <2>8, <2>9 DEF t
<1>4. CASE s.active = 0 /\ s.queue # <<>> /\ ~s.debug_stopped /\ t = GrantHead(s)
  <2>1. /\ Sound(GrantHead(s)) /\ KeepsBut(s, GrantHead(s), 0)
        /\ GrantHead(s).queue = Tail(s.queue)
        /\ GrantHead(s).active_actor = Head(s.queue)
        /\ ~GrantHead(s).debug_stopped
    BY <1>4, GrantsHead
  <2>2. Holds(s, GrantHead(s)) /\ LeftWith(GrantHead(s), s.queue, s.active_actor)
    BY <1>1, <1>4, <2>1 DEF Holds, LeftWith
  <2> QED BY <1>4, <2>1, <2>2
<1>5. \/ t = s
      \/ s.active = 0 /\ s.queue # <<>> /\ ~s.debug_stopped /\ (t = w \/ t = GrantHead(s))
  BY <1>1 DEF TryGrantNext, ManagerState
<1> QED BY <1>2, <1>3, <1>4, <1>5

\* The permission is given back: its number is over.
LEMMA Releases ==
    ASSUME NEW s, Sound(s), NotUnderWay(s, s.active)
    PROVE  LET t == [s EXCEPT !.active = 0, !.active_actor = NoActor]
           IN  /\ Sound(t) /\ KeepsBut(s, t, s.active) /\ Holds(s, t)
               /\ t = [s EXCEPT !.active = 0, !.active_actor = NoActor]
<1> DEFINE t == [s EXCEPT !.active = 0, !.active_actor = NoActor]
<1>1. s \in ManagerState /\ Members(s) /\ s.active \in Nat /\ s.global_sequence \in Nat
  BY DEF Sound, Members, ManagerState
<1>2. /\ t \in ManagerState /\ t.active = 0 /\ t.active_actor = NoActor
      /\ t.global_sequence = s.global_sequence /\ t.lapsed = s.lapsed
      /\ t.down = s.down /\ t.debug_stopped = s.debug_stopped
      /\ t.pending_acks = s.pending_acks /\ t.registered = s.registered
      /\ t.seen = s.seen /\ t.silent = s.silent
  BY <1>1 DEF ManagerState
<1> HIDE DEF t
<1>3. Members(t)
  BY <1>1, <1>2 DEF Members
<1>4. GrantsValid(t)
  <2> SUFFICES ASSUME NEW g \in Group, NEW i \in DOMAIN s.down[g]
               PROVE  /\ s.down[g][i].type \in {"GRANT", "WAIT"} => s.down[g][i].actor \in Actor
                      /\ s.down[g][i].type = "GRANT" =>
                            /\ s.down[g][i].seq \in 1..s.global_sequence
                            /\ s.down[g][i].seq \in s.lapsed
    BY <1>2 DEF GrantsValid, Valid
  <2> QED BY DEF Sound, GrantsValid, Valid, NotUnderWay, IsGrant
<1>5. GrantsUnique(t)
  BY <1>2 DEF Sound, GrantsUnique
<1>6. KeepsBut(s, t, s.active)
  BY <1>1, <1>2 DEF KeepsBut, NotUnderWay
<1>7. Holds(s, t)
  BY <1>2 DEF Holds
<1> QED BY <1>3, <1>4, <1>5, <1>6, <1>7 DEF Sound, t

\* The SHUTDOWNs to all groups.
LEMMA SendsShutdown ==
    ASSUME NEW s, Sound(s)
    PROVE  LET t == SendShutdown(s)
           IN  /\ Sound(t) /\ KeepsBut(s, t, 0) /\ Holds(s, t)
               /\ t.queue = s.queue /\ t.active_actor = s.active_actor
<1> DEFINE t == SendShutdown(s)
           acks == s.pending_acks \cup s.registered
           down == [g \in Group |->
                IF g \in s.registered
                THEN Append(s.down[g], Msg("SHUTDOWN", NoActor, 0, s.identity[g]))
                ELSE s.down[g]]
<1>1. /\ s \in ManagerState /\ Members(s) /\ s.down \in [Group -> Seq(Message)]
      /\ s.identity \in [Group -> Nat]
      /\ s.pending_acks \subseteq s.registered /\ s.registered \subseteq Group
  BY DEF Sound, Members, ManagerState
<1>2. ASSUME NEW g \in Group
      PROVE  /\ Msg("SHUTDOWN", NoActor, 0, s.identity[g]) \in Message
             /\ Msg("SHUTDOWN", NoActor, 0, s.identity[g]).type = "SHUTDOWN"
  BY <1>1 DEF Msg, Message, MsgType
<1>3. down \in [Group -> Seq(Message)]
  <2> SUFFICES ASSUME NEW g \in Group PROVE down[g] \in Seq(Message)
    OBVIOUS
  <2> QED BY <1>1, <1>2, AppendProperties
<1>4. t = [s EXCEPT !.pending_acks = acks, !.running = acks # {}, !.down = down]
  BY <1>1 DEF SendShutdown, ManagerState
<1>5. acks = s.registered /\ acks \subseteq Group
  BY <1>1
<1>6. ASSUME NEW g \in Group, NEW i \in DOMAIN down[g]
      PROVE  /\ down[g][i].type = "GRANT" =>
                    i \in DOMAIN s.down[g] /\ down[g][i] = s.down[g][i]
             /\ down[g][i].type = "WAIT" => down[g][i].actor \in Actor
  <2> DEFINE m == Msg("SHUTDOWN", NoActor, 0, s.identity[g])
  <2>1. s.down[g] \in Seq(Message) /\ m \in Message /\ m.type = "SHUTDOWN"
    BY <1>1, <1>2
  <2>2. down[g] = Append(s.down[g], m) \/ down[g] = s.down[g]
    OBVIOUS
  <2> HIDE DEF m, down
  <2>3. \/ i \in DOMAIN s.down[g] /\ down[g][i] = s.down[g][i]
        \/ down[g][i] = m
    <3>1. CASE down[g] = s.down[g]
      BY <3>1
    <3>2. CASE down[g] = Append(s.down[g], m)
      BY <3>2, <2>1, AppendProperties, LenProperties
    <3> QED BY <2>2, <3>1, <3>2
  <2> QED BY <2>1, <2>3 DEF Sound, GrantsValid
<1> HIDE DEF t, down, acks
<1>7. /\ t \in ManagerState /\ t.down = down /\ t.pending_acks = s.registered
      /\ t.active = s.active /\ t.active_actor = s.active_actor
      /\ t.global_sequence = s.global_sequence /\ t.lapsed = s.lapsed
      /\ t.debug_stopped = s.debug_stopped /\ t.registered = s.registered
      /\ t.seen = s.seen /\ t.silent = s.silent /\ t.queue = s.queue
  BY <1>1, <1>3, <1>4, <1>5 DEF ManagerState
<1>8. Members(t)
  BY <1>1, <1>7 DEF Members
<1>9. s.active # 0 => Valid(t, s.active, s.active_actor)
  BY <1>7 DEF Valid
<1>10. Sound(t) /\ KeepsBut(s, t, 0)
  BY <1>6, <1>7, <1>8, <1>9, NoGrant
<1> QED BY <1>7, <1>10 DEF Holds, t

\* A shutdown begins; it is announced at once if nobody holds or awaits permission.
LEMMA InitiatesShutdown ==
    ASSUME NEW s, Sound(s)
    PROVE  LET t == InitiateShutdown(s)
           IN  /\ Sound(t) /\ KeepsBut(s, t, 0) /\ Holds(s, t)
               /\ t.queue = s.queue /\ t.active_actor = s.active_actor
<1> DEFINE t == InitiateShutdown(s)
           u == [s EXCEPT !.shutting_down = TRUE]
<1>1. s \in ManagerState /\ Members(s)
  BY DEF Sound, Members, ManagerState
<1>2. /\ u \in ManagerState /\ SamePermissions(s, u)
      /\ u.queue = s.queue /\ u.debug_stopped = s.debug_stopped
      /\ u.pending_acks = s.pending_acks /\ u.registered = s.registered
      /\ u.seen = s.seen /\ u.silent = s.silent
  BY <1>1 DEF ManagerState, SamePermissions
<1>3. t = u \/ t = SendShutdown(u)
  BY DEF InitiateShutdown
<1> HIDE DEF u, t
<1>4. Members(u)
  BY <1>1, <1>2 DEF Members, SamePermissions
<1>5. Sound(u) /\ KeepsBut(s, u, 0) /\ Holds(s, u)
  BY <1>2, <1>4, NoPermission DEF Holds, SamePermissions
<1>6. LET v == SendShutdown(u)
      IN  /\ Sound(v) /\ KeepsBut(u, v, 0) /\ Holds(u, v)
          /\ v.queue = u.queue /\ v.active_actor = u.active_actor
  BY <1>5, SendsShutdown
<1>7. CASE t = u
  BY <1>2, <1>5, <1>7 DEF t, SamePermissions
<1>8. CASE t = SendShutdown(u)
  <2>1. KeepsBut(s, t, 0)
    BY <1>1, <1>4, <1>5, <1>6, <1>8, KeepsTwice DEF Sound
  <2>2. /\ Sound(t) /\ Holds(s, t)
        /\ t.queue = s.queue /\ t.active_actor = s.active_actor
    BY <1>2, <1>5, <1>6, <1>8 DEF Holds, SamePermissions
  <2> QED BY <2>1, <2>2 DEF t
<1> QED BY <1>3, <1>7, <1>8
-----------------------------------------------------------------------------
(* Groups that are unregistered *)

\* who holds the permission h once it is taken from the groups in S
HolderOutside(h, S) == IF h # NoActor /\ GroupOf[h] \in S THEN NoActor ELSE h

\* One group is unregistered.
LEMMA Unregisters ==
    ASSUME NEW s, Sound(s), NEW g \in Group
    PROVE  LET t == UnregisterGroup(s, g)
           IN  /\ Sound(t) /\ KeepsBut(s, t, 0) /\ Holds(s, t)
               /\ LeftWith(t, Perm!Without(s.queue, {g}), HolderOutside(s.active_actor, {g}))
<1> DEFINE mine == {a \in s.actors : GroupOf[a] = g}
           held == s.active # 0 /\ GroupOf[s.active_actor] = g
           pending == [a \in Actor |-> IF a \in mine THEN 0 ELSE s.pending[a]]
           queue == Perm!Without(s.queue, {g})
           lapsed == IF held THEN s.lapsed \cup {s.active} ELSE s.lapsed
           active == IF held THEN 0 ELSE s.active
           holder == IF held THEN NoActor ELSE s.active_actor
           u == [s EXCEPT !.actors = s.actors \ mine, !.pending = pending, !.queue = queue,
                          !.active = active, !.active_actor = holder, !.lapsed = lapsed,
                          !.registered = s.registered \ {g},
                          !.identity = [s.identity EXCEPT ![g] = 0],
                          !.seen = s.seen \ {g}, !.silent = s.silent \ {g},
                          !.pending_acks = s.pending_acks \ {g}]
<1>1. /\ s \in ManagerState /\ Members(s)
      /\ s.queue \in Seq(Actor) /\ s.pending \in [Actor -> Nat]
      /\ s.identity \in [Group -> Nat] /\ s.active \in Nat /\ s.lapsed \subseteq Nat
      /\ s.active_actor \in Actor \cup {NoActor}
      /\ s.active = 0 <=> s.active_actor = NoActor
  BY DEF Sound, Members, ManagerState
<1>2. UnregisterGroup(s, g) = TryGrantNext(u)
  BY <1>1 DEF UnregisterGroup, ManagerState
<1>3. /\ pending \in [Actor -> Nat] /\ queue \in Seq(Actor)
      /\ [s.identity EXCEPT ![g] = 0] \in [Group -> Nat]
  <2>1. queue \in Seq(Actor)
    BY <1>1, WithoutType
  <2> HIDE DEF queue
  <2> QED BY <1>1, <2>1
<1>31. lapsed \subseteq Nat /\ s.lapsed \subseteq lapsed
  BY <1>1
<1>32. /\ active \in Nat /\ holder \in Actor \cup {NoActor}
       /\ active = 0 <=> holder = NoActor
       /\ active \in {0, s.active}
  <2>1. CASE held
    <3>1. active = 0 /\ holder = NoActor
      BY <2>1
    <3> HIDE DEF active, holder
    <3> QED BY <3>1
  <2>2. CASE ~held
    <3>1. active = s.active /\ holder = s.active_actor
      BY <2>2
    <3> HIDE DEF active, holder
    <3> QED BY <1>1, <3>1
  <2> QED BY <2>1, <2>2
<1>33. s.active # 0 => s.active \in lapsed \/ (active = s.active /\ holder = s.active_actor)
  OBVIOUS
<1>4. holder = HolderOutside(s.active_actor, {g})
  BY <1>1 DEF HolderOutside
<1> HIDE DEF mine, pending, queue, lapsed, active, holder
<1>5. /\ u \in ManagerState
      /\ u.active = active /\ u.active_actor = holder /\ u.queue = queue
      /\ u.lapsed = lapsed /\ u.down = s.down /\ u.debug_stopped = s.debug_stopped
      /\ u.global_sequence = s.global_sequence
      /\ u.registered = s.registered \ {g} /\ u.pending_acks = s.pending_acks \ {g}
      /\ u.seen = s.seen \ {g} /\ u.silent = s.silent \ {g}
  BY <1>1, <1>3, <1>31, <1>32 DEF ManagerState
<1> HIDE DEF u
<1>6. Members(u)
  <2>1. u.active <= u.global_sequence
    BY <1>1, <1>32, <1>5 DEF Members, ManagerState
  <2> QED BY <1>1, <1>32, <1>5, <2>1 DEF Members
<1>7. s.active # 0 => Valid(u, s.active, s.active_actor)
  BY <1>33, <1>5 DEF Valid
<1>8. \A h \in Group : \A i \in DOMAIN u.down[h] :
          /\ u.down[h][i].type = "GRANT" =>
                 i \in DOMAIN s.down[h] /\ u.down[h][i] = s.down[h][i]
          /\ u.down[h][i].type = "WAIT" => u.down[h][i].actor \in Actor
  BY <1>5 DEF Sound, GrantsValid
<1>9. Sound(u) /\ KeepsBut(s, u, 0) /\ Holds(s, u)
  BY <1>31, <1>5, <1>6, <1>7, <1>8, NoGrant DEF Holds
<1>10. LET t == TryGrantNext(u)
       IN  /\ Sound(t) /\ KeepsBut(u, t, 0) /\ Holds(u, t)
           /\ LeftWith(t, u.queue, u.active_actor)
  BY <1>9, TriesGrant
<1>11. KeepsBut(s, TryGrantNext(u), 0)
  BY <1>1, <1>6, <1>9, <1>10, KeepsTwice DEF Sound
<1>12. Holds(s, TryGrantNext(u))
  BY <1>5, <1>9, <1>10 DEF Holds
<1> QED BY <1>2, <1>4, <1>5, <1>10, <1>11, <1>12 DEF queue

\* Without no group there is nobody to take out.
LEMMA WithoutNobody ==
    ASSUME NEW q \in Seq(Actor)
    PROVE  Perm!Without(q, {}) = q
<1> DEFINE T == {r \in Seq(Actor) : Perm!Without(r, {}) = r}
<1>1. <<>> \in T
  <2>1. <<>> \in Seq(Actor)
    BY EmptySeq
  <2>2. Perm!Without(<<>>, {}) = <<>>
    BY WithoutStep
  <2> QED BY <2>1, <2>2
<1>2. ASSUME NEW r \in T, NEW a \in Actor PROVE Append(r, a) \in T
  <2>1. r \in Seq(Actor) /\ Append(r, a) \in Seq(Actor) /\ Perm!Without(r, {}) = r
    OBVIOUS
  <2>2. Perm!Without(Append(r, a), {}) = Append(Perm!Without(r, {}), a)
    BY <2>1, WithoutStep
  <2> QED BY <2>1, <2>2
<1>3. T = Seq(Actor)
  <2>1. T \in SUBSET Seq(Actor) OBVIOUS
  <2> HIDE DEF T
  <2> QED BY <1>1, <1>2, <2>1, SeqInduction
<1> QED BY <1>3

\* The group g is unregistered after those in S, and the head of the queue may
\* have got its turn each time: as if all of them had been at once.
LEMMA WithdrawnOneMore ==
    ASSUME NEW q \in Seq(Actor), NEW h \in Actor \cup {NoActor},
           NEW S, NEW g \in Group, NEW t, NEW u,
           LeftWith(t, Perm!Without(q, S), HolderOutside(h, S)),
           LeftWith(u, Perm!Without(t.queue, {g}), HolderOutside(t.active_actor, {g}))
    PROVE  LeftWith(u, Perm!Without(q, S \cup {g}), HolderOutside(h, S \cup {g}))
<1> DEFINE left_S == Perm!Without(q, S)
           left_Sg == Perm!Without(q, S \cup {g})
<1>1. left_S \in Seq(Actor) /\ left_Sg \in Seq(Actor)
  BY WithoutType
<1>2. Perm!Without(left_S, {g}) = left_Sg
  BY WithoutTwice
<1> HIDE DEF left_S, left_Sg
<1>3. CASE t.queue = left_S /\ t.active_actor = HolderOutside(h, S)
  <2>1. HolderOutside(HolderOutside(h, S), {g}) = HolderOutside(h, S \cup {g})
    BY DEF HolderOutside
  <2> QED BY <1>2, <1>3, <2>1 DEF left_Sg
<1>4. CASE /\ HolderOutside(h, S) = NoActor /\ left_S # <<>>
           /\ t.active_actor = Head(left_S) /\ t.queue = Tail(left_S)
  <2>1. PICK a \in Actor, r \in Seq(Actor) :
            /\ left_S = <<a>> \o r /\ a = Head(left_S) /\ r = Tail(left_S)
            /\ a # NoActor
    <3>1. /\ Head(left_S) \in Actor /\ Tail(left_S) \in Seq(Actor)
          /\ left_S = <<Head(left_S)>> \o Tail(left_S)
      BY <1>1, <1>4, SeqParts
    <3> QED BY <3>1, GroupAssumption
  <2>2. HolderOutside(h, S \cup {g}) = NoActor
    BY <1>4 DEF HolderOutside
  <2>3. left_Sg = IF GroupOf[a] \in {g} THEN Perm!Without(r, {g})
                  ELSE <<a>> \o Perm!Without(r, {g})
    <3>1. Perm!Without(<<a>> \o r, {g}) =
              IF GroupOf[a] \in {g} THEN Perm!Without(r, {g})
              ELSE <<a>> \o Perm!Without(r, {g})
      BY WithoutFront
    <3> QED BY <1>2, <2>1, <3>1
  <2>4. PICK x \in Seq(Actor) : x = Perm!Without(r, {g})
    BY WithoutType
  <2>5. CASE GroupOf[a] \in {g}
    BY <1>4, <2>1, <2>2, <2>3, <2>5 DEF HolderOutside, left_Sg
  <2>6. CASE GroupOf[a] \notin {g}
    <3>1. u.queue = x /\ u.active_actor = a
      BY <1>4, <2>1, <2>4, <2>6 DEF HolderOutside, LeftWith
    <3>2. left_Sg = <<a>> \o x
      BY <2>3, <2>4, <2>6
    <3>3. <<a>> \o x # <<>> /\ Head(<<a>> \o x) = a /\ Tail(<<a>> \o x) = x
      OBVIOUS
    <3> QED BY <2>2, <3>1, <3>2, <3>3 DEF LeftWith, left_Sg
  <2> QED BY <2>5, <2>6
<1> QED BY <1>3, <1>4 DEF LeftWith, left_S
-----------------------------------------------------------------------------
(* All groups that were silent are unregistered, one after the other *)

\* the recursive definition of CheckStaleGroups has a function
Swept(s, n, f) ==
    f = [i \in 0..n |->
            IF i = 0 THEN s
            ELSE IF GroupOrder[i] \in s.silent
                 THEN UnregisterGroup(f[i - 1], GroupOrder[i])
                 ELSE f[i - 1]]

\* The recursion of the sweep has a solution for every number of groups.
LEMMA SweptExists ==
    ASSUME NEW s, NEW n \in Nat
    PROVE  \E f : Swept(s, n, f)
<1> DEFINE T == {k \in Nat : \E f : Swept(s, k, f)}
<1>1. 0 \in T
  <2> DEFINE f == [i \in 0..0 |-> s]
  <2>1. Swept(s, 0, f)
    BY DEF Swept
  <2> QED BY <2>1
<1>2. ASSUME NEW k \in T PROVE k + 1 \in T
  <2>1. PICK f : Swept(s, k, f)
    OBVIOUS
  <2> DEFINE next(e, i) == IF GroupOrder[i] \in s.silent
                           THEN UnregisterGroup(e, GroupOrder[i]) ELSE e
             h == [i \in 0..(k + 1) |-> IF i <= k THEN f[i] ELSE next(f[i - 1], i)]
  <2>2. k \in Nat /\ f = [i \in 0..k |-> IF i = 0 THEN s ELSE next(f[i - 1], i)]
    BY <2>1 DEF Swept
  <2> HIDE DEF next
  <2>3. \A i \in 0..k : h[i] = f[i]
    BY <2>2
  <2>4. h[k + 1] = next(h[k], k + 1)
    BY <2>2
  <2>5. \A i \in 0..k : h[i] = IF i = 0 THEN s ELSE next(h[i - 1], i)
    <3> SUFFICES ASSUME NEW i \in 0..k
                 PROVE  h[i] = IF i = 0 THEN s ELSE next(h[i - 1], i)
      OBVIOUS
    <3>1. i # 0 => h[i - 1] = f[i - 1]
      BY <2>2, <2>3
    <3>2. f[i] = IF i = 0 THEN s ELSE next(f[i - 1], i)
      BY <2>2
    <3> HIDE DEF h
    <3> QED BY <2>3, <3>1, <3>2
  <2>6. h = [i \in 0..(k + 1) |-> h[i]]
    OBVIOUS
  <2> HIDE DEF h
  <2>7. \A i \in 0..(k + 1) : h[i] = IF i = 0 THEN s ELSE next(h[i - 1], i)
    <3>1. \A i \in 0..(k + 1) : i \in 0..k \/ i = k + 1
      BY <2>2
    <3>2. k + 1 # 0 /\ (k + 1) - 1 = k
      BY <2>2
    <3> QED BY <3>1, <3>2, <2>4, <2>5
  <2>8. Swept(s, k + 1, h)
    BY <2>6, <2>7 DEF Swept, next
  <2> QED BY <2>8, <2>2
<1>3. T = Nat
  <2>1. T \in SUBSET Nat OBVIOUS
  <2> HIDE DEF T
  <2> QED BY <1>1, <1>2, <2>1, SetInduction
<1> QED BY <1>3

\* the groups among the first n that were silent
SilentUpTo(s, n) == {g \in s.silent : \E k \in 1..n : GroupOrder[k] = g}

\* The sweep keeps what each unregistering keeps, and leaves queue and holder
\* as if the tokens and the permission of all silent groups were withdrawn.
LEMMA Sweeps ==
    ASSUME NEW s, Sound(s), NEW f, Swept(s, Len(GroupOrder), f)
    PROVE  LET t == f[Len(GroupOrder)]
           IN  /\ Sound(t) /\ KeepsBut(s, t, 0) /\ Holds(s, t)
               /\ \E S \in SUBSET Group :
                      LeftWith(t, Perm!Without(s.queue, S), HolderOutside(s.active_actor, S))
<1> DEFINE L == Len(GroupOrder)
           Done(t, n) ==
               /\ Sound(t) /\ KeepsBut(s, t, 0) /\ Holds(s, t)
               /\ LeftWith(t, Perm!Without(s.queue, SilentUpTo(s, n)),
                              HolderOutside(s.active_actor, SilentUpTo(s, n)))
           T == {n \in Nat : n <= L => Done(f[n], n)}
<1>1. /\ s \in ManagerState /\ Members(s) /\ s.queue \in Seq(Actor)
      /\ s.active_actor \in Actor \cup {NoActor} /\ s.silent \subseteq Group
  BY DEF Sound, Members, ManagerState
<1>2. L \in Nat /\ \A n \in 1..L : GroupOrder[n] \in Group
  BY GroupAssumption, ElementOfSeq, LenProperties
<1> HIDE DEF L
<1>3. f = [i \in 0..L |->
            IF i = 0 THEN s
            ELSE IF GroupOrder[i] \in s.silent
                 THEN UnregisterGroup(f[i - 1], GroupOrder[i])
                 ELSE f[i - 1]]
  BY DEF Swept, L
<1>4. 0 \in T
  <2>1. f[0] = s
    BY <1>2, <1>3
  <2>2. SilentUpTo(s, 0) = {}
    BY DEF SilentUpTo
  <2>3. KeepsBut(s, s, 0)
    BY <1>1, NoPermission DEF SamePermissions
  <2>4. Perm!Without(s.queue, {}) = s.queue /\ HolderOutside(s.active_actor, {}) = s.active_actor
    BY <1>1, WithoutNobody DEF HolderOutside
  <2>5. Done(f[0], 0)
    BY <2>1, <2>2, <2>3, <2>4 DEF Holds, LeftWith
  <2> HIDE DEF Done
  <2> QED BY <2>5
<1>5. ASSUME NEW n \in T PROVE n + 1 \in T
  <2> SUFFICES ASSUME n + 1 <= L PROVE Done(f[n + 1], n + 1)
    OBVIOUS
  <2>1. n \in Nat /\ n <= L /\ n + 1 \in 1..L /\ n + 1 \in 0..L /\ (n + 1) - 1 = n
    BY <1>2
  <2>2. Done(f[n], n)
    BY <2>1
  <2> DEFINE g == GroupOrder[n + 1]
             t == f[n]
             u == UnregisterGroup(t, g)
  <2>3. f[n + 1] = IF g \in s.silent THEN u ELSE t
    <3>1. \A i \in 0..L : f[i] = IF i = 0 THEN s
                              ELSE IF GroupOrder[i] \in s.silent
                                   THEN UnregisterGroup(f[i - 1], GroupOrder[i])
                                   ELSE f[i - 1]
      BY <1>3
    <3>2. n + 1 # 0
      BY <2>1
    <3> QED BY <2>1, <3>1, <3>2
  <2>4. g \in Group
    BY <1>2, <2>1
  <2> HIDE DEF g, t
  <2>5. CASE g \notin s.silent
    <3>1. SilentUpTo(s, n + 1) = SilentUpTo(s, n)
      BY <2>1, <2>5 DEF SilentUpTo, g
    <3> QED BY <2>2, <2>3, <2>5, <3>1 DEF t
  <2>6. CASE g \in s.silent
    <3>1. SilentUpTo(s, n + 1) = SilentUpTo(s, n) \cup {g}
      BY <2>1, <2>6 DEF SilentUpTo, g
    <3>2. Sound(t)
      BY <2>2 DEF t
    <3>3. /\ Sound(u) /\ KeepsBut(t, u, 0) /\ Holds(t, u)
          /\ LeftWith(u, Perm!Without(t.queue, {g}), HolderOutside(t.active_actor, {g}))
      BY <2>4, <3>2, Unregisters
    <3> HIDE DEF u
    <3>4. KeepsBut(s, u, 0)
      BY <1>1, <2>2, <3>2, <3>3, KeepsTwice DEF Sound, t
    <3>5. Holds(s, u)
      BY <2>2, <3>3 DEF Holds, t
    <3>6. LeftWith(u, Perm!Without(s.queue, SilentUpTo(s, n) \cup {g}),
                      HolderOutside(s.active_actor, SilentUpTo(s, n) \cup {g}))
      BY <1>1, <2>2, <2>4, <3>3, WithdrawnOneMore DEF t
    <3> QED BY <2>3, <2>6, <3>1, <3>3, <3>4, <3>5, <3>6
  <2> QED BY <2>5, <2>6
<1>6. T = Nat
  <2>1. T \in SUBSET Nat OBVIOUS
  <2> HIDE DEF T
  <2> QED BY <1>4, <1>5, <2>1, SetInduction
<1>7. Done(f[L], L)
  <2>1. L \in T /\ L <= L
    BY <1>2, <1>6
  <2> HIDE DEF Done
  <2> QED BY <2>1
<1>8. SilentUpTo(s, L) \in SUBSET Group
  BY <1>1 DEF SilentUpTo
<1> QED BY <1>7, <1>8 DEF L
-----------------------------------------------------------------------------
(* The handlers *)

\* the step of the first in, first out lock that a handler takes
PermStep(s, t) ==
    \/ \E a \in Actor : LeftWith(t, Append(s.queue, a), s.active_actor)
    \/ LeftWith(t, s.queue, s.active_actor)
    \/ LeftWith(t, s.queue, NoActor)
    \/ \E S \in SUBSET Group :
           LeftWith(t, Perm!Without(s.queue, S), HolderOutside(s.active_actor, S))

\* a handler that leaves queue and permission alone
Idle(s, t) ==
    /\ Sound(t) /\ KeepsBut(s, t, 0)
    /\ t.queue = s.queue /\ t.active_actor = s.active_actor /\ t.active = s.active
    /\ t.debug_stopped = s.debug_stopped /\ t.global_sequence = s.global_sequence

\* Such a handler stutters as a lock, and keeps what a stop holds.
LEMMA IdleSteps ==
    ASSUME NEW s, NEW t, Idle(s, t)
    PROVE  Sound(t) /\ KeepsBut(s, t, 0) /\ Holds(s, t) /\ PermStep(s, t)
BY DEF Idle, Holds, PermStep, LeftWith

\* Two steps of which the first leaves the permission alone.
LEMMA IdleTwice ==
    ASSUME NEW s, NEW t, NEW u, Members(s), Idle(s, t), Idle(t, u)
    PROVE  Idle(s, u)
<1>1. KeepsBut(s, u, 0)
  BY KeepsTwice DEF Idle, Sound
<1> QED BY <1>1 DEF Idle

\* An answer that is not a grant.
LEMMA Answers ==
    ASSUME NEW s, Sound(s), NEW g \in Group, NEW i \in Nat, NEW type \in {"ACK", "NACK", "WAIT"},
           NEW a \in Actor \cup {NoActor}, type = "WAIT" => a \in Actor
    PROVE  Idle(s, SendTo(s, g, i, type, a, 0))
<1> DEFINE t == SendTo(s, g, i, type, a, 0)
<1>1. type \in MsgType /\ type # "GRANT" /\ 0 \in Nat
  BY DEF MsgType
<1>2. Sound(t) /\ KeepsBut(s, t, 0) /\ t = [s EXCEPT !.down = t.down]
  BY <1>1, SendsOther
<1>3. s \in ManagerState
  BY DEF Sound, Members
<1> HIDE DEF t
<1>4. /\ t.queue = s.queue /\ t.active_actor = s.active_actor /\ t.active = s.active
      /\ t.debug_stopped = s.debug_stopped /\ t.global_sequence = s.global_sequence
  BY <1>2, <1>3 DEF ManagerState
<1>5. Idle(s, t)
  BY <1>2, <1>4 DEF Idle
<1> QED BY <1>5 DEF t

\* The manager hears of a group.
LEMMA Touches ==
    ASSUME NEW s, Sound(s), NEW g \in Group
    PROVE  Idle(s, Touch(s, g)) /\ Touch(s, g).pending = s.pending
<1> DEFINE t == Touch(s, g)
<1>1. s \in ManagerState /\ Members(s)
  BY DEF Sound, Members
<1>2. t = [s EXCEPT !.seen = s.seen \cup {g}, !.silent = s.silent \ {g}]
  BY <1>1 DEF Touch, ManagerState
<1> HIDE DEF t
<1>3. /\ t \in ManagerState /\ SamePermissions(s, t) /\ t.queue = s.queue
      /\ t.debug_stopped = s.debug_stopped /\ t.registered = s.registered
      /\ t.pending_acks = s.pending_acks /\ t.seen = s.seen \cup {g}
      /\ t.silent = s.silent \ {g} /\ t.pending = s.pending
  BY <1>1, <1>2 DEF ManagerState, SamePermissions
<1>4. Members(t)
  BY <1>1, <1>3 DEF Members, SamePermissions
<1>5. Idle(s, t)
  BY <1>3, <1>4, NoPermission DEF Idle, SamePermissions
<1> QED BY <1>3, <1>5 DEF t

\* A group registers, for the first time or again: nothing is granted.
LEMMA RegistersGroup ==
    ASSUME NEW s, Sound(s), NEW g \in Group, NEW m \in Message
    PROVE  Idle(s, HandleRegisterGroup(s, g, m))
<1> DEFINE u == Touch([s EXCEPT !.registered = @ \cup {g}, !.identity[g] = m.inc], g)
<1>1. s \in ManagerState /\ Members(s) /\ m.inc \in Nat /\ s.identity \in [Group -> Nat]
  BY DEF Sound, Members, Message, ManagerState
<1>2. [s.identity EXCEPT ![g] = m.inc] \in [Group -> Nat]
  BY <1>1
<1>3. u = [s EXCEPT !.registered = s.registered \cup {g},
                    !.identity = [s.identity EXCEPT ![g] = m.inc],
                    !.seen = s.seen \cup {g}, !.silent = s.silent \ {g}]
  BY <1>1 DEF Touch, ManagerState
<1>4. \/ HandleRegisterGroup(s, g, m) = SendTo(s, g, m.inc, "NACK", NoActor, 0)
      \/ HandleRegisterGroup(s, g, m) = SendTo(u, g, m.inc, "ACK", NoActor, 0)
  BY DEF HandleRegisterGroup
<1> HIDE DEF u
<1>5. /\ u \in ManagerState /\ SamePermissions(s, u) /\ u.queue = s.queue
      /\ u.debug_stopped = s.debug_stopped /\ u.registered = s.registered \cup {g}
      /\ u.pending_acks = s.pending_acks /\ u.seen = s.seen \cup {g}
      /\ u.silent = s.silent \ {g}
  BY <1>1, <1>2, <1>3 DEF ManagerState, SamePermissions
<1>6. Members(u)
  BY <1>1, <1>5 DEF Members, SamePermissions
<1>7. Idle(s, u)
  BY <1>5, <1>6, NoPermission DEF Idle, SamePermissions
<1>8. Idle(s, SendTo(s, g, m.inc, "NACK", NoActor, 0))
  BY <1>1, Answers
<1>9. Idle(u, SendTo(u, g, m.inc, "ACK", NoActor, 0))
  BY <1>1, <1>7, Answers DEF Idle
<1>10. Idle(s, SendTo(u, g, m.inc, "ACK", NoActor, 0))
  BY <1>1, <1>7, <1>9, IdleTwice
<1> QED BY <1>4, <1>8, <1>10

\* An actor registers: nothing is granted.
LEMMA RegistersActor ==
    ASSUME NEW s, Sound(s), NEW g \in Group, NEW m \in Message, m.actor \in Actor
    PROVE  Idle(s, HandleRegisterActor(s, g, m))
<1> DEFINE u == [s EXCEPT !.actors = s.actors \cup {m.actor}]
<1>1. s \in ManagerState /\ Members(s) /\ m.inc \in Nat
  BY DEF Sound, Members, Message
<1>2. \/ HandleRegisterActor(s, g, m) = SendTo(s, g, m.inc, "NACK", m.actor, 0)
      \/ HandleRegisterActor(s, g, m) = SendTo(u, g, m.inc, "ACK", m.actor, 0)
  BY DEF HandleRegisterActor
<1>3. /\ u \in ManagerState /\ SamePermissions(s, u) /\ u.queue = s.queue
      /\ u.debug_stopped = s.debug_stopped /\ u.registered = s.registered
      /\ u.pending_acks = s.pending_acks /\ u.seen = s.seen /\ u.silent = s.silent
  BY <1>1 DEF ManagerState, SamePermissions
<1> HIDE DEF u
<1>4. Members(u)
  BY <1>1, <1>3 DEF Members, SamePermissions
<1>5. Idle(s, u)
  BY <1>3, <1>4, NoPermission DEF Idle, SamePermissions
<1>6. Idle(s, SendTo(s, g, m.inc, "NACK", m.actor, 0))
  BY <1>1, Answers
<1>7. Idle(u, SendTo(u, g, m.inc, "ACK", m.actor, 0))
  BY <1>1, <1>5, Answers DEF Idle
<1>8. Idle(s, SendTo(u, g, m.inc, "ACK", m.actor, 0))
  BY <1>1, <1>5, <1>7, IdleTwice
<1> QED BY <1>2, <1>6, <1>8

\* A token joins the queue at its end.
LEMMA HandlesToken ==
    ASSUME NEW s, Sound(s), NEW g \in Group, NEW m \in Message, m.actor \in Actor
    PROVE  LET t == HandlePermissionToken(s, g, m)
           IN  Sound(t) /\ KeepsBut(s, t, 0) /\ Holds(s, t) /\ PermStep(s, t)
<1> DEFINE u == Touch(s, g)
           v == [u EXCEPT !.queue = Append(u.queue, m.actor)]
           t == TryGrantNext(v)
<1>1. s \in ManagerState /\ Members(s) /\ s.queue \in Seq(Actor)
  BY DEF Sound, Members, ManagerState
<1>2. Idle(s, u)
  BY Touches
<1>3. u \in ManagerState /\ Members(u) /\ Append(u.queue, m.actor) \in Seq(Actor)
  BY <1>1, <1>2, AppendProperties DEF Idle, Sound, Members
<1>4. HandlePermissionToken(s, g, m) = IF s.shutting_down THEN s ELSE t
  BY <1>3 DEF HandlePermissionToken, ManagerState
<1> HIDE DEF u
<1>5. /\ v \in ManagerState /\ SamePermissions(u, v)
      /\ v.queue = Append(u.queue, m.actor)
      /\ v.debug_stopped = u.debug_stopped /\ v.registered = u.registered
      /\ v.pending_acks = u.pending_acks /\ v.seen = u.seen /\ v.silent = u.silent
  BY <1>3 DEF ManagerState, SamePermissions
<1> HIDE DEF v
<1>6. Members(v)
  BY <1>3, <1>5 DEF Members, SamePermissions
<1>7. Sound(v) /\ KeepsBut(u, v, 0)
  BY <1>2, <1>5, <1>6, NoPermission DEF Idle
<1>8. /\ Sound(t) /\ KeepsBut(v, t, 0) /\ Holds(v, t)
      /\ LeftWith(t, v.queue, v.active_actor)
  BY <1>7, TriesGrant
<1> HIDE DEF t
<1>9. KeepsBut(s, v, 0)
  BY <1>1, <1>2, <1>3, <1>6, <1>7, KeepsTwice DEF Idle
<1>10. KeepsBut(s, t, 0)
  BY <1>1, <1>6, <1>8, <1>9, KeepsTwice DEF Sound
<1>11. Holds(s, t)
  BY <1>2, <1>5, <1>8 DEF Holds, Idle, SamePermissions
<1>12. LeftWith(t, Append(s.queue, m.actor), s.active_actor)
  BY <1>2, <1>5, <1>8 DEF Idle, SamePermissions
<1>13. PermStep(s, t)
  BY <1>12 DEF PermStep
<1>14. Idle(s, s)
  BY <1>1, NoPermission DEF Idle, SamePermissions
<1>15. Sound(s) /\ KeepsBut(s, s, 0) /\ Holds(s, s) /\ PermStep(s, s)
  BY <1>14, IdleSteps
<1> QED BY <1>4, <1>8, <1>10, <1>11, <1>13, <1>15

\* A request is pending, and its actor granted if it is first and nobody holds.
LEMMA HandlesRequest ==
    ASSUME NEW s, Sound(s), NEW g \in Group, NEW m \in Message, m.actor \in Actor
    PROVE  LET t == HandlePermissionRequest(s, g, m)
           IN  Sound(t) /\ KeepsBut(s, t, 0) /\ Holds(s, t) /\ PermStep(s, t)
<1> DEFINE a == m.actor
           r == [s EXCEPT !.pending = [s.pending EXCEPT ![a] = m.inc]]
           u == Touch(r, g)
           v == [u EXCEPT !.debug_stopped = TRUE]
           w(x) == SendTo(x, g, m.inc, "WAIT", a, 0)
           t == HandlePermissionRequest(s, g, m)
<1>1. /\ s \in ManagerState /\ Members(s) /\ m.inc \in Nat
      /\ s.pending \in [Actor -> Nat] /\ a \in Actor
  BY DEF Sound, Members, ManagerState, Message
<1>2. [s.pending EXCEPT ![a] = m.inc] \in [Actor -> Nat]
  BY <1>1
<1>3. \/ t = w(u)
      \/ /\ ~u.debug_stopped /\ u.queue # <<>> /\ u.active = 0
         /\ t = w(v) \/ t = GrantHead(u)
  BY <1>1 DEF HandlePermissionRequest, ManagerState
<1>4. /\ r \in ManagerState /\ SamePermissions(s, r) /\ r.queue = s.queue
      /\ r.debug_stopped = s.debug_stopped /\ r.registered = s.registered
      /\ r.pending_acks = s.pending_acks /\ r.seen = s.seen /\ r.silent = s.silent
  BY <1>1, <1>2 DEF ManagerState, SamePermissions
<1> HIDE DEF r
<1>5. Members(r)
  BY <1>1, <1>4 DEF Members, SamePermissions
<1>6. Idle(s, r)
  BY <1>4, <1>5, NoPermission DEF Idle, SamePermissions
<1>7. Idle(r, u)
  BY <1>6, Touches DEF Idle
<1> HIDE DEF u, t
<1>8. Idle(s, u)
  BY <1>1, <1>6, <1>7, IdleTwice
<1>9. u \in ManagerState /\ Members(u) /\ Sound(u)
  BY <1>8 DEF Idle, Sound, Members
<1>10. Idle(u, w(u))
  BY <1>1, <1>9, Answers
<1>11. CASE t = w(u)
  <2>1. Idle(s, t)
    BY <1>1, <1>8, <1>10, <1>11, IdleTwice
  <2> QED BY <2>1, IdleSteps DEF t
<1>12. CASE ~u.debug_stopped /\ t = w(v)
  <2>1. /\ v \in ManagerState /\ SamePermissions(u, v) /\ v.queue = u.queue
        /\ v.registered = u.registered
        /\ v.pending_acks = u.pending_acks /\ v.seen = u.seen /\ v.silent = u.silent
    BY <1>9 DEF ManagerState, SamePermissions
  <2> HIDE DEF v
  <2>2. Members(v)
    BY <1>9, <2>1 DEF Members, SamePermissions
  <2>3. Sound(v) /\ KeepsBut(u, v, 0)
    BY <1>9, <2>1, <2>2, NoPermission
  <2>4. Idle(v, w(v))
    BY <1>1, <2>3, Answers
  <2>5. KeepsBut(s, v, 0)
    BY <1>1, <1>8, <1>9, <2>2, <2>3, KeepsTwice DEF Idle
  <2>6. KeepsBut(s, t, 0)
    BY <1>1, <1>12, <2>2, <2>4, <2>5, KeepsTwice DEF Idle, Sound
  <2>7. Sound(t) /\ t.queue = s.queue /\ t.active_actor = s.active_actor
    BY <1>8, <1>12, <2>1, <2>4 DEF Idle, SamePermissions
  <2>8. Holds(s, t)
    BY <1>8, <1>12 DEF Holds, Idle
  <2>9. PermStep(s, t)
    BY <2>7 DEF PermStep, LeftWith
  <2> QED BY <2>6, <2>7, <2>8, <2>9 DEF t
<1>13. CASE ~u.debug_stopped /\ u.queue # <<>> /\ u.active = 0 /\ t = GrantHead(u)
  <2>1. /\ Sound(t) /\ KeepsBut(u, t, 0)
        /\ t.queue = Tail(u.queue) /\ t.active_actor = Head(u.queue)
    BY <1>9, <1>13, GrantsHead
  <2>2. KeepsBut(s, t, 0)
    BY <1>1, <1>8, <1>9, <2>1, KeepsTwice DEF Idle, Sound
  <2>3. s.active_actor = NoActor
    BY <1>1, <1>8, <1>13 DEF Idle, Members
  <2>4. Holds(s, t)
    BY <1>8, <1>13 DEF Holds, Idle
  <2>5. PermStep(s, t)
    BY <1>8, <1>13, <2>1, <2>3 DEF PermStep, LeftWith, Idle
  <2> QED BY <2>1, <2>2, <2>4, <2>5 DEF t
<1> QED BY <1>3, <1>11, <1>12, <1>13

\* The holder is done, and the next in the queue may be granted.
LEMMA HandlesDone ==
    ASSUME NEW s, Sound(s), NEW g \in Group, NEW m \in Message, NotUnderWay(s, m.seq)
    PROVE  LET t == HandlePermissionDone(s, g, m)
           IN  Sound(t) /\ KeepsBut(s, t, m.seq) /\ Holds(s, t) /\ PermStep(s, t)
<1> DEFINE r == Touch(s, g)
           u == [r EXCEPT !.active = 0, !.active_actor = NoActor]
           t == HandlePermissionDone(s, g, m)
<1>1. s \in ManagerState /\ Members(s) /\ m.seq \in Nat /\ s.active \in Nat
  BY DEF Sound, Members, ManagerState, Message
<1>2. Idle(s, r)
  BY Touches
<1>3. \/ t = r
      \/ r.active = m.seq /\ (t = SendShutdown(u) \/ t = TryGrantNext(u))
  BY DEF HandlePermissionDone
<1>4. r.down = s.down
  BY <1>1 DEF Touch, ManagerState
<1> HIDE DEF r, t
<1>5. CASE t = r
  <2>1. Sound(t) /\ KeepsBut(s, t, 0) /\ Holds(s, t) /\ PermStep(s, t)
    BY <1>2, <1>5, IdleSteps
  <2>2. KeepsBut(s, t, m.seq)
    BY <2>1 DEF KeepsBut
  <2> QED BY <2>1, <2>2 DEF t
<1>6. CASE r.active = m.seq /\ (t = SendShutdown(u) \/ t = TryGrantNext(u))
  <2>1. NotUnderWay(r, r.active)
    BY <1>4, <1>6 DEF NotUnderWay
  <2>2. Sound(r) /\ Members(r) /\ r \in ManagerState /\ r.active = s.active
    BY <1>2 DEF Idle, Sound, Members
  <2>3. Sound(u) /\ KeepsBut(r, u, r.active) /\ Holds(r, u)
    BY <2>1, <2>2, Releases
  <2>4. u.queue = s.queue /\ u.active_actor = NoActor
    BY <1>2, <2>2 DEF ManagerState, Idle
  <2> HIDE DEF u
  <2>5. Members(u)
    BY <2>3 DEF Sound
  <2>6. KeepsBut(s, u, m.seq)
    <3>1. s.active \notin {0, m.seq} => Valid(u, s.active, s.active_actor)
      BY <1>6, <2>2
    <3>2. /\ s.global_sequence = r.global_sequence /\ s.lapsed \subseteq r.lapsed
          /\ \A k \in 0..s.global_sequence : NotUnderWay(s, k) => NotUnderWay(r, k)
      BY <1>2 DEF Idle, KeepsBut
    <3>3. /\ r.global_sequence <= u.global_sequence /\ r.lapsed \subseteq u.lapsed
          /\ \A k \in 0..r.global_sequence : NotUnderWay(r, k) => NotUnderWay(u, k)
      BY <2>3 DEF KeepsBut
    <3>4. /\ s.global_sequence <= u.global_sequence /\ s.lapsed \subseteq u.lapsed
          /\ \A k \in 0..s.global_sequence : NotUnderWay(s, k) => NotUnderWay(u, k)
      BY <3>2, <3>3
    <3> QED BY <3>1, <3>4 DEF KeepsBut
  <2>7. Holds(s, u)
    BY <1>2, <2>3 DEF Holds, Idle
  <2>8. /\ Sound(t) /\ KeepsBut(u, t, 0) /\ Holds(u, t)
        /\ LeftWith(t, u.queue, u.active_actor)
    <3>1. CASE t = SendShutdown(u)
      BY <2>3, <3>1, SendsShutdown DEF LeftWith
    <3>2. CASE t = TryGrantNext(u)
      BY <2>3, <3>2, TriesGrant
    <3> QED BY <1>6, <3>1, <3>2
  <2>9. KeepsBut(s, t, m.seq)
    <3>1. m.seq = s.active /\ Members(t)
      BY <1>6, <2>2, <2>8 DEF Sound
    <3> QED BY <1>1, <2>5, <2>6, <2>8, <3>1, KeepsTwice
  <2>10. Holds(s, t)
    BY <2>7, <2>8 DEF Holds
  <2>11. PermStep(s, t)
    BY <2>4, <2>8 DEF PermStep
  <2> QED BY <2>8, <2>9, <2>10, <2>11 DEF t
<1> QED BY <1>3, <1>5, <1>6

\* A group has acknowledged the shutdown: nothing is granted.
LEMMA HandlesAck ==
    ASSUME NEW s, Sound(s), NEW g \in Group
    PROVE  Idle(s, HandleShutdownAck(s, g))
<1> DEFINE acks == s.pending_acks \ {g}
           t == HandleShutdownAck(s, g)
<1>1. s \in ManagerState /\ Members(s)
  BY DEF Sound, Members
<1>2. t = [s EXCEPT !.pending_acks = acks, !.running = s.running /\ acks # {}]
  BY <1>1 DEF HandleShutdownAck, ManagerState
<1>3. acks \subseteq s.pending_acks /\ (s.running /\ acks # {}) \in BOOLEAN
  OBVIOUS
<1> HIDE DEF t, acks
<1>4. /\ t \in ManagerState /\ SamePermissions(s, t) /\ t.queue = s.queue
      /\ t.debug_stopped = s.debug_stopped /\ t.registered = s.registered
      /\ t.pending_acks = acks /\ t.seen = s.seen /\ t.silent = s.silent
  BY <1>1, <1>2, <1>3 DEF ManagerState, SamePermissions
<1>5. Members(t)
  BY <1>1, <1>3, <1>4 DEF Members, SamePermissions
<1>6. Idle(s, t)
  BY <1>4, <1>5, NoPermission DEF Idle, SamePermissions
<1> QED BY <1>6 DEF t

\* the permission that message m may end
EndedBy(m) == IF m.type = "DONE" THEN m.seq ELSE 0

\* Whatever a group sends, its handler keeps the manager sound, keeps the
\* permission except for its own DONE, grants nothing while stopped and takes
\* a step of the lock.
LEMMA Handles ==
    ASSUME NEW s, Sound(s), NEW g \in Group, NEW m \in Message,
           m.type \in ClientTypes,
           m.type \in {"TOKEN", "REQUEST", "REGISTER_ACTOR"} => m.actor \in Actor,
           m.type = "DONE" => NotUnderWay(s, m.seq)
    PROVE  LET t == HandleMessage(s, g, m)
           IN  Sound(t) /\ KeepsBut(s, t, EndedBy(m)) /\ Holds(s, t) /\ PermStep(s, t)
<1> DEFINE t == HandleMessage(s, g, m)
<1>0. s \in ManagerState /\ Members(s)
  BY DEF Sound, Members
<1>1. CASE m.type = "REGISTER_GROUP"
  <2>1. t = HandleRegisterGroup(s, g, m) /\ EndedBy(m) = 0
    BY <1>1 DEF HandleMessage, EndedBy
  <2>2. Idle(s, HandleRegisterGroup(s, g, m))
    BY RegistersGroup
  <2> QED BY <2>1, <2>2, IdleSteps
<1>2. CASE m.type = "REGISTER_ACTOR"
  <2>1. t = HandleRegisterActor(s, g, m) /\ EndedBy(m) = 0
    BY <1>2 DEF HandleMessage, EndedBy
  <2>2. Idle(s, HandleRegisterActor(s, g, m))
    BY <1>2, RegistersActor
  <2> QED BY <2>1, <2>2, IdleSteps
<1>3. CASE m.type = "TOKEN"
  <2>1. t = HandlePermissionToken(s, g, m) /\ EndedBy(m) = 0
    BY <1>3 DEF HandleMessage, EndedBy
  <2> QED BY <1>3, <2>1, HandlesToken
<1>4. CASE m.type = "REQUEST"
  <2>1. t = HandlePermissionRequest(s, g, m) /\ EndedBy(m) = 0
    BY <1>4 DEF HandleMessage, EndedBy
  <2> QED BY <1>4, <2>1, HandlesRequest
<1>5. CASE m.type = "DONE"
  <2>1. t = HandlePermissionDone(s, g, m) /\ EndedBy(m) = m.seq
    BY <1>5 DEF HandleMessage, EndedBy
  <2> QED BY <1>5, <2>1, HandlesDone
<1>6. CASE m.type = "SHUTDOWN_REQUEST"
  <2>1. t = (IF s.shutting_down THEN s ELSE InitiateShutdown(s)) /\ EndedBy(m) = 0
    BY <1>6 DEF HandleMessage, HandleShutdownRequest, EndedBy
  <2>2. Idle(s, s)
    BY <1>0, NoPermission DEF Idle, SamePermissions
  <2>3. Sound(s) /\ KeepsBut(s, s, 0) /\ Holds(s, s) /\ PermStep(s, s)
    BY <2>2, IdleSteps
  <2>4. LET u == InitiateShutdown(s)
        IN  /\ Sound(u) /\ KeepsBut(s, u, 0) /\ Holds(s, u)
            /\ u.queue = s.queue /\ u.active_actor = s.active_actor
    BY InitiatesShutdown
  <2>5. PermStep(s, InitiateShutdown(s))
    BY <2>4 DEF PermStep, LeftWith
  <2> QED BY <2>1, <2>3, <2>4, <2>5
<1>7. CASE m.type = "SHUTDOWN_ACK"
  <2>1. t = HandleShutdownAck(s, g) /\ EndedBy(m) = 0
    BY <1>7 DEF HandleMessage, EndedBy
  <2>2. Idle(s, HandleShutdownAck(s, g))
    BY HandlesAck
  <2> QED BY <2>1, <2>2, IdleSteps
<1> QED BY <1>1, <1>2, <1>3, <1>4, <1>5, <1>6, <1>7 DEF ClientTypes

\* A group reads its next answer.
LEMMA Reads ==
    ASSUME NEW s, Sound(s), NEW g \in Group, s.down[g] # <<>>
    PROVE  LET t == [s EXCEPT !.down[g] = Tail(@)]
               m == Head(s.down[g])
           IN  /\ Idle(s, t) /\ t.lapsed = s.lapsed
               /\ m \in Message
               /\ m.type \in {"GRANT", "WAIT"} => m.actor \in Actor
               /\ m.type = "GRANT" =>
                      /\ m.seq \in 1..s.global_sequence /\ Valid(s, m.seq, m.actor)
                      /\ NotUnderWay(t, m.seq)
<1> DEFINE t == [s EXCEPT !.down[g] = Tail(@)]
           m == Head(s.down[g])
           q == s.down[g]
<1>1. /\ s \in ManagerState /\ Members(s) /\ s.down \in [Group -> Seq(Message)]
      /\ s.global_sequence \in Nat
  BY DEF Sound, Members, ManagerState
<1>2. /\ q \in Seq(Message) /\ m \in Message /\ Tail(q) \in Seq(Message) /\ m = q[1]
      /\ DOMAIN q = 1..Len(q) /\ Len(q) \in Nat \ {0}
      /\ DOMAIN Tail(q) = 1..(Len(q) - 1)
      /\ \A i \in DOMAIN Tail(q) : i \in Nat \ {0} /\ i + 1 \in DOMAIN q /\ Tail(q)[i] = q[i + 1]
  <2>1. q \in Seq(Message)
    BY <1>1
  <2> HIDE DEF q
  <2> QED BY <2>1, HeadTailProperties, LenProperties, EmptySeq DEF q
<1>3. t = [s EXCEPT !.down = [s.down EXCEPT ![g] = Tail(q)]]
  BY <1>1 DEF ManagerState
<1>4. [s.down EXCEPT ![g] = Tail(q)] \in [Group -> Seq(Message)]
  BY <1>1, <1>2
<1> HIDE DEF t, m
<1>5. /\ t \in ManagerState
      /\ t.queue = s.queue /\ t.active_actor = s.active_actor /\ t.active = s.active
      /\ t.debug_stopped = s.debug_stopped /\ t.global_sequence = s.global_sequence
      /\ t.lapsed = s.lapsed /\ t.registered = s.registered /\ t.seen = s.seen
      /\ t.silent = s.silent /\ t.pending_acks = s.pending_acks
      /\ t.down = [s.down EXCEPT ![g] = Tail(q)]
  BY <1>1, <1>3, <1>4 DEF ManagerState
<1>6. Members(t)
  BY <1>1, <1>5 DEF Members
\* where the answers that are left were
<1> DEFINE was(h, i) == IF h = g THEN i + 1 ELSE i
<1>7. \A h \in Group : \A i \in DOMAIN t.down[h] :
          was(h, i) \in DOMAIN s.down[h] /\ t.down[h][i] = s.down[h][was(h, i)]
  <2> SUFFICES ASSUME NEW h \in Group, NEW i \in DOMAIN t.down[h]
               PROVE  was(h, i) \in DOMAIN s.down[h] /\ t.down[h][i] = s.down[h][was(h, i)]
    OBVIOUS
  <2>1. CASE h = g
    <3>1. t.down[h] = Tail(q)
      BY <1>1, <1>5, <2>1
    <3> QED BY <1>2, <2>1, <3>1
  <2>2. CASE h # g
    BY <1>1, <1>5, <2>2
  <2> QED BY <2>1, <2>2
<1>8. \A h \in Group : \A i, j \in DOMAIN t.down[h] : was(h, i) = was(h, j) => i = j
  <2> SUFFICES ASSUME NEW h \in Group, NEW i \in DOMAIN t.down[h], NEW j \in DOMAIN t.down[h],
                      was(h, i) = was(h, j)
               PROVE  i = j
    OBVIOUS
  <2>1. CASE h = g
    <3>1. t.down[h] = Tail(q)
      BY <1>1, <1>5, <2>1
    <3> QED BY <1>2, <2>1, <3>1
  <2>2. CASE h # g
    BY <2>2
  <2> QED BY <2>1, <2>2
<1>9. \A i \in DOMAIN t.down[g] : was(g, i) # 1
  <2>1. t.down[g] = Tail(q)
    BY <1>1, <1>5
  <2> QED BY <1>2, <2>1
<1>10. GrantsValid(t)
  <2> HIDE DEF was
  <2> SUFFICES ASSUME NEW h \in Group, NEW i \in DOMAIN t.down[h]
               PROVE  /\ t.down[h][i].type \in {"GRANT", "WAIT"} => t.down[h][i].actor \in Actor
                      /\ t.down[h][i].type = "GRANT" =>
                            /\ t.down[h][i].seq \in 1..t.global_sequence
                            /\ Valid(t, t.down[h][i].seq, t.down[h][i].actor)
    BY DEF GrantsValid
  <2>1. was(h, i) \in DOMAIN s.down[h] /\ t.down[h][i] = s.down[h][was(h, i)]
    BY <1>7
  <2>2. /\ s.down[h][was(h, i)].type \in {"GRANT", "WAIT"} => s.down[h][was(h, i)].actor \in Actor
        /\ s.down[h][was(h, i)].type = "GRANT" =>
              /\ s.down[h][was(h, i)].seq \in 1..s.global_sequence
              /\ Valid(s, s.down[h][was(h, i)].seq, s.down[h][was(h, i)].actor)
    BY <2>1 DEF Sound, GrantsValid
  <2> QED BY <1>5, <2>1, <2>2 DEF Valid
<1>11. GrantsUnique(t)
  <2> HIDE DEF was
  <2> SUFFICES ASSUME NEW h \in Group, NEW k \in Group,
                      NEW i \in DOMAIN t.down[h], NEW j \in DOMAIN t.down[k],
                      t.down[h][i].type = "GRANT", t.down[k][j].type = "GRANT",
                      t.down[h][i].seq = t.down[k][j].seq
               PROVE  h = k /\ i = j
    BY DEF GrantsUnique
  <2>1. /\ was(h, i) \in DOMAIN s.down[h] /\ t.down[h][i] = s.down[h][was(h, i)]
        /\ was(k, j) \in DOMAIN s.down[k] /\ t.down[k][j] = s.down[k][was(k, j)]
    BY <1>7
  <2>2. h = k /\ was(h, i) = was(k, j)
    BY <2>1 DEF Sound, GrantsUnique
  <2> QED BY <1>8, <2>2
<1>12. KeepsBut(s, t, 0)
  <2>1. \A k \in 0..s.global_sequence : NotUnderWay(s, k) => NotUnderWay(t, k)
    <3> HIDE DEF was
    <3> QED BY <1>7 DEF NotUnderWay, IsGrant
  <2>2. Valid(t, s.active, s.active_actor)
    BY <1>5 DEF Valid
  <2> QED BY <1>1, <1>5, <2>1, <2>2 DEF KeepsBut
<1>13. 1 \in DOMAIN s.down[g] /\ m = s.down[g][1]
  BY <1>2
<1>14. m.type \in {"GRANT", "WAIT"} => m.actor \in Actor
  BY <1>13 DEF Sound, GrantsValid
<1>15. ASSUME m.type = "GRANT"
       PROVE  m.seq \in 1..s.global_sequence /\ Valid(s, m.seq, m.actor)
  BY <1>13, <1>15 DEF Sound, GrantsValid
<1>16. ASSUME m.type = "GRANT" PROVE NotUnderWay(t, m.seq)
  <2> SUFFICES ASSUME NEW h \in Group, NEW i \in DOMAIN t.down[h],
                      t.down[h][i].type = "GRANT", t.down[h][i].seq = m.seq
               PROVE  FALSE
    BY DEF NotUnderWay, IsGrant
  <2> HIDE DEF was
  <2>1. was(h, i) \in DOMAIN s.down[h] /\ t.down[h][i] = s.down[h][was(h, i)]
    BY <1>7
  <2>2. h = g /\ was(h, i) = 1
    BY <1>13, <1>16, <2>1 DEF Sound, GrantsUnique
  <2> QED BY <1>9, <2>2
<1>17. Idle(s, t)
  BY <1>5, <1>6, <1>10, <1>11, <1>12 DEF Idle, Sound
<1> QED BY <1>2, <1>5, <1>14, <1>15, <1>16, <1>17 DEF t, m
-----------------------------------------------------------------------------
(* The invariant is inductive *)

\* A step after which nobody runs who did not run before and no DONE is new,
\* and which keeps every permission but n, under which nobody runs.
LEMMA StepKeeps ==
    ASSUME ManagerInv, Sound(gm'), Clients', NEW n \in Nat, KeepsBut(gm, gm', n),
           \A h \in Group : st[h] = "running" => grant[h] # n,
           \A h \in Group : st'[h] = "running" =>
               st[h] = "running" /\ grant'[h] = grant[h] /\ cur'[h] = cur[h],
           \A h \in Group : \A i \in DOMAIN up'[h] : up'[h][i].type = "DONE" =>
               \E j \in DOMAIN up[h] : up[h][j] = up'[h][i]
    PROVE  ManagerInv'
<1>1. /\ gm.global_sequence \in Nat /\ gm'.global_sequence \in Nat
      /\ gm.global_sequence <= gm'.global_sequence
      /\ gm.lapsed \subseteq gm'.lapsed
  BY DEF ManagerInv, Sound, Members, ManagerState, KeepsBut
<1>2. ASSUME NEW g \in Group, st[g] = "running"
      PROVE  /\ grant[g] \in 1..gm'.global_sequence
             /\ Valid(gm', grant[g], cur[g])
             /\ NotUnderWay(gm', grant[g])
  <2>1. /\ grant[g] \in 1..gm.global_sequence /\ Valid(gm, grant[g], cur[g])
        /\ NotUnderWay(gm, grant[g])
    BY <1>2 DEF ManagerInv, RunnersAlone
  <2>2. grant[g] # n
    BY <1>2
  <2>3. grant[g] \in 1..gm'.global_sequence /\ grant[g] \in 0..gm.global_sequence /\ grant[g] # 0
    BY <1>1, <2>1
  <2>4. NotUnderWay(gm', grant[g])
    BY <2>1, <2>3 DEF KeepsBut
  <2>5. Valid(gm', grant[g], cur[g])
    <3>1. CASE grant[g] \in gm.lapsed
      BY <1>1, <3>1 DEF Valid
    <3>2. CASE gm.active = grant[g] /\ gm.active_actor = cur[g]
      BY <2>2, <2>3, <3>2 DEF KeepsBut
    <3> QED BY <2>1, <3>1, <3>2 DEF Valid
  <2> QED BY <2>3, <2>4, <2>5
<1>3. RunnersAlone'
  <2>1. \A g \in Group : st'[g] = "running" =>
            /\ grant'[g] \in 1..gm'.global_sequence
            /\ Valid(gm', grant'[g], cur'[g])
            /\ NotUnderWay(gm', grant'[g])
    BY <1>2
  <2>2. \A g, h \in Group :
            st'[g] = "running" /\ st'[h] = "running" /\ grant'[g] = grant'[h] => g = h
    BY DEF ManagerInv, RunnersAlone
  <2> QED BY <2>1, <2>2 DEF RunnersAlone
<1>4. DoneIsOver'
  <2> SUFFICES ASSUME NEW g \in Group, NEW i \in DOMAIN up'[g], up'[g][i].type = "DONE"
               PROVE  /\ up'[g][i].seq <= gm'.global_sequence
                      /\ NotUnderWay(gm', up'[g][i].seq)
                      /\ \A h \in Group : st'[h] = "running" => grant'[h] # up'[g][i].seq
    BY DEF DoneIsOver
  <2>1. PICK j \in DOMAIN up[g] : up[g][j] = up'[g][i]
    OBVIOUS
  <2>2. /\ up[g][j].seq <= gm.global_sequence /\ NotUnderWay(gm, up[g][j].seq)
        /\ \A h \in Group : st[h] = "running" => grant[h] # up[g][j].seq
    BY <2>1 DEF ManagerInv, DoneIsOver
  <2>3. up[g][j].seq \in Nat
    <3>1. up[g] \in Seq(Message)
      BY DEF ManagerInv, Clients
    <3>2. up[g][j] \in Message
      BY <2>1, <3>1
    <3> QED BY <3>2 DEF Message
  <2>4. up[g][j].seq \in 0..gm.global_sequence /\ up[g][j].seq <= gm'.global_sequence
    BY <1>1, <2>2, <2>3
  <2>5. NotUnderWay(gm', up[g][j].seq)
    BY <2>2, <2>4 DEF KeepsBut
  <2> QED BY <2>1, <2>2, <2>4, <2>5
<1> QED BY <1>3, <1>4 DEF ManagerInv

\* A step of the manager that reads no message.
LEMMA ManagerAlone ==
    ASSUME ManagerInv, Sound(gm'), KeepsBut(gm, gm', 0),
           UNCHANGED <<up, st, cur, grant, inc>>
    PROVE  ManagerInv'
<1>1. Clients'
  BY DEF ManagerInv, Clients
<1>2. \A h \in Group : st[h] = "running" => grant[h] # 0
  BY DEF ManagerInv, RunnersAlone
<1> QED BY <1>1, <1>2, StepKeeps

\* A step of group g alone: it sends messages that are no DONEs.
LEMMA GroupSends ==
    ASSUME ManagerInv, NEW g \in Group, NEW ms \in Seq(Message), NEW s \in GroupState,
           \A i \in DOMAIN ms :
               /\ ms[i].type \in ClientTypes \ {"DONE"}
               /\ ms[i].type \in {"TOKEN", "REQUEST", "REGISTER_ACTOR"} => ms[i].actor \in Actor,
           ClientSend(g, s, ms), s # "running",
           UNCHANGED <<gm, grant, inc>>,
           cur' \in [Group -> Actor \cup {NoActor}],
           \A h \in Group \ {g} : cur'[h] = cur[h]
    PROVE  ManagerInv'
<1>1. up \in [Group -> Seq(Message)] /\ up[g] \in Seq(Message) /\ st \in [Group -> GroupState]
  BY DEF ManagerInv, Clients
<1>2. /\ up' = [up EXCEPT ![g] = up[g] \o ms]
      /\ st' = [st EXCEPT ![g] = s]
  BY DEF ClientSend
<1>3. /\ up[g] \o ms \in Seq(Message)
      /\ \A i \in DOMAIN (up[g] \o ms) :
             \/ i \in DOMAIN up[g] /\ (up[g] \o ms)[i] = up[g][i]
             \/ \E j \in DOMAIN ms : (up[g] \o ms)[i] = ms[j]
  <2>1. /\ up[g] \o ms \in Seq(Message) /\ Len(up[g]) \in Nat /\ Len(ms) \in Nat
        /\ DOMAIN up[g] = 1..Len(up[g]) /\ DOMAIN ms = 1..Len(ms)
        /\ DOMAIN (up[g] \o ms) = 1..(Len(up[g]) + Len(ms))
    BY <1>1, ConcatProperties, LenProperties
  <2>2. \A i \in 1..(Len(up[g]) + Len(ms)) :
            (up[g] \o ms)[i] = IF i <= Len(up[g]) THEN up[g][i] ELSE ms[i - Len(up[g])]
    BY <1>1, ConcatProperties
  <2>3. \A i \in 1..(Len(up[g]) + Len(ms)) :
            i \in 1..Len(up[g]) \/ (i - Len(up[g]) \in 1..Len(ms) /\ ~(i <= Len(up[g])))
    BY <2>1
  <2>4. \A i \in 1..Len(up[g]) : i <= Len(up[g])
    BY <2>1
  <2> QED BY <2>1, <2>2, <2>3, <2>4
<1>4. /\ up' \in [Group -> Seq(Message)] /\ st' \in [Group -> GroupState]
      /\ up'[g] = up[g] \o ms /\ \A h \in Group \ {g} : up'[h] = up[h]
      /\ st'[g] = s /\ \A h \in Group \ {g} : st'[h] = st[h]
  BY <1>1, <1>2, <1>3
<1>4a. ASSUME NEW h \in Group, NEW i \in DOMAIN up'[h]
       PROVE  \/ i \in DOMAIN up[h] /\ up'[h][i] = up[h][i]
              \/ h = g /\ \E j \in DOMAIN ms : up'[h][i] = ms[j]
  <2>1. CASE h = g
    BY <1>3, <1>4, <2>1
  <2>2. CASE h # g
    BY <1>4, <2>2
  <2> QED BY <2>1, <2>2
<1>5. Clients'
  <2>1. \A h \in Group : \A i \in DOMAIN up'[h] :
            /\ up'[h][i].type \in ClientTypes
            /\ up'[h][i].type \in {"TOKEN", "REQUEST", "REGISTER_ACTOR"} => up'[h][i].actor \in Actor
    <3> SUFFICES ASSUME NEW h \in Group, NEW i \in DOMAIN up'[h]
                 PROVE  /\ up'[h][i].type \in ClientTypes
                        /\ up'[h][i].type \in {"TOKEN", "REQUEST", "REGISTER_ACTOR"} =>
                               up'[h][i].actor \in Actor
      OBVIOUS
    <3>1. CASE i \in DOMAIN up[h] /\ up'[h][i] = up[h][i]
      BY <3>1 DEF ManagerInv, Clients
    <3>2. CASE h = g /\ \E j \in DOMAIN ms : up'[h][i] = ms[j]
      BY <3>2
    <3> QED BY <1>4a, <3>1, <3>2
  <2>2. grant' \in [Group -> Nat] /\ inc' \in [Group -> Nat]
    BY DEF ManagerInv, Clients
  <2> QED BY <1>4, <2>1, <2>2 DEF Clients
<1>6. \A h \in Group : \A i \in DOMAIN up'[h] : up'[h][i].type = "DONE" =>
          \E j \in DOMAIN up[h] : up[h][j] = up'[h][i]
  BY <1>4a
<1>7. Sound(gm') /\ KeepsBut(gm, gm', 0)
  <2>1. SamePermissions(gm, gm') /\ Sound(gm) /\ Members(gm')
    BY DEF SamePermissions, ManagerInv, Sound
  <2> QED BY <2>1, NoPermission
<1>8. \A h \in Group : st[h] = "running" => grant[h] # 0
  BY DEF ManagerInv, RunnersAlone
<1>9. \A h \in Group : st'[h] = "running" =>
          st[h] = "running" /\ grant'[h] = grant[h] /\ cur'[h] = cur[h]
  BY <1>4
<1> QED BY <1>5, <1>6, <1>7, <1>8, <1>9, StepKeeps

\* Every group is registered, the queue empty and nobody holds.
LEMMA InitHolds == Init => ManagerInv
<1> SUFFICES ASSUME Init PROVE ManagerInv
  OBVIOUS
<1>1. PICK paused \in BOOLEAN :
        gm = [registered |-> Group, actors |-> Actor, identity |-> [g \in Group |-> 1],
              queue |-> <<>>, active |-> 0, active_actor |-> NoActor,
              global_sequence |-> 0, pending |-> [a \in Actor |-> 0],
              running |-> TRUE, shutting_down |-> FALSE, pending_acks |-> {},
              debug_stopped |-> paused, breakpoints |-> {},
              seen |-> Group, silent |-> {}, lapsed |-> {},
              down |-> [g \in Group |-> <<>>]]
  BY DEF Init
<1>2. /\ <<>> \in Seq(Actor) /\ <<>> \in Seq(Message)
      /\ \A i \in DOMAIN <<>> : FALSE
  BY EmptySeq
<1>3. gm \in ManagerState
  BY <1>1, <1>2 DEF ManagerState
<1>4. Members(gm)
  BY <1>1, <1>3 DEF Members
<1>5. \A g \in Group : gm.down[g] = <<>>
  BY <1>1
<1>6. GrantsValid(gm) /\ GrantsUnique(gm)
  BY <1>2, <1>5 DEF GrantsValid, GrantsUnique
<1>7. Clients
  <2>1. /\ up \in [Group -> Seq(Message)] /\ st \in [Group -> GroupState]
        /\ cur \in [Group -> Actor \cup {NoActor}] /\ grant \in [Group -> Nat]
        /\ inc \in [Group -> Nat]
    BY <1>2 DEF Init, GroupState
  <2>2. \A g \in Group : up[g] = <<>>
    BY DEF Init
  <2> QED BY <1>2, <2>1, <2>2 DEF Clients
<1>8. RunnersAlone
  BY DEF Init, RunnersAlone
<1>9. DoneIsOver
  <2>1. \A g \in Group : up[g] = <<>>
    BY DEF Init
  <2> QED BY <1>2, <2>1 DEF DoneIsOver
<1> QED BY <1>4, <1>6, <1>7, <1>8, <1>9 DEF ManagerInv, Sound
-----------------------------------------------------------------------------
(* The steps of the manager *)

\* what every step does: keep the invariant, take a step of the lock, and
\* give no number while the debugger has stopped the system
StepOK ==
    /\ ManagerInv'
    /\ PermStep(gm, gm')
    /\ gm.debug_stopped /\ gm'.debug_stopped => gm'.global_sequence = gm.global_sequence

\* One turn of the manager's loop.
LEMMA ReceiveOK ==
    ASSUME ManagerInv, NEW g \in Group, Receive(g)
    PROVE  StepOK
<1> DEFINE m == Head(up[g])
<1>1. /\ up \in [Group -> Seq(Message)] /\ up[g] \in Seq(Message) /\ up[g] # <<>>
      /\ up' = [up EXCEPT ![g] = Tail(up[g])]
      /\ gm' = HandleMessage(gm, g, m)
      /\ UNCHANGED <<st, cur, grant, inc>>
  BY DEF ManagerInv, Clients, Receive
<1>2. /\ m \in Message /\ 1 \in DOMAIN up[g] /\ m = up[g][1]
      /\ Tail(up[g]) \in Seq(Message)
      /\ \A i \in DOMAIN Tail(up[g]) : i + 1 \in DOMAIN up[g] /\ Tail(up[g])[i] = up[g][i + 1]
  <2>1. \A q \in Seq(Message) : q # <<>> =>
            /\ Head(q) \in Message /\ 1 \in DOMAIN q /\ Head(q) = q[1]
            /\ Tail(q) \in Seq(Message)
            /\ \A i \in DOMAIN Tail(q) : i + 1 \in DOMAIN q /\ Tail(q)[i] = q[i + 1]
    BY HeadTailProperties, LenProperties, EmptySeq
  <2> QED BY <1>1, <2>1
<1> HIDE DEF m
<1>3. /\ m.type \in ClientTypes
      /\ m.type \in {"TOKEN", "REQUEST", "REGISTER_ACTOR"} => m.actor \in Actor
  BY <1>2 DEF ManagerInv, Clients
<1>4. m.type = "DONE" =>
          NotUnderWay(gm, m.seq) /\ \A h \in Group : st[h] = "running" => grant[h] # m.seq
  BY <1>2 DEF ManagerInv, DoneIsOver
<1>5. /\ Sound(gm') /\ KeepsBut(gm, gm', EndedBy(m)) /\ Holds(gm, gm') /\ PermStep(gm, gm')
  BY <1>1, <1>2, <1>3, <1>4, Handles DEF ManagerInv
<1>6. EndedBy(m) \in Nat /\ \A h \in Group : st[h] = "running" => grant[h] # EndedBy(m)
  <2>1. CASE m.type = "DONE"
    BY <1>2, <1>4, <2>1 DEF EndedBy, Message
  <2>2. CASE m.type # "DONE"
    BY <2>2 DEF EndedBy, ManagerInv, RunnersAlone
  <2> QED BY <2>1, <2>2
<1>7. \A h \in Group : \A i \in DOMAIN up'[h] : \E j \in DOMAIN up[h] : up[h][j] = up'[h][i]
  <2> SUFFICES ASSUME NEW h \in Group, NEW i \in DOMAIN up'[h]
               PROVE  \E j \in DOMAIN up[h] : up[h][j] = up'[h][i]
    OBVIOUS
  <2>1. CASE h = g
    BY <1>1, <1>2, <2>1
  <2>2. CASE h # g
    BY <1>1, <2>2
  <2> QED BY <2>1, <2>2
<1>8. Clients'
  <2>1. \A h \in Group : \A i \in DOMAIN up'[h] :
            /\ up'[h][i].type \in ClientTypes
            /\ up'[h][i].type \in {"TOKEN", "REQUEST", "REGISTER_ACTOR"} => up'[h][i].actor \in Actor
    BY <1>7 DEF ManagerInv, Clients
  <2>2. /\ up' \in [Group -> Seq(Message)] /\ st' \in [Group -> GroupState]
        /\ cur' \in [Group -> Actor \cup {NoActor}] /\ grant' \in [Group -> Nat]
        /\ inc' \in [Group -> Nat]
    BY <1>1, <1>2 DEF ManagerInv, Clients
  <2> QED BY <2>1, <2>2 DEF Clients
<1>9. \A h \in Group : st'[h] = "running" =>
          st[h] = "running" /\ grant'[h] = grant[h] /\ cur'[h] = cur[h]
  BY <1>1
<1>10. ManagerInv'
  BY <1>5, <1>6, <1>7, <1>8, <1>9, StepKeeps
<1> QED BY <1>5, <1>10 DEF StepOK, Holds

\* The clock: every silent group leaves, with all it had asked for.
LEMMA CheckStaleGroupsOK ==
    ASSUME ManagerInv, CheckStaleGroups
    PROVE  StepOK
<1> DEFINE f == CHOOSE h : Swept(gm, Len(GroupOrder), h)
<1>1. Len(GroupOrder) \in Nat
  BY GroupAssumption, LenProperties
<1>2. Swept(gm, Len(GroupOrder), f)
  BY <1>1, SweptExists
<1>3. gm' = f[Len(GroupOrder)] /\ UNCHANGED <<up, st, cur, grant, inc>>
  BY DEF CheckStaleGroups, Swept
<1>4. Sound(gm)
  BY DEF ManagerInv
<1> HIDE DEF f
<1>5. /\ Sound(gm') /\ KeepsBut(gm, gm', 0) /\ Holds(gm, gm')
      /\ \E S \in SUBSET Group :
             LeftWith(gm', Perm!Without(gm.queue, S), HolderOutside(gm.active_actor, S))
  BY <1>2, <1>3, <1>4, Sweeps
<1>6. PermStep(gm, gm')
  BY <1>5 DEF PermStep
<1>7. ManagerInv'
  BY <1>3, <1>5, ManagerAlone
<1> QED BY <1>5, <1>6, <1>7 DEF StepOK, Holds

\* A signal starts the shutdown.
LEMMA SignalOK ==
    ASSUME ManagerInv, Signal
    PROVE  StepOK
<1>1. gm' = InitiateShutdown(gm) /\ UNCHANGED <<up, st, cur, grant, inc>> /\ Sound(gm)
  BY DEF Signal, ManagerInv
<1>2. /\ Sound(gm') /\ KeepsBut(gm, gm', 0) /\ Holds(gm, gm')
      /\ gm'.queue = gm.queue /\ gm'.active_actor = gm.active_actor
  BY <1>1, InitiatesShutdown
<1>3. PermStep(gm, gm')
  BY <1>2 DEF PermStep, LeftWith
<1>4. ManagerInv'
  BY <1>1, <1>2, ManagerAlone
<1> QED BY <1>2, <1>3, <1>4 DEF StepOK, Holds

\* A command of the debugger that changes neither queue nor permission.
LEMMA CommandOK ==
    ASSUME ManagerInv, NEW stopped \in BOOLEAN, NEW points \in SUBSET Pattern,
           Console([gm EXCEPT !.debug_stopped = stopped, !.breakpoints = points])
    PROVE  StepOK
<1> DEFINE t == [gm EXCEPT !.debug_stopped = stopped, !.breakpoints = points]
<1>1. gm' = t /\ UNCHANGED <<up, st, cur, grant, inc>>
  BY DEF Console
<1>2. gm \in ManagerState /\ Members(gm) /\ Sound(gm)
  BY DEF ManagerInv, Sound, Members
<1>3. /\ t \in ManagerState /\ SamePermissions(gm, t) /\ t.queue = gm.queue
      /\ t.registered = gm.registered /\ t.pending_acks = gm.pending_acks
      /\ t.seen = gm.seen /\ t.silent = gm.silent
  BY <1>2 DEF ManagerState, SamePermissions
<1> HIDE DEF t
<1>4. Members(t)
  BY <1>2, <1>3 DEF Members, SamePermissions
<1>5. Sound(t) /\ KeepsBut(gm, t, 0)
  BY <1>2, <1>3, <1>4, NoPermission
<1>6. PermStep(gm, t)
  BY <1>3 DEF PermStep, LeftWith, SamePermissions
<1>7. ManagerInv'
  BY <1>1, <1>5, ManagerAlone
<1> QED BY <1>1, <1>3, <1>6, <1>7 DEF StepOK, SamePermissions

\* The debugger lets a stopped manager go on.
LEMMA DebugContinueOK ==
    ASSUME ManagerInv, DebugContinue
    PROVE  StepOK
<1> DEFINE s == [gm EXCEPT !.debug_stopped = FALSE]
<1>1. gm' = TryGrantNext(s) /\ UNCHANGED <<up, st, cur, grant, inc>>
  BY DEF DebugContinue, Console
<1>2. gm \in ManagerState /\ Members(gm) /\ Sound(gm)
  BY DEF ManagerInv, Sound, Members
<1>3. /\ s \in ManagerState /\ SamePermissions(gm, s) /\ s.queue = gm.queue
      /\ s.registered = gm.registered /\ s.pending_acks = gm.pending_acks
      /\ s.seen = gm.seen /\ s.silent = gm.silent
  BY <1>2 DEF ManagerState, SamePermissions
<1> HIDE DEF s
<1>4. Members(s)
  BY <1>2, <1>3 DEF Members, SamePermissions
<1>5. Sound(s) /\ KeepsBut(gm, s, 0)
  BY <1>2, <1>3, <1>4, NoPermission
<1>6. /\ Sound(gm') /\ KeepsBut(s, gm', 0) /\ LeftWith(gm', s.queue, s.active_actor)
      /\ gm'.debug_stopped => gm'.global_sequence = s.global_sequence
  BY <1>1, <1>5, TriesGrant
<1>7. KeepsBut(gm, gm', 0)
  BY <1>2, <1>4, <1>5, <1>6, KeepsTwice DEF Sound
<1>8. PermStep(gm, gm')
  BY <1>3, <1>6 DEF PermStep, SamePermissions
<1>9. ManagerInv'
  BY <1>1, <1>6, <1>7, ManagerAlone
<1> QED BY <1>3, <1>6, <1>8, <1>9 DEF StepOK, SamePermissions

\* Every step of the manager.
LEMMA ManagerOK ==
    ASSUME ManagerInv, Manager
    PROVE  StepOK
<1>1. gm \in ManagerState
  BY DEF ManagerInv, Sound, Members
<1>2. /\ gm.debug_stopped \in BOOLEAN /\ gm.breakpoints \in SUBSET Pattern
      /\ gm = [gm EXCEPT !.debug_stopped = gm.debug_stopped, !.breakpoints = gm.breakpoints]
  BY <1>1 DEF ManagerState
<1>3. CASE \E g \in Group : Receive(g)
  BY <1>3, ReceiveOK
<1>4. CASE CheckStaleGroups
  BY <1>4, CheckStaleGroupsOK
<1>5. CASE Signal
  BY <1>5, SignalOK
<1>6. CASE DebugStop
  <2>1. [gm EXCEPT !.debug_stopped = TRUE] =
            [gm EXCEPT !.debug_stopped = TRUE, !.breakpoints = gm.breakpoints]
    BY <1>1 DEF ManagerState
  <2> QED BY <1>2, <1>6, <2>1, CommandOK DEF DebugStop
<1>7. CASE DebugContinue
  BY <1>7, DebugContinueOK
<1>8. ASSUME NEW p \in Pattern, DebugAddBreakpoint(p) PROVE StepOK
  <2>1. [gm EXCEPT !.breakpoints = gm.breakpoints \cup {p}] =
            [gm EXCEPT !.debug_stopped = gm.debug_stopped, !.breakpoints = gm.breakpoints \cup {p}]
    BY <1>1 DEF ManagerState
  <2>2. gm.breakpoints \cup {p} \in SUBSET Pattern
    BY <1>2
  <2>3. Console([gm EXCEPT !.breakpoints = gm.breakpoints \cup {p}])
    BY <1>8 DEF DebugAddBreakpoint
  <2> QED BY <1>2, <2>1, <2>2, <2>3, CommandOK
<1>9. ASSUME NEW p \in Pattern, DebugRemoveBreakpoint(p) PROVE StepOK
  <2>1. [gm EXCEPT !.breakpoints = gm.breakpoints \ {p}] =
            [gm EXCEPT !.debug_stopped = gm.debug_stopped, !.breakpoints = gm.breakpoints \ {p}]
    BY <1>1 DEF ManagerState
  <2>2. gm.breakpoints \ {p} \in SUBSET Pattern
    BY <1>2
  <2>3. Console([gm EXCEPT !.breakpoints = gm.breakpoints \ {p}])
    BY <1>9 DEF DebugRemoveBreakpoint
  <2> QED BY <1>2, <2>1, <2>2, <2>3, CommandOK
<1> QED BY <1>3, <1>4, <1>5, <1>6, <1>7, <1>8, <1>9 DEF Manager
-----------------------------------------------------------------------------
(* The steps of the groups *)

\* A step that leaves the manager alone.
LEMMA ManagerStutters ==
    ASSUME ManagerInv', gm' = gm
    PROVE  StepOK
BY DEF StepOK, PermStep, LeftWith

\* A group starts, for the first time or after a crash.
LEMMA ConnectOK ==
    ASSUME ManagerInv, NEW g \in Group, Connect(g)
    PROVE  StepOK
<1> DEFINE S == {a \in Actor : GroupOf[a] = g}
           mine == SetToSeq(S)
           first == Msg("REGISTER_GROUP", NoActor, 0, inc[g])
           rest == [i \in DOMAIN mine |-> Msg("REGISTER_ACTOR", mine[i], 0, inc[g])]
           ms == <<first>> \o rest
<1>1. inc[g] \in Nat /\ cur \in [Group -> Actor \cup {NoActor}]
  BY DEF ManagerInv, Clients
<1>2. ClientSend(g, "registering", ms) /\ UNCHANGED <<gm, cur, grant, inc>>
  BY DEF Connect
<1>3. mine \in [1..Cardinality(S) -> S] /\ Cardinality(S) \in Nat
  <2>1. IsFiniteSet(S)
    BY GroupAssumption, FS_Subset, S \subseteq Actor
  <2>2. Cardinality(S) \in Nat
    BY <2>1, FS_CardinalityType
  <2>3. \E f \in [1..Cardinality(S) -> S] : IsInjective(f)
    <3>1. PICK f : f \in Bijection(1..Cardinality(S), S)
      BY <2>1, FS_CardinalityType DEF ExistsBijection
    <3>2. f \in [1..Cardinality(S) -> S] /\ IsInjective(f)
      BY <3>1 DEF Bijection, Injection, IsInjective
    <3> QED BY <3>2
  <2> HIDE DEF S
  <2> QED BY <2>2, <2>3 DEF SetToSeq
<1> HIDE DEF mine
<1>4. /\ DOMAIN mine = 1..Cardinality(S) /\ \A i \in DOMAIN mine : mine[i] \in Actor
  BY <1>3
<1>5. /\ first \in Message /\ first.type = "REGISTER_GROUP"
      /\ \A i \in DOMAIN mine : /\ rest[i] \in Message /\ rest[i].type = "REGISTER_ACTOR"
                                /\ rest[i].actor \in Actor
  BY <1>1, <1>4 DEF Msg, Message, MsgType
<1>6. rest \in Seq(Message) /\ DOMAIN rest = DOMAIN mine
  <2>1. rest \in [1..Cardinality(S) -> Message]
    BY <1>4, <1>5
  <2> HIDE DEF rest, S
  <2> QED BY <1>3, <1>4, <2>1
<1> HIDE DEF first, rest
<1>7. /\ ms \in Seq(Message)
      /\ \A i \in DOMAIN ms : ms[i] = first \/ \E j \in DOMAIN mine : ms[i] = rest[j]
  <2>1. <<first>> \in Seq(Message) /\ Len(<<first>>) = 1 /\ <<first>>[1] = first
    BY <1>5
  <2>2. /\ Len(rest) \in Nat /\ DOMAIN rest = 1..Len(rest)
        /\ ms \in Seq(Message) /\ DOMAIN ms = 1..(1 + Len(rest))
        /\ \A i \in 1..(1 + Len(rest)) : ms[i] = IF i <= 1 THEN <<first>>[i] ELSE rest[i - 1]
    BY <1>6, <2>1, ConcatProperties, LenProperties
  <2> HIDE DEF ms
  <2>3. \A i \in 1..(1 + Len(rest)) : i = 1 \/ (i - 1 \in 1..Len(rest) /\ ~(i <= 1))
    BY <2>2
  <2> QED BY <1>6, <2>1, <2>2, <2>3
<1> HIDE DEF ms
<1>8. \A i \in DOMAIN ms :
          /\ ms[i].type \in ClientTypes \ {"DONE"}
          /\ ms[i].type \in {"TOKEN", "REQUEST", "REGISTER_ACTOR"} => ms[i].actor \in Actor
  BY <1>5, <1>7 DEF ClientTypes
<1>9. "registering" \in GroupState /\ "registering" # "running"
  BY DEF GroupState
<1>10. ManagerInv'
  BY <1>1, <1>2, <1>7, <1>8, <1>9, GroupSends
<1> QED BY <1>2, <1>10, ManagerStutters

\* A group announces a message and asks for its turn.
LEMMA AskOK ==
    ASSUME ManagerInv, NEW g \in Group, NEW a \in Actor, Ask(g, a)
    PROVE  StepOK
<1> DEFINE m1 == Msg("TOKEN", a, 0, inc[g])
           m2 == Msg("REQUEST", a, 0, inc[g])
           ms == <<m1, m2>>
<1>1. inc[g] \in Nat /\ cur \in [Group -> Actor \cup {NoActor}]
  BY DEF ManagerInv, Clients
<1>2. /\ ClientSend(g, "waiting", ms) /\ UNCHANGED <<gm, grant, inc>>
      /\ cur' = [cur EXCEPT ![g] = a]
  BY DEF Ask
<1>3. /\ m1 \in Message /\ m1.type = "TOKEN" /\ m1.actor = a
      /\ m2 \in Message /\ m2.type = "REQUEST" /\ m2.actor = a
  BY <1>1 DEF Msg, Message, MsgType
<1> HIDE DEF m1, m2
<1>4. ms \in Seq(Message) /\ \A i \in DOMAIN ms : ms[i] = m1 \/ ms[i] = m2
  BY <1>3
<1> HIDE DEF ms
<1>5. \A i \in DOMAIN ms :
          /\ ms[i].type \in ClientTypes \ {"DONE"}
          /\ ms[i].type \in {"TOKEN", "REQUEST", "REGISTER_ACTOR"} => ms[i].actor \in Actor
  BY <1>3, <1>4 DEF ClientTypes
<1>6. /\ cur' \in [Group -> Actor \cup {NoActor}]
      /\ \A h \in Group \ {g} : cur'[h] = cur[h]
  BY <1>1, <1>2
<1>7. "waiting" \in GroupState /\ "waiting" # "running"
  BY DEF GroupState
<1>8. ManagerInv'
  BY <1>2, <1>4, <1>5, <1>6, <1>7, GroupSends
<1> QED BY <1>2, <1>8, ManagerStutters

\* A group asks for a shutdown.
LEMMA RequestShutdownOK ==
    ASSUME ManagerInv, NEW g \in Group, RequestShutdown(g)
    PROVE  StepOK
<1> DEFINE m == Msg("SHUTDOWN_REQUEST", NoActor, 0, inc[g])
           ms == <<m>>
<1>1. inc[g] \in Nat /\ cur \in [Group -> Actor \cup {NoActor}]
  BY DEF ManagerInv, Clients
<1>2. ClientSend(g, "idle", ms) /\ UNCHANGED <<gm, cur, grant, inc>>
  BY DEF RequestShutdown
<1>3. m \in Message /\ m.type = "SHUTDOWN_REQUEST"
  BY <1>1 DEF Msg, Message, MsgType
<1> HIDE DEF m
<1>4. ms \in Seq(Message) /\ \A i \in DOMAIN ms : ms[i] = m
  BY <1>3
<1> HIDE DEF ms
<1>5. \A i \in DOMAIN ms :
          /\ ms[i].type \in ClientTypes \ {"DONE"}
          /\ ms[i].type \in {"TOKEN", "REQUEST", "REGISTER_ACTOR"} => ms[i].actor \in Actor
  BY <1>3, <1>4 DEF ClientTypes
<1>6. "idle" \in GroupState /\ "idle" # "running"
  BY DEF GroupState
<1>7. ManagerInv'
  BY <1>1, <1>2, <1>4, <1>5, <1>6, GroupSends
<1> QED BY <1>2, <1>7, ManagerStutters

\* The permission moves from the running group to its DONE.
LEMMA FinishOK ==
    ASSUME ManagerInv, NEW g \in Group, Finish(g)
    PROVE  StepOK
<1> DEFINE m == Msg("DONE", cur[g], grant[g], inc[g])
           n == grant[g]
<1>1. /\ up \in [Group -> Seq(Message)] /\ up[g] \in Seq(Message)
      /\ st \in [Group -> GroupState] /\ cur \in [Group -> Actor \cup {NoActor}]
      /\ grant \in [Group -> Nat] /\ inc \in [Group -> Nat]
  BY DEF ManagerInv, Clients
<1>2. /\ st[g] = "running" /\ gm' = gm /\ inc' = inc
      /\ up' = [up EXCEPT ![g] = up[g] \o <<m>>] /\ st' = [st EXCEPT ![g] = "idle"]
      /\ cur' = [cur EXCEPT ![g] = NoActor] /\ grant' = [grant EXCEPT ![g] = 0]
  BY DEF Finish, ClientSend
<1>3. m \in Message /\ m.type = "DONE" /\ m.seq = n
  BY <1>1 DEF Msg, Message, MsgType
<1>4. /\ n \in 1..gm.global_sequence /\ NotUnderWay(gm, n)
      /\ \A h \in Group : st[h] = "running" /\ h # g => grant[h] # n
  BY <1>2 DEF ManagerInv, RunnersAlone
<1> HIDE DEF m, n
<1>5. /\ up[g] \o <<m>> \in Seq(Message)
      /\ \A i \in DOMAIN (up[g] \o <<m>>) :
             \/ i \in DOMAIN up[g] /\ (up[g] \o <<m>>)[i] = up[g][i]
             \/ (up[g] \o <<m>>)[i] = m
  <2>1. up[g] \o <<m>> = Append(up[g], m)
    BY <1>1, <1>3, AppendIsConcat
  <2> QED BY <1>1, <1>3, <2>1, AppendProperties, LenProperties
<1>6. /\ up' \in [Group -> Seq(Message)] /\ st' \in [Group -> GroupState]
      /\ cur' \in [Group -> Actor \cup {NoActor}] /\ grant' \in [Group -> Nat]
      /\ up'[g] = up[g] \o <<m>> /\ \A h \in Group \ {g} : up'[h] = up[h]
      /\ st'[g] = "idle"
      /\ \A h \in Group \ {g} : st'[h] = st[h] /\ cur'[h] = cur[h] /\ grant'[h] = grant[h]
  BY <1>1, <1>2, <1>5 DEF GroupState
<1>7. ASSUME NEW h \in Group, NEW i \in DOMAIN up'[h]
      PROVE  \/ i \in DOMAIN up[h] /\ up'[h][i] = up[h][i]
             \/ up'[h][i] = m
  <2>1. CASE h = g
    BY <1>5, <1>6, <2>1
  <2>2. CASE h # g
    BY <1>6, <2>2
  <2> QED BY <2>1, <2>2
<1>8. Clients'
  <2>1. \A h \in Group : \A i \in DOMAIN up'[h] :
            /\ up'[h][i].type \in ClientTypes
            /\ up'[h][i].type \in {"TOKEN", "REQUEST", "REGISTER_ACTOR"} => up'[h][i].actor \in Actor
    BY <1>3, <1>7 DEF ManagerInv, Clients, ClientTypes
  <2>2. inc' \in [Group -> Nat]
    BY <1>1, <1>2
  <2> QED BY <1>6, <2>1, <2>2 DEF Clients
<1>9. \A h \in Group : st'[h] = "running" =>
          h # g /\ st[h] = "running" /\ grant'[h] = grant[h] /\ cur'[h] = cur[h]
  BY <1>6
<1>10. RunnersAlone'
  BY <1>2, <1>9 DEF ManagerInv, RunnersAlone
<1>11. DoneIsOver'
  <2> SUFFICES ASSUME NEW h \in Group, NEW i \in DOMAIN up'[h], up'[h][i].type = "DONE"
               PROVE  /\ up'[h][i].seq <= gm.global_sequence
                      /\ NotUnderWay(gm, up'[h][i].seq)
                      /\ \A k \in Group : st'[k] = "running" => grant'[k] # up'[h][i].seq
    BY <1>2 DEF DoneIsOver
  <2>1. CASE i \in DOMAIN up[h] /\ up'[h][i] = up[h][i]
    BY <1>9, <2>1 DEF ManagerInv, DoneIsOver
  <2>2. CASE up'[h][i] = m
    BY <1>3, <1>4, <1>9, <2>2
  <2> QED BY <1>7, <2>1, <2>2
<1>12. Sound(gm')
  BY <1>2 DEF ManagerInv
<1>13. ManagerInv'
  BY <1>8, <1>10, <1>11, <1>12 DEF ManagerInv
<1> QED BY <1>2, <1>13, ManagerStutters

\* The permission moves from its GRANT to the group that waits for it.
LEMMA ClientReceiveOK ==
    ASSUME ManagerInv, NEW g \in Group, ClientReceive(g)
    PROVE  StepOK
<1> DEFINE m == Head(gm.down[g])
           own == m.inc = inc[g]
           answers == own /\ st[g] = "registering" /\ m.actor = NoActor
           granted == own /\ m.type = "GRANT" /\ st[g] = "waiting" /\ cur[g] = m.actor
           retry(o) == own /\ m.type = "WAIT" /\ o /\ st[g] = "waiting" /\ cur[g] = m.actor
           quits(o) == own /\ m.type = "SHUTDOWN" /\ o
           next(o) == CASE m.type = "ACK" /\ answers -> "idle"
                        [] m.type = "NACK" /\ answers -> "off"
                        [] quits(o) -> "down"
                        [] granted -> "running"
                        [] OTHER -> st[g]
<1>1. /\ up \in [Group -> Seq(Message)] /\ up[g] \in Seq(Message)
      /\ st \in [Group -> GroupState] /\ cur \in [Group -> Actor \cup {NoActor}]
      /\ grant \in [Group -> Nat] /\ inc \in [Group -> Nat] /\ Sound(gm)
      /\ gm.global_sequence \in Nat
  BY DEF ManagerInv, Clients, Sound, Members, ManagerState
<1>2. /\ Idle(gm, gm') /\ gm'.lapsed = gm.lapsed /\ m \in Message
      /\ m.type \in {"GRANT", "WAIT"} => m.actor \in Actor
      /\ m.type = "GRANT" => /\ m.seq \in 1..gm.global_sequence
                             /\ Valid(gm, m.seq, m.actor)
                             /\ NotUnderWay(gm', m.seq)
  <2>1. gm.down[g] # <<>> /\ gm' = [gm EXCEPT !.down[g] = Tail(@)]
    BY DEF ClientReceive
  <2> QED BY <1>1, <2>1, Reads
<1>3. PICK o \in BOOLEAN :
      /\ inc' = inc
      /\ st' = [st EXCEPT ![g] = next(o)]
      /\ grant' = [grant EXCEPT ![g] =
             IF granted THEN m.seq ELSE IF st'[g] = "down" THEN 0 ELSE grant[g]]
      /\ cur' = [cur EXCEPT ![g] = IF st'[g] = "down" THEN NoActor ELSE cur[g]]
      /\ up' = [up EXCEPT ![g] =
             IF retry(o) THEN Append(up[g], Msg("REQUEST", m.actor, 0, inc[g]))
             ELSE IF quits(o)
             THEN Append(up[g], Msg("SHUTDOWN_ACK", NoActor, 0, inc[g]))
             ELSE up[g]]
  BY DEF ClientReceive
<1>4. PICK s \in GroupState : /\ st' = [st EXCEPT ![g] = s]
                              /\ s = "running" => granted \/ s = st[g]
                              /\ granted => s = "running"
  <2> DEFINE s == next(o)
  <2>1. st' = [st EXCEPT ![g] = s]
    BY <1>3
  <2>2. st[g] \in GroupState
    BY <1>1
  <2>3. s \in GroupState /\ (s = "running" => granted \/ s = st[g]) /\ (granted => s = "running")
    <3>1. CASE m.type = "ACK" /\ answers
      BY <3>1 DEF GroupState
    <3>2. CASE m.type = "NACK" /\ answers
      BY <3>2 DEF GroupState
    <3>3. CASE quits(o)
      BY <3>3 DEF GroupState
    <3>4. CASE granted
      BY <3>4 DEF GroupState
    <3>5. CASE /\ ~(m.type = "ACK" /\ answers) /\ ~(m.type = "NACK" /\ answers)
               /\ ~quits(o) /\ ~granted
      BY <2>2, <3>5
    <3> QED BY <3>1, <3>2, <3>3, <3>4, <3>5
  <2> HIDE DEF s
  <2> QED BY <2>1, <2>3
<1>5. /\ Msg("REQUEST", m.actor, 0, inc[g]) \in Message
      /\ Msg("REQUEST", m.actor, 0, inc[g]).type = "REQUEST"
      /\ Msg("REQUEST", m.actor, 0, inc[g]).actor = m.actor
      /\ Msg("SHUTDOWN_ACK", NoActor, 0, inc[g]) \in Message
      /\ Msg("SHUTDOWN_ACK", NoActor, 0, inc[g]).type = "SHUTDOWN_ACK"
  BY <1>1, <1>2 DEF Msg, Message, MsgType
<1> HIDE DEF m
<1>6. /\ up' \in [Group -> Seq(Message)] /\ st' \in [Group -> GroupState]
      /\ cur' \in [Group -> Actor \cup {NoActor}] /\ grant' \in [Group -> Nat]
      /\ inc' \in [Group -> Nat]
  <2>1. up' \in [Group -> Seq(Message)]
    BY <1>1, <1>3, <1>5, AppendProperties
  <2>2. grant' \in [Group -> Nat]
    <3>1. granted => m.seq \in Nat
      BY <1>1, <1>2
    <3> QED BY <1>1, <1>3, <3>1
  <2>3. cur' \in [Group -> Actor \cup {NoActor}] /\ inc' \in [Group -> Nat]
    BY <1>1, <1>3
  <2>4. st' \in [Group -> GroupState]
    BY <1>1, <1>4
  <2> QED BY <2>1, <2>2, <2>3, <2>4
<1>7. ASSUME NEW h \in Group, NEW i \in DOMAIN up'[h]
      PROVE  \/ i \in DOMAIN up[h] /\ up'[h][i] = up[h][i]
             \/ up'[h][i].type = "REQUEST" /\ up'[h][i].actor \in Actor
             \/ up'[h][i].type = "SHUTDOWN_ACK"
  <2>1. CASE h # g
    BY <1>1, <1>3, <2>1
  <2>2. CASE h = g
    <3>1. CASE retry(o)
      <4>1. up'[h] = Append(up[g], Msg("REQUEST", m.actor, 0, inc[g]))
        BY <1>1, <1>3, <2>2, <3>1
      <4> QED BY <1>1, <1>2, <1>5, <2>2, <3>1, <4>1, AppendProperties, LenProperties
    <3>2. CASE ~retry(o) /\ quits(o)
      <4>1. up'[h] = Append(up[g], Msg("SHUTDOWN_ACK", NoActor, 0, inc[g]))
        BY <1>1, <1>3, <2>2, <3>2
      <4> QED BY <1>1, <1>5, <2>2, <4>1, AppendProperties, LenProperties
    <3>3. CASE ~retry(o) /\ ~quits(o)
      <4>1. up'[h] = up[h]
        BY <1>1, <1>3, <2>2, <3>3
      <4> QED BY <4>1
    <3> QED BY <3>1, <3>2, <3>3
  <2> QED BY <2>1, <2>2
<1>8. Clients'
  <2>1. \A h \in Group : \A i \in DOMAIN up'[h] :
            /\ up'[h][i].type \in ClientTypes
            /\ up'[h][i].type \in {"TOKEN", "REQUEST", "REGISTER_ACTOR"} => up'[h][i].actor \in Actor
    BY <1>7 DEF ManagerInv, Clients, ClientTypes
  <2> QED BY <1>6, <2>1 DEF Clients
<1>9. Sound(gm') /\ KeepsBut(gm, gm', 0) /\ PermStep(gm, gm')
  BY <1>2, IdleSteps DEF Idle
<1>10. \A h \in Group : \A i \in DOMAIN up'[h] : up'[h][i].type = "DONE" =>
           \E j \in DOMAIN up[h] : up[h][j] = up'[h][i]
  BY <1>7
<1>11. \A h \in Group \ {g} : st'[h] = st[h] /\ grant'[h] = grant[h] /\ cur'[h] = cur[h]
  BY <1>1, <1>3, <1>4
<1>12. CASE ~granted
  <2>1. \A h \in Group : st'[h] = "running" =>
            st[h] = "running" /\ grant'[h] = grant[h] /\ cur'[h] = cur[h]
    <3>1. ASSUME st'[g] = "running"
          PROVE  st[g] = "running" /\ grant'[g] = grant[g] /\ cur'[g] = cur[g]
      <4>1. s = "running" /\ st[g] = "running"
        BY <1>1, <1>4, <1>12, <3>1
      <4> QED BY <1>1, <1>3, <1>12, <3>1, <4>1
    <3> QED BY <1>11, <3>1
  <2>2. \A h \in Group : st[h] = "running" => grant[h] # 0
    BY DEF ManagerInv, RunnersAlone
  <2>3. ManagerInv'
    BY <1>8, <1>9, <1>10, <2>1, <2>2, StepKeeps
  <2> QED BY <1>2, <1>9, <2>3 DEF StepOK, Idle
<1>13. CASE granted
  <2>1. /\ st'[g] = "running" /\ grant'[g] = m.seq /\ cur'[g] = m.actor /\ st[g] = "waiting"
    BY <1>1, <1>3, <1>4, <1>13
  <2>2. /\ m.seq \in 1..gm.global_sequence /\ Valid(gm, m.seq, m.actor)
        /\ NotUnderWay(gm', m.seq) /\ \E i \in DOMAIN gm.down[g] : IsGrant(gm.down[g][i], m.seq)
    <3>1. gm.down[g] \in Seq(Message) /\ gm.down[g] # <<>>
      BY <1>1 DEF Sound, Members, ManagerState, ClientReceive
    <3>2. 1 \in DOMAIN gm.down[g] /\ m = gm.down[g][1]
      BY <3>1, LenProperties, EmptySeq DEF m
    <3> QED BY <1>2, <1>13, <3>2 DEF IsGrant
  <2>3. \A h \in Group : st[h] = "running" => grant[h] # m.seq
    BY <2>2 DEF ManagerInv, RunnersAlone, NotUnderWay
  <2>4. /\ gm'.global_sequence = gm.global_sequence
        /\ \A k, a : Valid(gm, k, a) => Valid(gm', k, a)
    BY <1>2 DEF Idle, Valid
  <2>5. ASSUME NEW h \in Group \ {g}, st'[h] = "running"
        PROVE  /\ st[h] = "running" /\ grant'[h] = grant[h] /\ grant'[h] # m.seq
               /\ grant[h] \in 1..gm'.global_sequence
               /\ Valid(gm', grant[h], cur'[h])
               /\ NotUnderWay(gm', grant[h])
    <3>1. st[h] = "running" /\ grant'[h] = grant[h] /\ cur'[h] = cur[h]
      BY <1>11, <2>5
    <3>2. grant[h] \in 1..gm.global_sequence /\ Valid(gm, grant[h], cur[h]) /\ NotUnderWay(gm, grant[h])
      BY <3>1 DEF ManagerInv, RunnersAlone
    <3>3. NotUnderWay(gm', grant[h])
      <4>1. grant[h] \in 0..gm.global_sequence
        BY <1>1, <3>2
      <4> QED BY <1>9, <3>2, <4>1 DEF KeepsBut
    <3> QED BY <2>3, <2>4, <3>1, <3>2, <3>3
  <2>6. RunnersAlone'
    <3>1. \A h \in Group : st'[h] = "running" =>
              /\ grant'[h] \in 1..gm'.global_sequence
              /\ Valid(gm', grant'[h], cur'[h])
              /\ NotUnderWay(gm', grant'[h])
      BY <2>1, <2>2, <2>4, <2>5
    <3>2. \A h, k \in Group :
              st'[h] = "running" /\ st'[k] = "running" /\ grant'[h] = grant'[k] => h = k
      BY <2>1, <2>5 DEF ManagerInv, RunnersAlone
    <3> QED BY <3>1, <3>2 DEF RunnersAlone
  <2>7. DoneIsOver'
    <3> SUFFICES ASSUME NEW h \in Group, NEW i \in DOMAIN up'[h], up'[h][i].type = "DONE"
                 PROVE  /\ up'[h][i].seq <= gm'.global_sequence
                        /\ NotUnderWay(gm', up'[h][i].seq)
                        /\ \A k \in Group : st'[k] = "running" => grant'[k] # up'[h][i].seq
      BY DEF DoneIsOver
    <3>1. i \in DOMAIN up[h] /\ up'[h][i] = up[h][i]
      BY <1>7
    <3>2. /\ up[h][i].seq <= gm.global_sequence /\ NotUnderWay(gm, up[h][i].seq)
          /\ \A k \in Group : st[k] = "running" => grant[k] # up[h][i].seq
      BY <3>1 DEF ManagerInv, DoneIsOver
    <3>3. up[h][i].seq \in 0..gm.global_sequence
      <4>1. up[h] \in Seq(Message)
        BY <1>1
      <4>2. up[h][i] \in Message
        BY <3>1, <4>1
      <4> QED BY <1>1, <3>2, <4>2 DEF Message
    <3>4. NotUnderWay(gm', up[h][i].seq)
      BY <1>9, <3>2, <3>3 DEF KeepsBut
    <3>5. up[h][i].seq # m.seq
      BY <2>2, <3>2 DEF NotUnderWay
    <3>6. ASSUME NEW k \in Group, st'[k] = "running" PROVE grant'[k] # up'[h][i].seq
      <4>1. CASE k = g
        BY <2>1, <3>1, <3>5, <4>1
      <4>2. CASE k # g
        BY <2>5, <3>1, <3>2, <3>6, <4>2
      <4> QED BY <4>1, <4>2
    <3> QED BY <2>4, <3>1, <3>2, <3>4, <3>6
  <2>8. ManagerInv'
    BY <1>8, <1>9, <2>6, <2>7 DEF ManagerInv
  <2> QED BY <1>2, <1>9, <2>8 DEF StepOK, Idle
<1> QED BY <1>12, <1>13

\* A group is gone, with what was on its way to it.
LEMMA CrashOK ==
    ASSUME ManagerInv, NEW g \in Group, Crash(g)
    PROVE  StepOK
<1> DEFINE t == [gm EXCEPT !.down[g] = <<>>]
<1>1. /\ up \in [Group -> Seq(Message)] /\ up[g] \in Seq(Message)
      /\ st \in [Group -> GroupState] /\ cur \in [Group -> Actor \cup {NoActor}]
      /\ grant \in [Group -> Nat] /\ inc \in [Group -> Nat]
      /\ Sound(gm) /\ Members(gm) /\ gm \in ManagerState
      /\ gm.down \in [Group -> Seq(Message)]
  BY DEF ManagerInv, Clients, Sound, Members, ManagerState
<1>2. PICK n \in 0..Len(up[g]) : up' = [up EXCEPT ![g] = SubSeq(up[g], 1, n)]
  BY DEF Crash
<1>3. /\ gm' = t /\ st' = [st EXCEPT ![g] = "off"] /\ cur' = [cur EXCEPT ![g] = NoActor]
      /\ grant' = [grant EXCEPT ![g] = 0] /\ inc' = [inc EXCEPT ![g] = inc[g] + 1]
  BY DEF Crash
<1>4. t = [gm EXCEPT !.down = [gm.down EXCEPT ![g] = <<>>]]
  BY <1>1 DEF ManagerState
<1>5. [gm.down EXCEPT ![g] = <<>>] \in [Group -> Seq(Message)]
  BY <1>1, EmptySeq
<1> HIDE DEF t
<1>6. /\ t \in ManagerState
      /\ t.queue = gm.queue /\ t.active_actor = gm.active_actor /\ t.active = gm.active
      /\ t.global_sequence = gm.global_sequence
      /\ t.lapsed = gm.lapsed /\ t.registered = gm.registered /\ t.seen = gm.seen
      /\ t.silent = gm.silent /\ t.pending_acks = gm.pending_acks
      /\ t.down = [gm.down EXCEPT ![g] = <<>>]
  BY <1>1, <1>4, <1>5 DEF ManagerState
<1>7. Members(t)
  BY <1>1, <1>6 DEF Members
<1>8. \A h \in Group : \A i \in DOMAIN t.down[h] :
          /\ t.down[h][i].type = "GRANT" =>
                 i \in DOMAIN gm.down[h] /\ t.down[h][i] = gm.down[h][i]
          /\ t.down[h][i].type = "WAIT" => t.down[h][i].actor \in Actor
  <2> SUFFICES ASSUME NEW h \in Group, NEW i \in DOMAIN t.down[h]
               PROVE  /\ t.down[h][i].type = "GRANT" =>
                             i \in DOMAIN gm.down[h] /\ t.down[h][i] = gm.down[h][i]
                      /\ t.down[h][i].type = "WAIT" => t.down[h][i].actor \in Actor
    OBVIOUS
  <2>1. h # g
    <3>1. \A j \in DOMAIN <<>> : FALSE
      OBVIOUS
    <3> QED BY <1>1, <1>6, <3>1
  <2>2. t.down[h] = gm.down[h]
    BY <1>1, <1>6, <2>1
  <2> QED BY <1>1, <2>2 DEF Sound, GrantsValid
<1>9. Sound(t) /\ KeepsBut(gm, t, 0)
  <2>1. gm.active # 0 => Valid(t, gm.active, gm.active_actor)
    BY <1>6 DEF Valid
  <2> QED BY <1>1, <1>6, <1>7, <1>8, <2>1, NoGrant
<1>10. SubSeq(up[g], 1, n) \in Seq(Message)
       /\ \A i \in DOMAIN SubSeq(up[g], 1, n) :
              i \in DOMAIN up[g] /\ SubSeq(up[g], 1, n)[i] = up[g][i]
  <2>1. \A i \in 1..n : up[g][i] \in Message
    BY <1>1, <1>2
  <2> QED BY <1>1, <1>2, <2>1, SubSeqProperties, LenProperties
<1>11. ASSUME NEW h \in Group, NEW i \in DOMAIN up'[h]
       PROVE  i \in DOMAIN up[h] /\ up'[h][i] = up[h][i]
  <2>1. CASE h = g
    BY <1>1, <1>2, <1>10, <2>1
  <2>2. CASE h # g
    BY <1>1, <1>2, <2>2
  <2> QED BY <2>1, <2>2
<1>12. Clients'
  <2>1. /\ up' \in [Group -> Seq(Message)] /\ st' \in [Group -> GroupState]
        /\ cur' \in [Group -> Actor \cup {NoActor}] /\ grant' \in [Group -> Nat]
        /\ inc' \in [Group -> Nat]
    BY <1>1, <1>2, <1>3, <1>10 DEF GroupState
  <2>2. \A h \in Group : \A i \in DOMAIN up'[h] :
            /\ up'[h][i].type \in ClientTypes
            /\ up'[h][i].type \in {"TOKEN", "REQUEST", "REGISTER_ACTOR"} => up'[h][i].actor \in Actor
    BY <1>11 DEF ManagerInv, Clients
  <2> QED BY <2>1, <2>2 DEF Clients
<1>13. \A h \in Group : st'[h] = "running" =>
           st[h] = "running" /\ grant'[h] = grant[h] /\ cur'[h] = cur[h]
  BY <1>1, <1>3
<1>14. \A h \in Group : st[h] = "running" => grant[h] # 0
  BY DEF ManagerInv, RunnersAlone
<1>15. \A h \in Group : \A i \in DOMAIN up'[h] : up'[h][i].type = "DONE" =>
           \E j \in DOMAIN up[h] : up[h][j] = up'[h][i]
  BY <1>11
<1>16. ManagerInv'
  BY <1>3, <1>9, <1>12, <1>13, <1>14, <1>15, StepKeeps
<1>17. PermStep(gm, gm') /\ gm'.global_sequence = gm.global_sequence
  BY <1>3, <1>6 DEF PermStep, LeftWith
<1> QED BY <1>16, <1>17 DEF StepOK

\* A group has not been heard of for too long.
LEMMA SilenceOK ==
    ASSUME ManagerInv, NEW g \in Group, Silence(g)
    PROVE  StepOK
<1> DEFINE t == [gm EXCEPT !.silent = gm.silent \cup {g}]
<1>1. gm' = t /\ g \in gm.seen /\ UNCHANGED <<up, st, cur, grant, inc>>
  BY DEF Silence
<1>2. gm \in ManagerState /\ Members(gm) /\ Sound(gm)
  BY DEF ManagerInv, Sound, Members
<1>3. /\ t \in ManagerState /\ SamePermissions(gm, t) /\ t.queue = gm.queue
      /\ t.registered = gm.registered /\ t.pending_acks = gm.pending_acks
      /\ t.seen = gm.seen /\ t.silent = gm.silent \cup {g}
  BY <1>2 DEF ManagerState, SamePermissions
<1> HIDE DEF t
<1>4. Members(t)
  BY <1>1, <1>2, <1>3 DEF Members, SamePermissions
<1>5. Sound(t) /\ KeepsBut(gm, t, 0)
  BY <1>2, <1>3, <1>4, NoPermission
<1>6. PermStep(gm, t)
  BY <1>3 DEF PermStep, LeftWith, SamePermissions
<1>7. ManagerInv'
  BY <1>1, <1>5, ManagerAlone
<1> QED BY <1>1, <1>3, <1>6, <1>7 DEF StepOK, SamePermissions

\* Every step keeps the invariant, is a step of the lock, and holds while stopped.
LEMMA NextOK ==
    ASSUME ManagerInv, [Next]_vars
    PROVE  StepOK
<1>1. CASE Manager
  BY <1>1, ManagerOK
<1>2. ASSUME NEW g \in Group, Client(g) PROVE StepOK
  <2>1. CASE Connect(g)
    BY <2>1, ConnectOK
  <2>2. CASE \E a \in Actor : Ask(g, a)
    BY <2>2, AskOK
  <2>3. CASE Finish(g)
    BY <2>3, FinishOK
  <2>4. CASE RequestShutdown(g)
    BY <2>4, RequestShutdownOK
  <2>5. CASE ClientReceive(g)
    BY <2>5, ClientReceiveOK
  <2> QED BY <1>2, <2>1, <2>2, <2>3, <2>4, <2>5 DEF Client
<1>3. ASSUME NEW g \in Group, Crash(g) PROVE StepOK
  BY <1>3, CrashOK
<1>4. ASSUME NEW g \in Group, Silence(g) PROVE StepOK
  BY <1>4, SilenceOK
<1>5. CASE UNCHANGED vars
  <2>1. gm' = gm /\ UNCHANGED <<up, st, cur, grant, inc>>
    BY <1>5 DEF vars
  <2>2. ManagerInv'
    BY <2>1 DEF ManagerInv, Clients, RunnersAlone, DoneIsOver
  <2> QED BY <2>1, <2>2, ManagerStutters
<1> QED BY <1>1, <1>2, <1>3, <1>4, <1>5 DEF Next
-----------------------------------------------------------------------------
(* The theorems *)

\* In every state of the manager each permission is in one place: a grant
\* under way, a running group, or over.
THEOREM ManagerCorrect == Spec => []ManagerInv
<1>1. Init => ManagerInv
  BY InitHolds
<1>2. ManagerInv /\ [Next]_vars => ManagerInv'
  BY NextOK DEF StepOK
<1> QED BY <1>1, <1>2, PTL DEF Spec

\* What the run checks follows from the inductive invariant.
LEMMA InvImplies == ManagerInv => PermissionInv
<1> SUFFICES ASSUME ManagerInv PROVE PermissionInv
  OBVIOUS
<1>1. gm \in ManagerState /\ Members(gm) /\ Clients
  BY DEF ManagerInv, Sound, Members
<1>2. gm.active \in 0..gm.global_sequence
  BY <1>1 DEF ManagerState, Members
<1>3. TypeOK
  BY <1>1, <1>2 DEF TypeOK, ManagerState, Members, Clients
<1>4. HolderActive
  BY DEF HolderActive, ManagerInv, RunnersAlone, Valid
<1> QED BY <1>3, <1>4 DEF PermissionInv

\* Only one actor across all groups executes at a time: the group that runs
\* holds the active permission, unless it was taken from it by the timeout.
THEOREM PermissionCorrect == Spec => []PermissionInv
BY ManagerCorrect, InvImplies, PTL

\* While the debugger has stopped the system no permission is granted.
THEOREM StopHoldsCorrect == Spec => StopHolds
<1>1. ManagerInv /\ [Next]_vars =>
          [gm.debug_stopped /\ gm'.debug_stopped =>
               gm'.global_sequence = gm.global_sequence]_vars
  BY NextOK DEF StepOK
<1> QED BY <1>1, ManagerCorrect, PTL DEF Spec, StopHolds

\* Every step is a step of FifoPermission or a stutter.
LEMMA StepRefines ==
    ASSUME ManagerInv, [Next]_vars
    PROVE  [Perm!Next]_<<gm.queue, gm.active_actor>>
<1>1. PermStep(gm, gm')
  BY NextOK DEF StepOK
<1>2. ASSUME NEW q, NEW h, LeftWith(gm', q, h) PROVE Perm!Then(q, h)
  BY <1>2 DEF LeftWith, Perm!Then
<1>3. CASE \E a \in Actor : LeftWith(gm', Append(gm.queue, a), gm.active_actor)
  BY <1>2, <1>3 DEF Perm!Next, Perm!Enter
<1>4. CASE LeftWith(gm', gm.queue, gm.active_actor)
  BY <1>2, <1>4 DEF Perm!Next, Perm!Turn
<1>5. CASE LeftWith(gm', gm.queue, NoActor)
  BY <1>2, <1>5 DEF Perm!Next, Perm!Leave
<1>6. CASE \E S \in SUBSET Group :
               LeftWith(gm', Perm!Without(gm.queue, S), HolderOutside(gm.active_actor, S))
  BY <1>2, <1>6 DEF Perm!Next, Perm!Withdraw, HolderOutside
<1> QED BY <1>1, <1>3, <1>4, <1>5, <1>6 DEF PermStep

\* The manager implements the first in, first out lock: whatever the order of
\* tokens, requests, DONEs, timeouts and commands, also when several groups
\* are unregistered at once, the permission goes to the oldest token.
THEOREM FifoPermissionCorrect == Spec => FifoPermissionSpec
<1>1. Init => Perm!Init
  BY DEF Init, Perm!Init
<1>2. ManagerInv /\ [Next]_vars => [Perm!Next]_<<gm.queue, gm.active_actor>>
  BY StepRefines
<1> QED BY <1>1, <1>2, ManagerCorrect, PTL DEF Spec, FifoPermissionSpec, Perm!Spec
=====

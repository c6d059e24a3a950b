-------------------------- MODULE OrderPath_proofs --------------------------
(***************************************************************************)
(* Proofs about the order path, for any lights, sides, sizes, limits and   *)
(* latencies.  Five invariants rest on one another:                        *)
(*                                                                         *)
(*   TypeInv    the types, and what an order on the wire looks like;       *)
(*   WireInv    an order goes on the wire once, ahead of its cancels;      *)
(*   FlowInv    each order is on its way from a light's slot to the book   *)
(*              or back, in one place at a time, and its end comes last;   *)
(*   SizeInv    the SOM's count of what is left of an order is the book's  *)
(*              count plus the fills on their way;                         *)
(*   QInv       so is QCoord's, up to the fills in the light's mailbox.    *)
(*                                                                         *)
(* From them follow that no fill and no order is lost, that the accounts   *)
(* agree, that no assertion fails, and how far a position can exceed its   *)
(* limit.  The sums these are about are recursive functions; what they     *)
(* compute is proved by induction over a set of numbers.                   *)
(***************************************************************************)
EXTENDS OrderPath, FiniteSetTheorems, FunctionTheorems, SequenceTheorems,
        NaturalsInduction, WellFoundedInduction, TLAPS

-----------------------------------------------------------------------------
(* Induction over numbers, as a fact about sets *)

\* A set of numbers that is not empty has a least one.
LEMMA LeastNat ==
    ASSUME NEW T \in SUBSET Nat, T # {}
    PROVE  \E x \in T : \A y \in T : x <= y
<1>1. PICK x \in T : \A y \in T : ~ (<<y, x>> \in OpToRel(<, Nat))
  BY NatLessThanWellFounded, WFMin
<1>2. \A y \in T : ~ (y < x)
  BY <1>1 DEF OpToRel
<1> QED BY <1>2

\* A set that holds 0, and with every n below the bound also n + 1, holds every
\* number up to the bound.
LEMMA UpToInduction ==
    ASSUME NEW N \in Nat, NEW T, 0 \in T, \A n \in 0..N-1 : n \in T => n + 1 \in T
    PROVE  \A n \in 0..N : n \in T
<1> DEFINE B == {n \in 0..N : n \notin T}
<1> SUFFICES ASSUME B # {} PROVE FALSE
  OBVIOUS
<1>1. B \in SUBSET Nat
  OBVIOUS
<1>2. PICK x \in B : \A y \in B : x <= y
  BY <1>1, LeastNat
<1>3. x # 0 /\ x \in 1..N
  BY <1>2
<1>4. x - 1 \in 0..N-1 /\ x - 1 \in 0..N /\ ~ (x <= x - 1) /\ (x - 1) + 1 = x
  BY <1>3
<1>5. x - 1 \in T
  BY <1>2, <1>4
<1> QED BY <1>2, <1>4, <1>5

-----------------------------------------------------------------------------
(* Sums *)

\* The sums of the first elements of s.
Part(s) ==
    LET upTo[i \in 0..Len(s)] == IF i = 0 THEN 0 ELSE upTo[i - 1] + s[i]
    IN  upTo

\* f holds the first sums of s, up to n.
IsPart(s, n, f) == f = [i \in 0..n |-> IF i = 0 THEN 0 ELSE f[i - 1] + s[i]]

\* The recursion of Sum has a solution for every length.
LEMMA PartExists ==
    ASSUME NEW s, NEW N \in Nat
    PROVE  \E f : IsPart(s, N, f)
<1> DEFINE T == {k \in Nat : \E f : IsPart(s, k, f)}
<1>1. 0 \in T
  <2> DEFINE f == [i \in 0..0 |-> 0]
  <2>1. IsPart(s, 0, f) BY DEF IsPart
  <2> QED BY <2>1
<1>2. ASSUME NEW k \in 0..N-1, k \in T PROVE k + 1 \in T
  <2>1. PICK f : IsPart(s, k, f)
    BY <1>2
  <2>2. k \in Nat /\ f = [i \in 0..k |-> IF i = 0 THEN 0 ELSE f[i - 1] + s[i]]
    BY <2>1 DEF IsPart
  <2> DEFINE h == [i \in 0..(k + 1) |-> IF i <= k THEN f[i] ELSE f[i - 1] + s[i]]
  <2>3. \A i \in 0..k : h[i] = f[i]
    BY <2>2
  <2>4. h[k + 1] = h[k] + s[k + 1]
    BY <2>2
  <2>5. h = [i \in 0..(k + 1) |-> h[i]]
    OBVIOUS
  <2>6. \A i \in 0..(k + 1) : h[i] = IF i = 0 THEN 0 ELSE h[i - 1] + s[i]
    <3> SUFFICES ASSUME NEW i \in 0..(k + 1)
                 PROVE  h[i] = IF i = 0 THEN 0 ELSE h[i - 1] + s[i]
      OBVIOUS
    <3> HIDE DEF h
    <3>1. CASE i = k + 1 BY <2>2, <2>4, <3>1
    <3>2. CASE i # k + 1
      <4>1. i \in 0..k BY <2>2, <3>2
      <4>2. f[i] = IF i = 0 THEN 0 ELSE f[i - 1] + s[i] BY <2>2, <4>1
      <4>3. i # 0 => i - 1 \in 0..k BY <4>1, <2>2
      <4> QED BY <2>3, <4>1, <4>2, <4>3
    <3> QED BY <3>1, <3>2
  <2>7. IsPart(s, k + 1, h)
    <3> HIDE DEF h
    <3> QED BY <2>5, <2>6 DEF IsPart
  <2> QED BY <2>2, <2>7
<1>3. N \in T
  <2> HIDE DEF T
  <2> QED BY <1>1, <1>2, UpToInduction
<1> QED BY <1>3

\* Part and Sum compute what they are meant to.
LEMMA PartFacts ==
    \A s \in Seq(Int) :
        /\ Part(s)[0] = 0
        /\ \A i \in 1..Len(s) : Part(s)[i] = Part(s)[i - 1] + s[i]
        /\ \A i \in 0..Len(s) : Part(s)[i] \in Int
        /\ Sum(s) = Part(s)[Len(s)]
        /\ Sum(s) \in Int
<1> SUFFICES ASSUME NEW s \in Seq(Int)
             PROVE  /\ Part(s)[0] = 0
                    /\ \A i \in 1..Len(s) : Part(s)[i] = Part(s)[i - 1] + s[i]
                    /\ \A i \in 0..Len(s) : Part(s)[i] \in Int
                    /\ Sum(s) = Part(s)[Len(s)]
                    /\ Sum(s) \in Int
  OBVIOUS
<1>0. Len(s) \in Nat OBVIOUS
<1>1. Part(s) = CHOOSE f : IsPart(s, Len(s), f)
  BY DEF Part, IsPart
<1>2. IsPart(s, Len(s), Part(s))
  BY <1>0, <1>1, PartExists
<1>3. Part(s)[0] = 0 /\ \A i \in 1..Len(s) : Part(s)[i] = Part(s)[i - 1] + s[i]
  BY <1>0, <1>2 DEF IsPart
<1>4. Sum(s) = Part(s)[Len(s)]
  BY DEF Sum, Part
<1>5. \A i \in 0..Len(s) : Part(s)[i] \in Int
  <2> DEFINE T == {i \in 0..Len(s) : Part(s)[i] \in Int}
  <2>1. 0 \in T BY <1>0, <1>3
  <2>2. ASSUME NEW n \in 0..Len(s)-1, n \in T PROVE n + 1 \in T
    <3>1. n + 1 \in 1..Len(s) /\ (n + 1) - 1 = n BY <1>0
    <3>2. s[n + 1] \in Int BY <3>1
    <3>3. Part(s)[n + 1] = Part(s)[n] + s[n + 1] BY <3>1, <1>3
    <3> QED BY <2>2, <3>1, <3>2, <3>3
  <2> HIDE DEF T
  <2>3. \A n \in 0..Len(s) : n \in T BY <1>0, <2>1, <2>2, UpToInduction
  <2> QED BY <2>3 DEF T
<1> QED BY <1>0, <1>3, <1>4, <1>5

\* The sums of a sequence are those of one that starts with it.
LEMMA PartPrefix ==
    \A s, t \in Seq(Int) :
        Len(s) <= Len(t) /\ (\A i \in 1..Len(s) : t[i] = s[i])
            => \A i \in 0..Len(s) : Part(t)[i] = Part(s)[i]
<1> SUFFICES ASSUME NEW s \in Seq(Int), NEW t \in Seq(Int), Len(s) <= Len(t),
                    \A i \in 1..Len(s) : t[i] = s[i]
             PROVE  \A i \in 0..Len(s) : Part(t)[i] = Part(s)[i]
  OBVIOUS
<1> DEFINE T == {i \in 0..Len(s) : Part(t)[i] = Part(s)[i]}
<1>0. Len(s) \in Nat /\ Len(t) \in Nat OBVIOUS
<1>1. 0 \in T BY <1>0, PartFacts
<1>2. ASSUME NEW n \in 0..Len(s)-1, n \in T PROVE n + 1 \in T
  <2>1. n + 1 \in 1..Len(s) /\ n + 1 \in 1..Len(t) /\ (n + 1) - 1 = n /\ n + 1 \in 0..Len(s) BY <1>0
  <2>2. Part(s)[n + 1] = Part(s)[n] + s[n + 1] BY <2>1, PartFacts
  <2>3. Part(t)[n + 1] = Part(t)[n] + t[n + 1] BY <2>1, PartFacts
  <2> QED BY <1>2, <2>1, <2>2, <2>3
<1> HIDE DEF T
<1>3. \A n \in 0..Len(s) : n \in T BY <1>0, <1>1, <1>2, UpToInduction
<1> QED BY <1>3 DEF T

\* Without its first element the sums of a sequence are less by that element.
LEMMA PartShift ==
    \A s, t \in Seq(Int) :
        Len(s) = Len(t) + 1 /\ (\A i \in 1..Len(t) : t[i] = s[i + 1])
            => \A i \in 0..Len(t) : Part(t)[i] = Part(s)[i + 1] - s[1]
<1> SUFFICES ASSUME NEW s \in Seq(Int), NEW t \in Seq(Int), Len(s) = Len(t) + 1,
                    \A i \in 1..Len(t) : t[i] = s[i + 1]
             PROVE  \A i \in 0..Len(t) : Part(t)[i] = Part(s)[i + 1] - s[1]
  OBVIOUS
<1> DEFINE T == {i \in 0..Len(t) : Part(t)[i] = Part(s)[i + 1] - s[1]}
<1>0. Len(s) \in Nat /\ Len(t) \in Nat /\ 1 \in 1..Len(s) OBVIOUS
<1>s. \A i \in 1..Len(s) : s[i] \in Int OBVIOUS
<1>1. 0 \in T
  <2>1. Part(s)[1] = Part(s)[1 - 1] + s[1] BY <1>0, PartFacts
  <2>2. Part(s)[1] = s[1] BY <2>1, <1>0, <1>s, PartFacts
  <2>3. Part(t)[0] = 0 BY PartFacts
  <2> QED BY <1>0, <1>s, <2>2, <2>3
<1>2. ASSUME NEW n \in 0..Len(t)-1, n \in T PROVE n + 1 \in T
  <2>1. /\ n + 1 \in 1..Len(t) /\ n + 2 \in 1..Len(s) /\ (n + 1) - 1 = n /\ (n + 2) - 1 = n + 1
        /\ (n + 1) + 1 = n + 2 /\ n + 1 \in 0..Len(t) /\ n + 1 \in 0..Len(s) /\ n + 2 \in 0..Len(s)
    BY <1>0
  <2>2. Part(s)[n + 2] = Part(s)[n + 1] + s[n + 2] BY <2>1, PartFacts
  <2>3. Part(t)[n + 1] = Part(t)[n] + t[n + 1] BY <2>1, PartFacts
  <2>4. t[n + 1] = s[n + 2] BY <2>1
  <2>5. Part(s)[n + 1] \in Int /\ s[1] \in Int /\ s[n + 2] \in Int BY <2>1, <1>0, <1>s, PartFacts
  <2>6. Part(t)[n] = Part(s)[n + 1] - s[1] BY <1>2
  <2>7. Part(t)[n + 1] = Part(s)[n + 2] - s[1] BY <2>2, <2>3, <2>4, <2>5, <2>6
  <2> QED BY <2>1, <2>7
<1> HIDE DEF T
<1>3. \A n \in 0..Len(t) : n \in T BY <1>0, <1>1, <1>2, UpToInduction
<1> QED BY <1>3 DEF T

\* An element changed by d changes the sum by d.
LEMMA SumUpdate ==
    \A s, t \in Seq(Int) : \A j \in 1..Len(s) :
        Len(s) = Len(t) /\ (\A i \in 1..Len(s) : i # j => t[i] = s[i])
            => Sum(t) = Sum(s) + (t[j] - s[j])
<1> SUFFICES ASSUME NEW s \in Seq(Int), NEW t \in Seq(Int), NEW j \in 1..Len(s),
                    Len(s) = Len(t), \A i \in 1..Len(s) : i # j => t[i] = s[i]
             PROVE  Sum(t) = Sum(s) + (t[j] - s[j])
  OBVIOUS
<1> DEFINE d == t[j] - s[j]
<1> DEFINE T == {i \in 0..Len(s) : Part(t)[i] = Part(s)[i] + IF i < j THEN 0 ELSE d}
<1>0. Len(s) \in Nat /\ Len(t) \in Nat /\ j \in Nat /\ j > 0 OBVIOUS
<1>s. \A i \in 1..Len(s) : s[i] \in Int /\ t[i] \in Int OBVIOUS
<1>d. d \in Int BY <1>s
<1>1. 0 \in T
  <2>1. Part(s)[0] = 0 /\ Part(t)[0] = 0 /\ 0 < j /\ 0 \in 0..Len(s) BY <1>0, PartFacts
  <2> HIDE DEF d
  <2> QED BY <2>1
<1>2. ASSUME NEW n \in 0..Len(s)-1, n \in T PROVE n + 1 \in T
  <2>1. n + 1 \in 1..Len(s) /\ (n + 1) - 1 = n /\ n + 1 \in 0..Len(s) /\ n \in 0..Len(s) BY <1>0
  <2>2. Part(s)[n + 1] = Part(s)[n] + s[n + 1] BY <2>1, PartFacts
  <2>3. Part(t)[n + 1] = Part(t)[n] + t[n + 1] BY <2>1, PartFacts
  <2>4. Part(s)[n] \in Int /\ Part(t)[n] \in Int /\ s[n + 1] \in Int /\ t[n + 1] \in Int
    BY <2>1, <1>s, PartFacts
  <2>5. Part(t)[n] = Part(s)[n] + IF n < j THEN 0 ELSE d BY <1>2
  <2>a. PICK a \in Int : a = Part(s)[n] BY <2>4
  <2>b. PICK b \in Int : b = Part(t)[n] BY <2>4
  <2>u. PICK u \in Int : u = s[n + 1] BY <2>4
  <2>v. PICK v \in Int : v = t[n + 1] BY <2>4
  <2>e. PICK e \in Int : e = d BY <1>d
  <2>p. Part(s)[n + 1] = a + u /\ Part(t)[n + 1] = b + v BY <2>2, <2>3, <2>a, <2>b, <2>u, <2>v
  <2>6. CASE n + 1 = j
    <3>1. n < j /\ ~ (n + 1 < j) /\ t[n + 1] = s[n + 1] + d BY <2>6, <1>0, <2>4
    <3>2. b = a + 0 BY <2>5, <2>a, <2>b, <3>1
    <3>3. v = u + e BY <2>u, <2>v, <2>e, <3>1
    <3>4. b + v = (a + u) + e BY <3>2, <3>3
    <3>5. Part(t)[n + 1] = Part(s)[n + 1] + d BY <2>p, <2>e, <3>4
    <3> QED BY <2>1, <3>1, <3>5
  <2>7. CASE n + 1 # j
    <3>1. t[n + 1] = s[n + 1] /\ (n < j <=> n + 1 < j) BY <2>7, <1>0, <2>1
    <3>2. PICK w \in Int : w = IF n + 1 < j THEN 0 ELSE e OBVIOUS
    <3>3. b = a + w BY <2>5, <2>a, <2>b, <2>e, <3>1, <3>2
    <3>v. v = u BY <2>u, <2>v, <3>1
    <3>4. b + v = (a + u) + w BY <3>v, <3>3
    <3>5. Part(t)[n + 1] = Part(s)[n + 1] + IF n + 1 < j THEN 0 ELSE d BY <2>p, <2>e, <3>2, <3>4
    <3> QED BY <2>1, <3>5
  <2> QED BY <2>6, <2>7
<1>3. \A n \in 0..Len(s) : n \in T
  <2> HIDE DEF T
  <2> QED BY <1>0, <1>1, <1>2, UpToInduction
<1>4. Part(t)[Len(s)] = Part(s)[Len(s)] + d
  <2>1. Len(s) \in 0..Len(s) /\ ~ (Len(s) < j) BY <1>0
  <2>2. Len(s) \in T BY <1>3, <2>1
  <2> HIDE DEF d
  <2> QED BY <2>1, <2>2
<1> QED BY <1>4, PartFacts

\* A sum grows with its elements.
LEMMA SumMonotone ==
    \A s, t \in Seq(Int) :
        Len(s) = Len(t) /\ (\A i \in 1..Len(s) : s[i] <= t[i]) => Sum(s) <= Sum(t)
<1> SUFFICES ASSUME NEW s \in Seq(Int), NEW t \in Seq(Int),
                    Len(s) = Len(t), \A i \in 1..Len(s) : s[i] <= t[i]
             PROVE  Sum(s) <= Sum(t)
  OBVIOUS
<1> DEFINE T == {i \in 0..Len(s) : Part(s)[i] <= Part(t)[i]}
<1>0. Len(s) \in Nat /\ Len(t) \in Nat OBVIOUS
<1>s. \A i \in 1..Len(s) : s[i] \in Int /\ t[i] \in Int OBVIOUS
<1>1. 0 \in T BY <1>0, PartFacts
<1>2. ASSUME NEW n \in 0..Len(s)-1, n \in T PROVE n + 1 \in T
  <2>1. n + 1 \in 1..Len(s) /\ (n + 1) - 1 = n /\ n + 1 \in 0..Len(s) /\ n \in 0..Len(s) BY <1>0
  <2>2. Part(s)[n + 1] = Part(s)[n] + s[n + 1] BY <2>1, PartFacts
  <2>3. Part(t)[n + 1] = Part(t)[n] + t[n + 1] BY <2>1, PartFacts
  <2>4. /\ Part(s)[n] \in Int /\ Part(t)[n] \in Int /\ s[n + 1] \in Int /\ t[n + 1] \in Int
        /\ s[n + 1] <= t[n + 1]
    BY <2>1, <1>s, PartFacts
  <2>5. Part(s)[n] <= Part(t)[n] BY <1>2
  <2>6. Part(s)[n + 1] <= Part(t)[n + 1]
    BY <2>2, <2>3, <2>4, <2>5
  <2> QED BY <2>1, <2>6
<1>3. \A n \in 0..Len(s) : n \in T
  <2> HIDE DEF T
  <2> QED BY <1>0, <1>1, <1>2, UpToInduction
<1>4. Part(s)[Len(s)] <= Part(t)[Len(s)]
  BY <1>0, <1>3
<1> QED BY <1>4, PartFacts

\* Nothing is added by elements that are 0.
LEMMA PartFlat ==
    \A s \in Seq(Int) : \A k \in 0..Len(s) :
        (\A i \in k+1..Len(s) : s[i] = 0) => Sum(s) = Part(s)[k]
<1> SUFFICES ASSUME NEW s \in Seq(Int), NEW k \in 0..Len(s), \A i \in k+1..Len(s) : s[i] = 0
             PROVE  Sum(s) = Part(s)[k]
  OBVIOUS
<1> DEFINE T == {i \in 0..Len(s) - k : Part(s)[k + i] = Part(s)[k]}
<1>0. Len(s) \in Nat /\ k \in Nat /\ Len(s) - k \in Nat OBVIOUS
<1>1. 0 \in T BY <1>0
<1>2. ASSUME NEW n \in 0..(Len(s) - k)-1, n \in T PROVE n + 1 \in T
  <2>1. /\ k + (n + 1) \in 1..Len(s) /\ (k + (n + 1)) - 1 = k + n /\ n + 1 \in 0..Len(s) - k
        /\ k + (n + 1) \in k+1..Len(s) /\ k \in 0..Len(s)
    BY <1>0
  <2>2. Part(s)[k + (n + 1)] = Part(s)[k + n] + s[k + (n + 1)] BY <2>1, PartFacts
  <2>3. Part(s)[k] \in Int BY <2>1, PartFacts
  <2>4. s[k + (n + 1)] = 0 BY <2>1
  <2>5. Part(s)[k + n] = Part(s)[k] BY <1>2
  <2> QED BY <2>1, <2>2, <2>3, <2>4, <2>5
<1>3. \A n \in 0..Len(s) - k : n \in T
  <2> HIDE DEF T
  <2> QED BY <1>0, <1>1, <1>2, UpToInduction
<1>4. Part(s)[k + (Len(s) - k)] = Part(s)[k]
  BY <1>0, <1>3
<1>5. k + (Len(s) - k) = Len(s) BY <1>0
<1> QED BY <1>4, <1>5, PartFacts

\* The sums of a sequence without negative elements grow.
LEMMA PartGrows ==
    \A s \in Seq(Int) : \A k \in 0..Len(s) :
        (\A i \in 1..Len(s) : s[i] >= 0) => 0 <= Part(s)[k] /\ Part(s)[k] <= Sum(s)
<1> SUFFICES ASSUME NEW s \in Seq(Int), NEW k \in 0..Len(s), \A i \in 1..Len(s) : s[i] >= 0
             PROVE  0 <= Part(s)[k] /\ Part(s)[k] <= Sum(s)
  OBVIOUS
<1> DEFINE T == {n \in 0..Len(s) : 0 <= Part(s)[n] /\ (k <= n => Part(s)[k] <= Part(s)[n])}
<1>0. Len(s) \in Nat /\ k \in Nat /\ Part(s)[k] \in Int BY PartFacts
<1>1. 0 \in T
  <2>1. Part(s)[0] = 0 /\ (k <= 0 => k = 0) BY <1>0, PartFacts
  <2> QED BY <1>0, <2>1
<1>2. ASSUME NEW n \in 0..Len(s)-1, n \in T PROVE n + 1 \in T
  <2>1. n + 1 \in 1..Len(s) /\ (n + 1) - 1 = n /\ n + 1 \in 0..Len(s) /\ n \in 0..Len(s) BY <1>0
  <2>2. Part(s)[n + 1] = Part(s)[n] + s[n + 1] BY <2>1, PartFacts
  <2>3. Part(s)[n] \in Int /\ s[n + 1] \in Int /\ s[n + 1] >= 0
    BY <2>1, PartFacts
  <2>4. 0 <= Part(s)[n] /\ (k <= n => Part(s)[k] <= Part(s)[n]) BY <1>2
  <2>5. 0 <= Part(s)[n + 1] BY <2>2, <2>3, <2>4
  <2>6. k <= n + 1 => Part(s)[k] <= Part(s)[n + 1]
    <3>1. CASE k <= n BY <3>1, <1>0, <2>2, <2>3, <2>4
    <3>2. CASE k = n + 1 BY <3>2, <1>0
    <3> QED BY <3>1, <3>2, <1>0
  <2> QED BY <2>1, <2>5, <2>6
<1>3. \A n \in 0..Len(s) : n \in T
  <2> HIDE DEF T
  <2> QED BY <1>0, <1>1, <1>2, UpToInduction
<1>4. k \in T /\ Len(s) \in T
  <2> HIDE DEF T
  <2> QED BY <1>0, <1>3
<1> QED BY <1>0, <1>4, PartFacts

-----------------------------------------------------------------------------
(* Sequences, and the sizes of the fills in them *)

\* r is q with the elements of s behind it; r is q without its element n.
GrownBy(q, r, s) ==
    /\ Len(r) = Len(q) + Len(s)
    /\ \A i \in 1..Len(q) : r[i] = q[i]
    /\ \A i \in 1..Len(s) : r[Len(q) + i] = s[i]
Without(q, r, n) ==
    /\ n \in 1..Len(q)
    /\ Len(r) = Len(q) - 1
    /\ \A i \in 1..Len(r) : r[i] = IF i < n THEN q[i] ELSE q[i + 1]

\* What a mailbox holds, and what it counts for among the fills of S.
Msg == Report \cup Rejection

Weight(m, S) == IF m.type = "FILL" /\ m.id \in S THEN m.sz ELSE 0
Weights(q, S) == [i \in 1..Len(q) |-> Weight(q[i], S)]

\* The size of the fills of S among the first k messages of q.
Filled(q, S, k) == Part(Weights(q, S))[k]

\* What a message is made of.
LEMMA MsgFacts ==
    \A m \in Msg :
        /\ m.id \in Id /\ m.id \in Nat
        /\ m.type \in {"FILL", "CANCACK", "CANCREJ", "REJECT"}
        /\ m.type = "FILL" => m.sz \in Size /\ m.stbf \in 0..MaxSize /\ m.sz \in Nat /\ m.stbf \in Nat /\ m.sz > 0
        /\ m.type = "CANCREJ" => m.reason \in {"NOTFOUND", "FILLEDALREADY"}
        /\ m.type # "REJECT" => m \in Report
        /\ \A S : Weight(m, S) \in Nat
<1> SUFFICES ASSUME NEW m \in Msg
             PROVE  /\ m.id \in Id /\ m.id \in Nat
                    /\ m.type \in {"FILL", "CANCACK", "CANCREJ", "REJECT"}
                    /\ m.type = "FILL" => m.sz \in Size /\ m.stbf \in 0..MaxSize /\ m.sz \in Nat /\ m.stbf \in Nat /\ m.sz > 0
                    /\ m.type = "CANCREJ" => m.reason \in {"NOTFOUND", "FILLEDALREADY"}
                    /\ m.type # "REJECT" => m \in Report
                    /\ \A S : Weight(m, S) \in Nat
  OBVIOUS
<1>1. CASE m \in [type : {"FILL"}, id : Id, sz : Size, stbf : 0..MaxSize]
  BY <1>1, OrderAssumption DEF Report, Id, Size, Weight
<1>2. CASE m \in [type : {"CANCACK"}, id : Id]
  BY <1>2, OrderAssumption DEF Report, Id, Weight
<1>3. CASE m \in [type : {"CANCREJ"}, id : Id, reason : {"NOTFOUND", "FILLEDALREADY"}]
  BY <1>3, OrderAssumption DEF Report, Id, Weight
<1>4. CASE m \in [type : {"REJECT"}, id : Id]
  BY <1>4, OrderAssumption DEF Id, Weight
<1> QED BY <1>1, <1>2, <1>3, <1>4 DEF Msg, Report, Rejection

\* FillSize in terms of its partial sums.
LEMMA FilledFacts ==
    \A q \in Seq(Msg) : \A S :
        /\ Weights(q, S) \in Seq(Int) /\ Len(Weights(q, S)) = Len(q)
        /\ \A i \in 1..Len(q) : Weights(q, S)[i] = Weight(q[i], S) /\ Weight(q[i], S) \in Nat
        /\ FillSize(q, S) = Sum(Weights(q, S))
        /\ FillSize(q, S) = Filled(q, S, Len(q))
        /\ FillSize(q, S) \in Nat
        /\ Filled(q, S, 0) = 0
        /\ \A i \in 0..Len(q) : Filled(q, S, i) \in Nat /\ Filled(q, S, i) <= FillSize(q, S)
        /\ \A i \in 1..Len(q) : Filled(q, S, i) = Filled(q, S, i - 1) + Weight(q[i], S)
<1> SUFFICES ASSUME NEW q \in Seq(Msg), NEW S
             PROVE  /\ Weights(q, S) \in Seq(Int) /\ Len(Weights(q, S)) = Len(q)
                    /\ \A i \in 1..Len(q) : Weights(q, S)[i] = Weight(q[i], S) /\ Weight(q[i], S) \in Nat
                    /\ FillSize(q, S) = Sum(Weights(q, S))
                    /\ FillSize(q, S) = Filled(q, S, Len(q))
                    /\ FillSize(q, S) \in Nat
                    /\ Filled(q, S, 0) = 0
                    /\ \A i \in 0..Len(q) : Filled(q, S, i) \in Nat /\ Filled(q, S, i) <= FillSize(q, S)
                    /\ \A i \in 1..Len(q) : Filled(q, S, i) = Filled(q, S, i - 1) + Weight(q[i], S)
  OBVIOUS
<1> DEFINE s == Weights(q, S)
<1>0. Len(q) \in Nat OBVIOUS
<1>1. \A i \in 1..Len(q) : q[i] \in Msg /\ Weight(q[i], S) \in Nat BY MsgFacts
<1>2. s \in Seq(Int) /\ Len(s) = Len(q) /\ \A i \in 1..Len(q) : s[i] = Weight(q[i], S)
  BY <1>0, <1>1 DEF Weights
<1>3. FillSize(q, S) = Sum(s) BY DEF FillSize, Weights, Weight
<1> HIDE DEF s
<1>4. \A i \in 1..Len(s) : s[i] >= 0 BY <1>1, <1>2
<1>5. \A i \in 0..Len(s) : 0 <= Part(s)[i] /\ Part(s)[i] <= Sum(s) /\ Part(s)[i] \in Int
  BY <1>2, <1>4, PartGrows, PartFacts
<1>6. Sum(s) \in Int /\ Sum(s) = Part(s)[Len(s)] /\ Part(s)[0] = 0 BY <1>2, PartFacts
<1>7. Sum(s) >= 0 BY <1>5, <1>6, <1>0, <1>2
<1>8. \A i \in 1..Len(s) : Part(s)[i] = Part(s)[i - 1] + s[i] BY <1>2, PartFacts
<1>9. \A i \in 0..Len(q) : Filled(q, S, i) = Part(s)[i] BY DEF Filled, s
<1>10. /\ Weights(q, S) \in Seq(Int) /\ Len(Weights(q, S)) = Len(q)
       /\ \A i \in 1..Len(q) : Weights(q, S)[i] = Weight(q[i], S) /\ Weight(q[i], S) \in Nat
       /\ FillSize(q, S) = Sum(Weights(q, S))
  BY <1>1, <1>2, <1>3 DEF s
<1>11. /\ FillSize(q, S) = Filled(q, S, Len(q))
       /\ FillSize(q, S) \in Nat
       /\ Filled(q, S, 0) = 0
  BY <1>0, <1>2, <1>3, <1>6, <1>7, <1>9
<1>12. \A i \in 0..Len(q) : Filled(q, S, i) \in Nat /\ Filled(q, S, i) <= FillSize(q, S)
  BY <1>2, <1>3, <1>5, <1>9
<1>13. ASSUME NEW i \in 1..Len(q) PROVE Filled(q, S, i) = Filled(q, S, i - 1) + Weight(q[i], S)
  <2>1. i \in 0..Len(q) /\ i - 1 \in 0..Len(q) BY <1>0
  <2> QED BY <2>1, <1>2, <1>8, <1>9
<1> QED BY <1>10, <1>11, <1>12, <1>13

\* A message more counts for its own size.
LEMMA FillSizeGrown ==
    \A q, r \in Seq(Msg) : \A m, S :
        GrownBy(q, r, <<m>>) =>
            /\ FillSize(r, S) = FillSize(q, S) + Weight(m, S)
            /\ \A i \in 0..Len(q) : Filled(r, S, i) = Filled(q, S, i)
            /\ Filled(r, S, Len(r)) = Filled(q, S, Len(q)) + Weight(m, S)
<1> SUFFICES ASSUME NEW q \in Seq(Msg), NEW r \in Seq(Msg), NEW m, NEW S, GrownBy(q, r, <<m>>)
             PROVE  /\ FillSize(r, S) = FillSize(q, S) + Weight(m, S)
                    /\ \A i \in 0..Len(q) : Filled(r, S, i) = Filled(q, S, i)
                    /\ Filled(r, S, Len(r)) = Filled(q, S, Len(q)) + Weight(m, S)
  OBVIOUS
<1>1. /\ Len(r) = Len(q) + 1 /\ r[Len(q) + 1] = m /\ \A i \in 1..Len(q) : r[i] = q[i]
      /\ Len(q) \in Nat
  BY DEF GrownBy
<1>2. ASSUME NEW i \in 1..Len(q) PROVE Weights(r, S)[i] = Weights(q, S)[i]
  <2>1. i \in 1..Len(r) /\ r[i] = q[i] BY <1>1
  <2>2. Weights(r, S)[i] = Weight(r[i], S) BY <2>1, FilledFacts
  <2>3. Weights(q, S)[i] = Weight(q[i], S) BY FilledFacts
  <2> QED BY <2>1, <2>2, <2>3
<1>3. \A i \in 0..Len(q) : Filled(r, S, i) = Filled(q, S, i)
  <2>1. /\ Weights(q, S) \in Seq(Int) /\ Weights(r, S) \in Seq(Int)
        /\ Len(Weights(q, S)) = Len(q) /\ Len(Weights(r, S)) = Len(r)
        /\ Len(q) <= Len(r)
    BY <1>1, FilledFacts
  <2>2. \A i \in 0..Len(q) : Part(Weights(r, S))[i] = Part(Weights(q, S))[i]
    BY <1>2, <2>1, PartPrefix
  <2> QED BY <2>2 DEF Filled
<1>4. Len(r) \in 1..Len(r) /\ Len(r) - 1 = Len(q) /\ Len(q) \in 0..Len(q) BY <1>1
<1>5. Filled(r, S, Len(r)) = Filled(r, S, Len(q)) + Weight(r[Len(r)], S)
  BY <1>4, FilledFacts
<1>6. Filled(r, S, Len(r)) = Filled(q, S, Len(q)) + Weight(m, S)
  BY <1>1, <1>3, <1>4, <1>5
<1> QED BY <1>3, <1>6, FilledFacts

\* Messages that are no fills count for nothing.
LEMMA FillSizeQuiet ==
    \A q, r \in Seq(Msg) : \A s, S :
        GrownBy(q, r, s) /\ Len(s) \in Nat /\ (\A i \in 1..Len(s) : Weight(s[i], S) = 0) =>
            /\ FillSize(r, S) = FillSize(q, S)
            /\ \A i \in 0..Len(q) : Filled(r, S, i) = Filled(q, S, i)
<1> TAKE q, r \in Seq(Msg)
<1> TAKE s, S
<1> HAVE GrownBy(q, r, s) /\ Len(s) \in Nat /\ (\A i \in 1..Len(s) : Weight(s[i], S) = 0)
<1>1. /\ Len(r) = Len(q) + Len(s) /\ \A i \in 1..Len(q) : r[i] = q[i]
      /\ \A i \in 1..Len(s) : r[Len(q) + i] = s[i]
      /\ Len(q) \in Nat /\ Len(r) \in Nat
  BY DEF GrownBy
<1>2. /\ Weights(q, S) \in Seq(Int) /\ Weights(r, S) \in Seq(Int)
      /\ Len(Weights(q, S)) = Len(q) /\ Len(Weights(r, S)) = Len(r)
      /\ Len(q) <= Len(r) /\ Len(q) \in 0..Len(r)
  BY <1>1, FilledFacts
<1>3. ASSUME NEW i \in 1..Len(q) PROVE Weights(r, S)[i] = Weights(q, S)[i]
  <2>1. i \in 1..Len(r) /\ r[i] = q[i] BY <1>1
  <2>2. Weights(r, S)[i] = Weight(r[i], S) BY <2>1, FilledFacts
  <2>3. Weights(q, S)[i] = Weight(q[i], S) BY FilledFacts
  <2> QED BY <2>1, <2>2, <2>3
<1>4. \A i \in 0..Len(q) : Part(Weights(r, S))[i] = Part(Weights(q, S))[i]
  BY <1>3, <1>2, PartPrefix
<1>5. ASSUME NEW i \in Len(q)+1..Len(r) PROVE Weights(r, S)[i] = 0
  <2>1. i - Len(q) \in 1..Len(s) /\ Len(q) + (i - Len(q)) = i /\ i \in 1..Len(r) BY <1>1
  <2>2. r[i] = s[i - Len(q)] BY <1>1, <2>1
  <2> QED BY <2>1, <2>2, FilledFacts
<1>6. Sum(Weights(r, S)) = Part(Weights(r, S))[Len(q)]
  BY <1>2, <1>5, PartFlat
<1>7. FillSize(r, S) = FillSize(q, S)
  <2>1. Len(q) \in 0..Len(q) BY <1>1
  <2>2. FillSize(q, S) = Part(Weights(q, S))[Len(q)] BY FilledFacts DEF Filled
  <2>3. FillSize(r, S) = Sum(Weights(r, S)) BY FilledFacts
  <2> QED BY <1>4, <1>6, <2>1, <2>2, <2>3
<1> QED BY <1>4, <1>7 DEF Filled

\* Without its first message.
LEMMA FillSizeTail ==
    \A q, r \in Seq(Msg) : \A S :
        Without(q, r, 1) =>
            /\ FillSize(q, S) = Weight(q[1], S) + FillSize(r, S)
            /\ \A i \in 0..Len(r) : Filled(r, S, i) = Filled(q, S, i + 1) - Weight(q[1], S)
<1> SUFFICES ASSUME NEW q \in Seq(Msg), NEW r \in Seq(Msg), NEW S, Without(q, r, 1)
             PROVE  /\ FillSize(q, S) = Weight(q[1], S) + FillSize(r, S)
                    /\ \A i \in 0..Len(r) : Filled(r, S, i) = Filled(q, S, i + 1) - Weight(q[1], S)
  OBVIOUS
<1>1. /\ Len(q) = Len(r) + 1 /\ \A i \in 1..Len(r) : r[i] = q[i + 1]
      /\ Len(q) \in Nat /\ Len(r) \in Nat /\ 1 \in 1..Len(q)
  BY DEF Without
<1>2. /\ Weights(q, S) \in Seq(Int) /\ Weights(r, S) \in Seq(Int)
      /\ Len(Weights(q, S)) = Len(q) /\ Len(Weights(r, S)) = Len(r)
      /\ Weights(q, S)[1] = Weight(q[1], S) /\ Weight(q[1], S) \in Nat
  BY <1>1, FilledFacts
<1>3. ASSUME NEW i \in 1..Len(r) PROVE Weights(r, S)[i] = Weights(q, S)[i + 1]
  <2>1. i + 1 \in 1..Len(q) /\ r[i] = q[i + 1] BY <1>1
  <2>2. Weights(q, S)[i + 1] = Weight(q[i + 1], S) BY <2>1, FilledFacts
  <2>3. Weights(r, S)[i] = Weight(r[i], S) BY FilledFacts
  <2> QED BY <2>1, <2>2, <2>3
<1>4. \A i \in 0..Len(r) : Part(Weights(r, S))[i] = Part(Weights(q, S))[i + 1] - Weight(q[1], S)
  <2> DEFINE u == Weights(q, S)
             v == Weights(r, S)
  <2>1. u \in Seq(Int) /\ v \in Seq(Int) /\ Len(u) = Len(v) + 1 /\ Len(v) = Len(r) /\ u[1] = Weight(q[1], S)
    BY <1>1, <1>2
  <2>2. \A i \in 1..Len(v) : v[i] = u[i + 1] BY <1>2, <1>3
  <2> HIDE DEF u, v
  <2>3. \A i \in 0..Len(v) : Part(v)[i] = Part(u)[i + 1] - u[1] BY <2>1, <2>2, PartShift
  <2> QED BY <2>1, <2>3 DEF u, v
<1>5. \A i \in 0..Len(r) : Filled(r, S, i) = Filled(q, S, i + 1) - Weight(q[1], S)
  BY <1>4 DEF Filled
<1>6. Filled(r, S, Len(r)) = Filled(q, S, Len(q)) - Weight(q[1], S)
  BY <1>1, <1>5
<1> QED BY <1>2, <1>5, <1>6, FilledFacts

\* Only the fills that are there count.
LEMMA FillSizeSame ==
    \A q \in Seq(Msg) : \A S, T :
        (\A i \in 1..Len(q) : q[i].type = "FILL" => (q[i].id \in S <=> q[i].id \in T))
            => FillSize(q, S) = FillSize(q, T)
<1> SUFFICES ASSUME NEW q \in Seq(Msg), NEW S, NEW T,
                    \A i \in 1..Len(q) : q[i].type = "FILL" => (q[i].id \in S <=> q[i].id \in T)
             PROVE  FillSize(q, S) = FillSize(q, T)
  OBVIOUS
<1>1. \A i \in 1..Len(q) : Weight(q[i], S) = Weight(q[i], T)
  BY DEF Weight
<1>2. Weights(q, S) = Weights(q, T)
  BY <1>1 DEF Weights
<1> QED BY <1>2, FilledFacts

\* Without a fill of S there is nothing to count.
LEMMA FillSizeNone ==
    \A q \in Seq(Msg) : \A S :
        (\A i \in 1..Len(q) : q[i].type = "FILL" => q[i].id \notin S) => FillSize(q, S) = 0
<1> SUFFICES ASSUME NEW q \in Seq(Msg), NEW S,
                    \A i \in 1..Len(q) : q[i].type = "FILL" => q[i].id \notin S
             PROVE  FillSize(q, S) = 0
  OBVIOUS
<1>1. \A i \in 1..Len(q) : Weights(q, S)[i] = 0
  BY FilledFacts DEF Weight
<1>2. Weights(q, S) \in Seq(Int) /\ Len(Weights(q, S)) = Len(q) /\ Len(q) \in Nat
  BY FilledFacts
<1>3. 0 \in 0..Len(q) /\ \A i \in 0+1..Len(Weights(q, S)) : Weights(q, S)[i] = 0
  BY <1>1, <1>2
<1>4. Sum(Weights(q, S)) = Part(Weights(q, S))[0]
  BY <1>2, <1>3, PartFlat
<1> QED BY <1>4, FilledFacts DEF Filled

-----------------------------------------------------------------------------
(* What happens to a concatenation when one of its parts grows or shrinks *)

\* Append makes a sequence longer by one.
LEMMA AppendGrown ==
    \A M : \A q \in Seq(M) : \A m \in M : GrownBy(q, Append(q, m), <<m>>)
<1> SUFFICES ASSUME NEW M, NEW q \in Seq(M), NEW m \in M PROVE GrownBy(q, Append(q, m), <<m>>)
  OBVIOUS
<1>1. /\ Len(Append(q, m)) = Len(q) + 1 /\ Append(q, m)[Len(q) + 1] = m
      /\ \A i \in 1..Len(q) : Append(q, m)[i] = q[i]
  BY AppendProperties
<1> QED BY <1>1 DEF GrownBy

\* Taking the first element.
LEMMA TailWithout ==
    \A M : \A q \in Seq(M) : q # <<>> =>
        /\ Without(q, Tail(q), 1) /\ Head(q) = q[1] /\ Head(q) \in M /\ Tail(q) \in Seq(M)
        /\ Len(q) \in Nat /\ Len(q) > 0
<1> SUFFICES ASSUME NEW M, NEW q \in Seq(M), q # <<>>
             PROVE  /\ Without(q, Tail(q), 1) /\ Head(q) = q[1] /\ Head(q) \in M /\ Tail(q) \in Seq(M)
                    /\ Len(q) \in Nat /\ Len(q) > 0
  OBVIOUS
<1>1. /\ Head(q) \in M /\ Tail(q) \in Seq(M) /\ Len(Tail(q)) = Len(q) - 1
      /\ \A i \in 1..Len(Tail(q)) : Tail(q)[i] = q[i + 1]
      /\ Head(q) = q[1]
  BY HeadTailProperties
<1>2. Len(q) \in Nat \ {0} BY EmptySeq
<1> QED BY <1>1, <1>2 DEF Without

\* What is put behind the second of two sequences is behind both.
LEMMA ConcatGrown ==
    \A M : \A p, q, s \in Seq(M) : GrownBy(p \o q, p \o (q \o s), s)
<1> SUFFICES ASSUME NEW M, NEW p \in Seq(M), NEW q \in Seq(M), NEW s \in Seq(M)
             PROVE  GrownBy(p \o q, p \o (q \o s), s)
  OBVIOUS
<1>1. p \o (q \o s) = (p \o q) \o s BY ConcatAssociative
<1>2. p \o q \in Seq(M) BY ConcatProperties
<1> DEFINE r == p \o q
<1>3. r \in Seq(M) BY <1>2
<1> HIDE DEF r
<1>4. /\ Len(r \o s) = Len(r) + Len(s)
      /\ \A i \in 1..Len(r) + Len(s) : (r \o s)[i] = IF i <= Len(r) THEN r[i] ELSE s[i - Len(r)]
      /\ Len(r) \in Nat /\ Len(s) \in Nat
  BY <1>3, ConcatProperties
<1>5. \A i \in 1..Len(r) : (r \o s)[i] = r[i]
  BY <1>4
<1>6. ASSUME NEW i \in 1..Len(s) PROVE (r \o s)[Len(r) + i] = s[i]
  <2>1. Len(r) + i \in 1..Len(r) + Len(s) /\ ~ (Len(r) + i <= Len(r)) /\ (Len(r) + i) - Len(r) = i
    BY <1>4
  <2> QED BY <1>4, <2>1
<1>7. GrownBy(r, r \o s, s) BY <1>4, <1>5, <1>6 DEF GrownBy
<1> QED BY <1>1, <1>7 DEF r

\* The first element of the second part is taken, or that of the first.
LEMMA ConcatWithout ==
    \A M : \A p, q \in Seq(M) :
        /\ q # <<>> => /\ Without(p \o q, p \o Tail(q), Len(p) + 1)
                       /\ (p \o q)[Len(p) + 1] = Head(q)
                       /\ Head(q) \in M
        /\ p # <<>> => /\ Without(p \o q, Tail(p) \o q, 1)
                       /\ (p \o q)[1] = Head(p)
                       /\ Head(p) \in M
<1> SUFFICES ASSUME NEW M, NEW p \in Seq(M), NEW q \in Seq(M)
             PROVE  /\ q # <<>> => /\ Without(p \o q, p \o Tail(q), Len(p) + 1)
                                   /\ (p \o q)[Len(p) + 1] = Head(q)
                                   /\ Head(q) \in M
                    /\ p # <<>> => /\ Without(p \o q, Tail(p) \o q, 1)
                                   /\ (p \o q)[1] = Head(p)
                                   /\ Head(p) \in M
  OBVIOUS
<1>0. /\ Len(p \o q) = Len(p) + Len(q) /\ Len(p) \in Nat /\ Len(q) \in Nat
      /\ \A i \in 1..Len(p) + Len(q) : (p \o q)[i] = IF i <= Len(p) THEN p[i] ELSE q[i - Len(p)]
  BY ConcatProperties
<1>1. ASSUME q # <<>>
      PROVE  /\ Without(p \o q, p \o Tail(q), Len(p) + 1)
             /\ (p \o q)[Len(p) + 1] = Head(q)
             /\ Head(q) \in M
  <2>1. /\ Head(q) \in M /\ Tail(q) \in Seq(M) /\ Len(Tail(q)) = Len(q) - 1 /\ Head(q) = q[1]
        /\ \A i \in 1..Len(Tail(q)) : Tail(q)[i] = q[i + 1] /\ Len(q) > 0
    BY <1>1, TailWithout DEF Without
  <2> DEFINE t == Tail(q)
  <2> HIDE DEF t
  <2>2. /\ Len(p \o t) = Len(p) + Len(t)
        /\ \A i \in 1..Len(p) + Len(t) : (p \o t)[i] = IF i <= Len(p) THEN p[i] ELSE t[i - Len(p)]
    BY <2>1, ConcatProperties DEF t
  <2>3. Len(q) > 0 BY <1>0, <1>1, EmptySeq
  <2>4. Len(t) = Len(q) - 1 /\ \A i \in 1..Len(t) : t[i] = q[i + 1] BY <2>1 DEF t
  <2>5. ASSUME NEW i \in 1..Len(p \o t)
        PROVE  (p \o t)[i] = IF i < Len(p) + 1 THEN (p \o q)[i] ELSE (p \o q)[i + 1]
    <3>1. i \in 1..Len(p) + Len(t) /\ i \in 1..Len(p) + Len(q) /\ i + 1 \in 1..Len(p) + Len(q)
      BY <2>2, <2>4, <2>3, <1>0
    <3>2. CASE i <= Len(p) BY <3>1, <3>2, <2>2, <1>0
    <3>3. CASE ~ (i <= Len(p))
      <4>1. i - Len(p) \in 1..Len(t) /\ (i - Len(p)) + 1 = (i + 1) - Len(p) /\ ~ (i + 1 <= Len(p))
            /\ ~ (i < Len(p) + 1)
        BY <3>1, <3>3, <1>0, <2>4
      <4>2. t[i - Len(p)] = q[(i + 1) - Len(p)] BY <4>1, <2>4
      <4> QED BY <3>1, <3>3, <4>1, <4>2, <2>2, <1>0
    <3> QED BY <3>2, <3>3, <3>1
  <2>6. Without(p \o q, p \o t, Len(p) + 1)
    BY <1>0, <2>2, <2>3, <2>4, <2>5 DEF Without
  <2>7. (p \o q)[Len(p) + 1] = q[1]
    <3>1. Len(p) + 1 \in 1..Len(p) + Len(q) /\ (Len(p) + 1) - Len(p) = 1 /\ ~ (Len(p) + 1 <= Len(p))
      BY <1>0, <2>3
    <3> QED BY <3>1, <1>0
  <2> QED BY <2>1, <2>6, <2>7 DEF t
<1>2. ASSUME p # <<>>
      PROVE  /\ Without(p \o q, Tail(p) \o q, 1)
             /\ (p \o q)[1] = Head(p)
             /\ Head(p) \in M
  <2> DEFINE t == Tail(p)
  <2>1. /\ Head(p) \in M /\ t \in Seq(M) /\ Len(t) = Len(p) - 1 /\ Head(p) = p[1]
        /\ \A i \in 1..Len(t) : t[i] = p[i + 1]
    BY <1>2, TailWithout DEF Without
  <2> HIDE DEF t
  <2>2. /\ Len(t \o q) = Len(t) + Len(q)
        /\ \A i \in 1..Len(t) + Len(q) : (t \o q)[i] = IF i <= Len(t) THEN t[i] ELSE q[i - Len(t)]
    BY <2>1, ConcatProperties
  <2>3. Len(p) > 0 BY <1>0, <1>2, EmptySeq
  <2>5. ASSUME NEW i \in 1..Len(t \o q) PROVE (t \o q)[i] = (p \o q)[i + 1]
    <3>1. i \in 1..Len(t) + Len(q) /\ i + 1 \in 1..Len(p) + Len(q)
      BY <2>1, <2>2, <2>3, <1>0
    <3>2. CASE i <= Len(t)
      <4>1. i + 1 <= Len(p) /\ i \in 1..Len(t) BY <3>1, <3>2, <2>1, <1>0
      <4> QED BY <3>1, <3>2, <4>1, <2>1, <2>2, <1>0
    <3>3. CASE ~ (i <= Len(t))
      <4>1. i - Len(t) = (i + 1) - Len(p) /\ ~ (i + 1 <= Len(p))
        BY <3>1, <3>3, <1>0, <2>1
      <4> QED BY <3>1, <3>3, <4>1, <2>2, <1>0
    <3> QED BY <3>2, <3>3, <3>1
  <2>6. Without(p \o q, t \o q, 1)
    BY <1>0, <2>1, <2>2, <2>3, <2>5 DEF Without
  <2>7. (p \o q)[1] = p[1]
    BY <1>0, <2>3
  <2> QED BY <2>1, <2>6, <2>7 DEF t
<1> QED BY <1>1, <1>2

\* An element that moves from one part to the other changes nothing.
LEMMA ConcatMove ==
    \A M : \A p, q \in Seq(M) : q # <<>> => Append(p, Head(q)) \o Tail(q) = p \o q
<1> SUFFICES ASSUME NEW M, NEW p \in Seq(M), NEW q \in Seq(M), q # <<>>
             PROVE  Append(p, Head(q)) \o Tail(q) = p \o q
  OBVIOUS
<1>1. Head(q) \in M /\ Tail(q) \in Seq(M) BY TailWithout
<1>2. <<Head(q)>> \in Seq(M) BY <1>1
<1>3. Append(p, Head(q)) = p \o <<Head(q)>> BY <1>1, AppendIsConcat
<1>4. (p \o <<Head(q)>>) \o Tail(q) = p \o (<<Head(q)>> \o Tail(q))
  BY <1>1, <1>2, ConcatAssociative
<1>5. <<Head(q)>> \o Tail(q) = q
  <2>1. /\ Len(Tail(q)) = Len(q) - 1 /\ \A i \in 1..Len(Tail(q)) : Tail(q)[i] = q[i + 1]
        /\ Head(q) = q[1] /\ Len(q) \in Nat /\ Len(q) > 0
    BY TailWithout DEF Without
  <2>2. Len(<<Head(q)>>) = 1 /\ <<Head(q)>>[1] = q[1]
    BY <2>1
  <2>3. /\ <<Head(q)>> \o Tail(q) \in Seq(M)
        /\ Len(<<Head(q)>> \o Tail(q)) = Len(q)
        /\ \A i \in 1..Len(q) : (<<Head(q)>> \o Tail(q))[i] =
               IF i <= 1 THEN <<Head(q)>>[i] ELSE Tail(q)[i - 1]
    BY <1>1, <1>2, <2>1, <2>2, ConcatProperties
  <2>4. \A i \in 1..Len(q) : (<<Head(q)>> \o Tail(q))[i] = q[i]
    BY <2>1, <2>2, <2>3
  <2> QED BY <2>3, <2>4, SeqEqual
<1> QED BY <1>3, <1>4, <1>5

-----------------------------------------------------------------------------
(* Types *)

\* What the types leave out: a slot without an id is empty, an order goes over
\* the wire timed and with a size, and without a feed delay no answer waits.
TimedAdds(q) == \A i \in 1..Len(q) : q[i].type = "ADD" => q[i].timed /\ q[i].sz \in Size
Shape ==
    /\ \A l \in Light : slot[l].id = 0 => slot[l] = Empty
    /\ TimedAdds(Wire)
    /\ ~ FeedDelay => pub_q = <<>>

\* The type invariant, with what the types of the model leave out.
TypeInv == TypeOK /\ Shape

\* The sequences that the invariants speak of.
LEMMA Views ==
    ASSUME TypeOK
    PROVE  /\ Wire \in Seq(ObMsg) /\ Len(Wire) \in Nat /\ DOMAIN Wire = 1..Len(Wire)
           /\ Answers \in Seq(Report) /\ Answers \in Seq(Msg)
           /\ Len(Answers) \in Nat /\ DOMAIN Answers = 1..Len(Answers)
           /\ \A l \in Light : /\ clientIn[l] \in Seq(Msg) /\ Len(clientIn[l]) \in Nat
                               /\ DOMAIN clientIn[l] = 1..Len(clientIn[l])
           /\ \A i \in 1..Len(Wire) : Wire[i] \in ObMsg /\ Wire[i].id \in Id
           /\ \A i \in 1..Len(Answers) : Answers[i] \in Report /\ Answers[i] \in Msg /\ Answers[i].id \in Id
           /\ \A l \in Light : \A i \in 1..Len(clientIn[l]) : clientIn[l][i] \in Msg /\ clientIn[l][i].id \in Id
<1>1. del_q \in Seq(ObMsg) /\ obIn \in Seq(ObMsg) /\ somIn \in Seq(Report) /\ pub_q \in Seq(Report)
      /\ clientIn \in [Light -> Seq(Msg)]
  BY DEF TypeOK, MailTypeOK, VenueTypeOK, Msg
<1>2. Wire \in Seq(ObMsg) /\ Answers \in Seq(Report)
  BY <1>1, ConcatProperties DEF Wire, Answers
<1>3. Report \subseteq Msg BY DEF Msg
<1>4. Answers \in Seq(Msg) BY <1>2, <1>3, SeqMonotonic
<1>5. Len(Wire) \in Nat /\ DOMAIN Wire = 1..Len(Wire) BY <1>2
<1>6. Len(Answers) \in Nat /\ DOMAIN Answers = 1..Len(Answers) BY <1>2
<1>7. ASSUME NEW i \in 1..Len(Wire) PROVE Wire[i] \in ObMsg /\ Wire[i].id \in Id
  <2>1. Wire[i] \in ObMsg BY <1>2, ElementOfSeq
  <2> QED BY <2>1 DEF ObMsg
<1>8. ASSUME NEW i \in 1..Len(Answers)
      PROVE  Answers[i] \in Report /\ Answers[i] \in Msg /\ Answers[i].id \in Id
  BY <1>2, <1>4, MsgFacts
<1>9. ASSUME NEW l \in Light
      PROVE  /\ clientIn[l] \in Seq(Msg) /\ Len(clientIn[l]) \in Nat
             /\ DOMAIN clientIn[l] = 1..Len(clientIn[l])
             /\ \A i \in 1..Len(clientIn[l]) : clientIn[l][i] \in Msg /\ clientIn[l][i].id \in Id
  <2>1. clientIn[l] \in Seq(Msg) BY <1>1
  <2> QED BY <2>1, MsgFacts
<1> QED BY <1>2, <1>4, <1>5, <1>6, <1>7, <1>8, <1>9

\* The messages are of their types.
LEMMA MessageTypes ==
    /\ \A id \in Id, sz \in Size : AddOrder(id, sz) \in ObMsg
    /\ \A id \in Id, t \in BOOLEAN : CancelOrder(id, t) \in ObMsg
    /\ \A id \in Id, sz \in Size, n \in 0..MaxSize : Fill(id, sz, n) \in Report
    /\ \A id \in Id : CancAck(id) \in Report
    /\ \A id \in Id : CancReject(id, "NOTFOUND") \in Report /\ CancReject(id, "FILLEDALREADY") \in Report
    /\ \A id \in Id : Reject(id) \in Rejection
    /\ Report \subseteq Msg /\ Rejection \subseteq Msg
<1>1. \A sz \in Size : sz \in 0..MaxSize BY OrderAssumption DEF Size
<1>2. 0 \in 0..MaxSize BY OrderAssumption
<1> QED BY <1>1, <1>2
        DEF AddOrder, CancelOrder, Fill, CancAck, CancReject, Reject, ObMsg, Report, Rejection, Msg

\* A report to a light keeps the mailboxes' types.
LEMMA ToClientType ==
    ASSUME TypeOK, NEW l \in Light, NEW m \in Msg, ToClient(l, m)
    PROVE  /\ clientIn' \in [Light -> Seq(Report \cup Rejection)]
           /\ clientIn'[l] = Append(clientIn[l], m)
           /\ \A k \in Light : k # l => clientIn'[k] = clientIn[k]
           /\ GrownBy(clientIn[l], clientIn'[l], <<m>>)
<1>1. clientIn \in [Light -> Seq(Msg)] BY DEF TypeOK, MailTypeOK, Msg
<1>2. clientIn[l] \in Seq(Msg) BY <1>1
<1>3. Append(clientIn[l], m) \in Seq(Msg) /\ GrownBy(clientIn[l], Append(clientIn[l], m), <<m>>)
  BY <1>2, AppendGrown, AppendProperties
<1>4. clientIn' = [clientIn EXCEPT ![l] = Append(clientIn[l], m)] BY DEF ToClient
<1>5. clientIn' \in [Light -> Seq(Msg)] BY <1>1, <1>3, <1>4
<1> QED BY <1>1, <1>3, <1>4, <1>5 DEF Msg

\* What canc_handler does, by case.
LEMMA CancHandlerType ==
    ASSUME TypeOK, NEW id \in Id, NEW t \in BOOLEAN, canc_handler(id, t)
    PROVE  /\ obIn' \in Seq(ObMsg) /\ somIn' = somIn
           /\ clientIn' \in [Light -> Seq(Report \cup Rejection)]
           /\ orders' = orders /\ curr_id' = curr_id /\ stopped' = stopped /\ pos' = pos
           /\ \/ obIn' = obIn /\ clientIn' = clientIn
              \/ /\ obIn' = obIn /\ Known(id)
                 /\ ToClient(orders[id].client, CancReject(id, "FILLEDALREADY"))
              \/ /\ clientIn' = clientIn /\ Known(id)
                 /\ obIn' = Append(obIn, CancelOrder(id, t))
<1>1. /\ orders' = orders /\ curr_id' = curr_id /\ stopped' = stopped /\ pos' = pos /\ somIn' = somIn
  BY DEF canc_handler, somVars
<1>2. obIn \in Seq(ObMsg) /\ clientIn \in [Light -> Seq(Report \cup Rejection)]
  BY DEF TypeOK, MailTypeOK
<1>3. \/ obIn' = obIn /\ clientIn' = clientIn
      \/ /\ obIn' = obIn /\ Known(id)
         /\ ToClient(orders[id].client, CancReject(id, "FILLEDALREADY"))
      \/ /\ clientIn' = clientIn /\ Known(id)
         /\ obIn' = Append(obIn, CancelOrder(id, t))
  BY DEF canc_handler, Working, Known
<1>4. CancelOrder(id, t) \in ObMsg /\ CancReject(id, "FILLEDALREADY") \in Msg
  BY MessageTypes
<1>5. Known(id) => orders[id].client \in Light
  BY DEF TypeOK, SOMTypeOK, Order, Known
<1>6. obIn' \in Seq(ObMsg)
  BY <1>2, <1>3, <1>4
<1>7. clientIn' \in [Light -> Seq(Report \cup Rejection)]
  BY <1>2, <1>3, <1>4, <1>5, ToClientType
<1> QED BY <1>1, <1>3, <1>6, <1>7

\* The entry a light leaves in QCoord.
LEMMA EntryTypes ==
    ASSUME TypeOK, NEW l \in Light
    PROVE  /\ \A id \in Id, sz \in Size :
                  add_order(l, id, sz) = BadEntry \/ add_order(l, id, sz) \in [id : 0..MaxId, sz : 0..MaxSize]
           /\ \A sz \in 0..MaxSize, all \in BOOLEAN :
                  remove_order(l, sz, all) = BadEntry \/ remove_order(l, sz, all) \in [id : 0..MaxId, sz : 0..MaxSize]
           /\ qentry[l] = BadEntry \/ qentry[l] \in [id : 0..MaxId, sz : 0..MaxSize]
<1>1. qentry[l] = BadEntry \/ qentry[l] \in [id : 0..MaxId, sz : 0..MaxSize]
  BY DEF TypeOK, LightTypeOK
<1>2. NoEntry \in [id : 0..MaxId, sz : 0..MaxSize]
  BY OrderAssumption DEF NoEntry
<1>3. ASSUME NEW id \in Id, NEW sz \in Size
      PROVE  add_order(l, id, sz) = BadEntry \/ add_order(l, id, sz) \in [id : 0..MaxId, sz : 0..MaxSize]
  <2>1. id \in 0..MaxId /\ sz \in 0..MaxSize BY OrderAssumption DEF Id, Size
  <2> QED BY <2>1 DEF add_order
<1>4. ASSUME NEW sz \in 0..MaxSize, NEW all \in BOOLEAN
      PROVE  remove_order(l, sz, all) = BadEntry \/ remove_order(l, sz, all) \in [id : 0..MaxId, sz : 0..MaxSize]
  <2>1. CASE qentry[l] = BadEntry
    <3>1. sz > 0 \/ all \/ sz = 0 BY OrderAssumption
    <3> QED BY <2>1, <1>2, OrderAssumption DEF remove_order, BadEntry, NoEntry
  <2>2. CASE qentry[l] \in [id : 0..MaxId, sz : 0..MaxSize]
    <3>1. CASE sz > qentry[l].sz BY <3>1, <1>2 DEF remove_order
    <3>2. CASE ~ (sz > qentry[l].sz)
      <4>1. qentry[l].sz - sz \in 0..MaxSize BY <3>2, <2>2, OrderAssumption
      <4>2. [qentry[l] EXCEPT !.sz = @ - sz] \in [id : 0..MaxId, sz : 0..MaxSize]
        BY <4>1, <2>2
      <4> QED BY <4>2, <1>2 DEF remove_order
    <3> QED BY <3>1, <3>2
  <2> QED BY <1>1, <2>1, <2>2
<1> QED BY <1>1, <1>3, <1>4

\* The parts of TypeOK that a step leaves alone.
LEMMA TypeFrame ==
    ASSUME TypeOK
    PROVE  /\ UNCHANGED venueVars => VenueTypeOK'
           /\ UNCHANGED somVars => SOMTypeOK'
           /\ UNCHANGED lightVars => LightTypeOK'
           /\ UNCHANGED <<mailVars, aborted>> => MailTypeOK'
<1> USE DEF TypeOK
<1>1. UNCHANGED venueVars => VenueTypeOK' BY DEF venueVars, VenueTypeOK
<1>2. UNCHANGED somVars => SOMTypeOK' BY DEF somVars, SOMTypeOK
<1>3. UNCHANGED lightVars => LightTypeOK' BY DEF lightVars, LightTypeOK
<1>4. UNCHANGED <<mailVars, aborted>> => MailTypeOK' BY DEF mailVars, MailTypeOK
<1> QED BY <1>1, <1>2, <1>3, <1>4

\* The light's part of a step that writes its entry.
LEMMA SetEntryType ==
    ASSUME TypeOK, NEW l \in Light, NEW e, SetEntry(l, e),
           e = BadEntry \/ e \in [id : 0..MaxId, sz : 0..MaxSize]
    PROVE  /\ \A k \in Light : qentry'[k] = BadEntry \/ qentry'[k] \in [id : 0..MaxId, sz : 0..MaxSize]
           /\ aborted' \in {"no", "OB", "light", "QCoord"}
<1>1. qentry' = [qentry EXCEPT ![l] = e] BY DEF SetEntry
<1>2. ASSUME NEW k \in Light
      PROVE  qentry'[k] = BadEntry \/ qentry'[k] \in [id : 0..MaxId, sz : 0..MaxSize]
  <2>1. k # l => qentry'[k] = qentry[k] BY <1>1
  <2>2. qentry[k] = BadEntry \/ qentry[k] \in [id : 0..MaxId, sz : 0..MaxSize]
    BY DEF TypeOK, LightTypeOK
  <2>3. k = l => qentry'[k] = e \/ qentry'[k] = qentry[k] BY <1>1
  <2> QED BY <2>1, <2>2, <2>3
<1>3. aborted' \in {"no", "OB", "light", "QCoord"}
  BY DEF SetEntry, TypeOK, MailTypeOK
<1> QED BY <1>2, <1>3

\* The SOM's table with a new order.
LEMMA RecordType ==
    ASSUME TypeOK, NEW l \in Light, NEW sz \in Size, curr_id \in Id, Record(l, sz)
    PROVE  /\ DOMAIN orders' = DOMAIN orders \cup {curr_id}
           /\ \A id \in DOMAIN orders \ {curr_id} : orders'[id] = orders[id]
           /\ orders'[curr_id] = [client |-> l, sz |-> sz, stbf |-> sz, filled |-> FALSE]
           /\ \A id \in DOMAIN orders' : orders'[id] \in Order
           /\ DOMAIN orders' \subseteq Id
           /\ curr_id' \in 1..MaxId + 1 /\ curr_id' = curr_id + 1
<1>1. [client |-> l, sz |-> sz, stbf |-> sz, filled |-> FALSE] \in Order
  BY OrderAssumption DEF Order, Size
<1>2. /\ DOMAIN orders' = DOMAIN orders \cup {curr_id}
      /\ \A id \in DOMAIN orders \ {curr_id} : orders'[id] = orders[id]
      /\ orders'[curr_id] = [client |-> l, sz |-> sz, stbf |-> sz, filled |-> FALSE]
      /\ curr_id' = curr_id + 1
  BY DEF Record
<1>3. DOMAIN orders \subseteq Id /\ \A id \in DOMAIN orders : orders[id] \in Order
  BY DEF TypeOK, SOMTypeOK
<1>4. curr_id' \in 1..MaxId + 1 BY <1>2, OrderAssumption DEF Id
<1>5. ASSUME NEW id \in DOMAIN orders' PROVE orders'[id] \in Order
  BY <1>1, <1>2, <1>3
<1> QED BY <1>2, <1>3, <1>4, <1>5

\* Placing an order.
LEMMA PlaceType ==
    ASSUME TypeInv, NEW l \in Light, NEW sz \in Size, Place(l, sz)
    PROVE  /\ TypeOK'
           /\ Answers' = Answers
           /\ \/ ToClient(l, Reject(curr_id)) /\ Wire' = Wire /\ orders' = orders /\ curr_id' = curr_id
              \/ ToClient(l, Reject(curr_id)) /\ Wire' = Wire /\ Record(l, sz)
              \/ clientIn' = clientIn /\ GrownBy(Wire, Wire', <<AddOrder(curr_id, sz)>>) /\ Record(l, sz)
<1>0. TypeOK BY DEF TypeInv
<1>1. /\ place_order(l, sz) /\ UNCHANGED venueVars /\ console' = console /\ curr_id \in Id
      /\ somIn' = somIn /\ pub_q' = pub_q /\ del_q' = del_q
  BY DEF Place, place_order, order_handler, venueVars
<1>2. Reject(curr_id) \in Msg /\ AddOrder(curr_id, sz) \in ObMsg BY <1>1, MessageTypes
<1>3. \/ ToClient(l, Reject(curr_id)) /\ obIn' = obIn /\ orders' = orders /\ curr_id' = curr_id
      \/ ToClient(l, Reject(curr_id)) /\ obIn' = obIn /\ Record(l, sz)
      \/ clientIn' = clientIn /\ obIn' = Append(obIn, AddOrder(curr_id, sz)) /\ Record(l, sz)
  BY <1>1 DEF place_order, order_handler, order_handler_overlimit, order_handler_stopped,
              order_handler_forward, somVars
<1>4. stopped' = stopped /\ pos' = pos
  BY <1>1 DEF place_order, order_handler, order_handler_overlimit, order_handler_stopped,
              order_handler_forward, somVars
<1>5. MailTypeOK'
  <2>1. obIn' \in Seq(ObMsg) BY <1>0, <1>2, <1>3 DEF TypeOK, MailTypeOK
  <2>2. clientIn' \in [Light -> Seq(Report \cup Rejection)]
    BY <1>0, <1>2, <1>3, ToClientType DEF TypeOK, MailTypeOK
  <2>3. aborted' \in {"no", "OB", "light", "QCoord"}
    <3>1. SetEntry(l, add_order(l, curr_id, sz)) BY <1>1 DEF place_order
    <3>2. add_order(l, curr_id, sz) = BadEntry \/ add_order(l, curr_id, sz) \in [id : 0..MaxId, sz : 0..MaxSize]
      BY <1>0, <1>1, EntryTypes
    <3> QED BY <1>0, <3>1, <3>2, SetEntryType
  <2> QED BY <1>0, <1>1, <2>1, <2>2, <2>3 DEF TypeOK, MailTypeOK
<1>6. SOMTypeOK'
  <2>1. CASE orders' = orders /\ curr_id' = curr_id
    BY <1>0, <1>4, <2>1 DEF TypeOK, SOMTypeOK
  <2>2. CASE Record(l, sz)
    BY <1>0, <1>1, <1>4, <2>2, RecordType DEF TypeOK, SOMTypeOK
  <2> QED BY <1>3, <2>1, <2>2
<1>7. LightTypeOK'
  <2>1. SetEntry(l, add_order(l, curr_id, sz)) BY <1>1 DEF place_order
  <2>2. add_order(l, curr_id, sz) = BadEntry \/ add_order(l, curr_id, sz) \in [id : 0..MaxId, sz : 0..MaxSize]
    BY <1>0, <1>1, EntryTypes
  <2>3. \A k \in Light : qentry'[k] = BadEntry \/ qentry'[k] \in [id : 0..MaxId, sz : 0..MaxSize]
    BY <1>0, <2>1, <2>2, SetEntryType
  <2>4. slot' = [slot EXCEPT ![l] = [id |-> curr_id, canc |-> FALSE]]
        /\ cancel_requests' = cancel_requests /\ pcoord' = pcoord
    BY <1>1 DEF place_order
  <2>5. curr_id \in 0..MaxId BY <1>1, OrderAssumption DEF Id
  <2>6. slot' \in [Light -> [id : 0..MaxId, canc : BOOLEAN]]
    BY <1>0, <2>4, <2>5 DEF TypeOK, LightTypeOK
  <2> QED BY <1>0, <2>3, <2>4, <2>6 DEF TypeOK, LightTypeOK
<1>8. VenueTypeOK' BY <1>0, <1>1, TypeFrame
<1>9. Answers' = Answers BY <1>1 DEF Answers
<1>10. /\ obIn' = obIn => Wire' = Wire
       /\ obIn' = Append(obIn, AddOrder(curr_id, sz)) => GrownBy(Wire, Wire', <<AddOrder(curr_id, sz)>>)
  <2>1. obIn \in Seq(ObMsg) /\ del_q \in Seq(ObMsg) BY <1>0 DEF TypeOK, MailTypeOK, VenueTypeOK
  <2>2. <<AddOrder(curr_id, sz)>> \in Seq(ObMsg) BY <1>2
  <2>3. Append(obIn, AddOrder(curr_id, sz)) = obIn \o <<AddOrder(curr_id, sz)>> BY <1>2, <2>1, AppendIsConcat
  <2>4. GrownBy(del_q \o obIn, del_q \o (obIn \o <<AddOrder(curr_id, sz)>>), <<AddOrder(curr_id, sz)>>)
    BY <2>1, <2>2, ConcatGrown
  <2> QED BY <1>1, <2>3, <2>4 DEF Wire
<1>11. console' \in 0..MaxConsole BY <1>0, <1>1 DEF TypeOK
<1> QED BY <1>3, <1>5, <1>6, <1>7, <1>8, <1>9, <1>10, <1>11 DEF TypeOK

\* A light cancels: by itself, or told by the book that it is cleared.
LEMMA CancelOrderType ==
    ASSUME TypeInv, NEW l \in Light, cancel_order(l)
    PROVE  /\ MailTypeOK' /\ SOMTypeOK' /\ LightTypeOK'
           /\ slot[l].id \in Id /\ canc_handler(slot[l].id, TRUE)
<1>0. TypeOK BY DEF TypeInv
<1>1. slot[l].id \in Id
  <2>1. slot[l] \in [id : 0..MaxId, canc : BOOLEAN] /\ slot[l].id # 0
    BY <1>0 DEF TypeInv, Shape, TypeOK, LightTypeOK, cancel_order
  <2> QED BY <2>1, OrderAssumption DEF Id
<1>2. canc_handler(slot[l].id, TRUE) BY DEF cancel_order
<1>3. /\ obIn' \in Seq(ObMsg) /\ somIn' = somIn
      /\ clientIn' \in [Light -> Seq(Report \cup Rejection)]
      /\ orders' = orders /\ curr_id' = curr_id /\ stopped' = stopped /\ pos' = pos
  BY <1>0, <1>1, <1>2, CancHandlerType
<1>4. SetEntry(l, remove_order(l, 0, TRUE)) BY DEF cancel_order
<1>5. remove_order(l, 0, TRUE) = BadEntry \/ remove_order(l, 0, TRUE) \in [id : 0..MaxId, sz : 0..MaxSize]
  <2>1. 0 \in 0..MaxSize BY OrderAssumption
  <2> QED BY <1>0, <2>1, EntryTypes
<1>6. /\ \A k \in Light : qentry'[k] = BadEntry \/ qentry'[k] \in [id : 0..MaxId, sz : 0..MaxSize]
      /\ aborted' \in {"no", "OB", "light", "QCoord"}
  BY <1>0, <1>4, <1>5, SetEntryType
<1>7. MailTypeOK' BY <1>0, <1>3, <1>6 DEF TypeOK, MailTypeOK
<1>8. SOMTypeOK' BY <1>0, <1>3 DEF TypeOK, SOMTypeOK
<1>9. LightTypeOK'
  <2>1. /\ cancel_requests' = [cancel_requests EXCEPT ![l] = @ \cup {slot[l].id}]
        /\ slot' = [slot EXCEPT ![l].canc = TRUE] /\ pcoord' = pcoord
    BY DEF cancel_order
  <2>2. slot' \in [Light -> [id : 0..MaxId, canc : BOOLEAN]]
    BY <1>0, <2>1 DEF TypeOK, LightTypeOK
  <2>3. cancel_requests' \in [Light -> SUBSET Id]
    BY <1>0, <1>1, <2>1 DEF TypeOK, LightTypeOK
  <2> QED BY <1>0, <1>6, <2>1, <2>2, <2>3 DEF TypeOK, LightTypeOK
<1> QED BY <1>1, <1>2, <1>7, <1>8, <1>9

\* What a cancel adds to the wire or to a mailbox.
LEMMA CancView ==
    ASSUME TypeOK, NEW id \in Id, NEW t \in BOOLEAN, canc_handler(id, t), del_q' = del_q, pub_q' = pub_q
    PROVE  /\ Answers' = Answers
           /\ \/ Wire' = Wire /\ clientIn' = clientIn
              \/ /\ Wire' = Wire /\ Known(id)
                 /\ ToClient(orders[id].client, CancReject(id, "FILLEDALREADY"))
              \/ /\ clientIn' = clientIn /\ Known(id)
                 /\ GrownBy(Wire, Wire', <<CancelOrder(id, t)>>)
<1>1. /\ somIn' = somIn
      /\ \/ obIn' = obIn /\ clientIn' = clientIn
         \/ /\ obIn' = obIn /\ Known(id)
            /\ ToClient(orders[id].client, CancReject(id, "FILLEDALREADY"))
         \/ /\ clientIn' = clientIn /\ Known(id)
            /\ obIn' = Append(obIn, CancelOrder(id, t))
  BY CancHandlerType
<1>2. obIn \in Seq(ObMsg) /\ del_q \in Seq(ObMsg) BY DEF TypeOK, MailTypeOK, VenueTypeOK
<1>3. CancelOrder(id, t) \in ObMsg BY MessageTypes
<1>4. <<CancelOrder(id, t)>> \in Seq(ObMsg) BY <1>3
<1>5. Append(obIn, CancelOrder(id, t)) = obIn \o <<CancelOrder(id, t)>> BY <1>2, <1>3, AppendIsConcat
<1>6. GrownBy(del_q \o obIn, del_q \o (obIn \o <<CancelOrder(id, t)>>), <<CancelOrder(id, t)>>)
  BY <1>2, <1>4, ConcatGrown
<1>7. obIn' = obIn => Wire' = Wire BY DEF Wire
<1>8. obIn' = Append(obIn, CancelOrder(id, t)) => GrownBy(Wire, Wire', <<CancelOrder(id, t)>>)
  BY <1>5, <1>6 DEF Wire
<1>9. Answers' = Answers BY <1>1 DEF Answers
<1> QED BY <1>1, <1>7, <1>8, <1>9

\* A light takes a message off its mailbox.
LEMMA ReceiveType ==
    ASSUME TypeOK, NEW l \in Light, NEW t, Receive(l, t)
    PROVE  /\ clientIn' \in [Light -> Seq(Report \cup Rejection)]
           /\ obIn' = obIn /\ somIn' = somIn /\ UNCHANGED somVars
           /\ Head(clientIn[l]) \in Msg /\ Head(clientIn[l]) = clientIn[l][1] /\ Head(clientIn[l]).type = t
           /\ Without(clientIn[l], clientIn'[l], 1)
           /\ \A k \in Light : k # l => clientIn'[k] = clientIn[k]
<1>1. clientIn \in [Light -> Seq(Msg)] BY DEF TypeOK, MailTypeOK, Msg
<1>2. clientIn[l] \in Seq(Msg) /\ clientIn[l] # <<>> BY <1>1 DEF Receive
<1>3. /\ Without(clientIn[l], Tail(clientIn[l]), 1) /\ Head(clientIn[l]) = clientIn[l][1]
      /\ Head(clientIn[l]) \in Msg /\ Tail(clientIn[l]) \in Seq(Msg)
  BY <1>2, TailWithout
<1>4. clientIn' = [clientIn EXCEPT ![l] = Tail(clientIn[l])] BY DEF Receive
<1>5. clientIn' \in [Light -> Seq(Msg)] BY <1>1, <1>3, <1>4
<1>6. obIn' = obIn /\ somIn' = somIn /\ UNCHANGED somVars /\ Head(clientIn[l]).type = t BY DEF Receive
<1> QED BY <1>1, <1>3, <1>4, <1>5, <1>6 DEF Msg

\* The slot of a light is emptied or stays.
LEMMA ClearSlotType ==
    ASSUME TypeOK, NEW l \in Light, ClearSlot(l) \/ slot' = slot
    PROVE  slot' \in [Light -> [id : 0..MaxId, canc : BOOLEAN]]
<1>1. Empty \in [id : 0..MaxId, canc : BOOLEAN] BY OrderAssumption DEF Empty
<1> QED BY <1>1 DEF TypeOK, LightTypeOK, ClearSlot

\* A light reads a report.
LEMMA ReportType ==
    ASSUME TypeInv, NEW l \in Light, Report2Light(l)
    PROVE  /\ TypeOK'
           /\ Answers' = Answers /\ Wire' = Wire /\ UNCHANGED somVars /\ UNCHANGED venueVars
           /\ \E t : Receive(l, t)
<1>0. TypeOK BY DEF TypeInv
<1>1. LightReport(l) /\ UNCHANGED venueVars /\ console' = console BY DEF Report2Light
<1>2. \E t : Receive(l, t)
  BY <1>1 DEF LightReport, som_fill_handler, som_canc_ack_handler, som_cancrej_handler, som_reject_handler
<1>3. PICK t : Receive(l, t) BY <1>2
<1>4. /\ clientIn' \in [Light -> Seq(Report \cup Rejection)]
      /\ obIn' = obIn /\ somIn' = somIn /\ UNCHANGED somVars
      /\ Head(clientIn[l]) \in Msg /\ Head(clientIn[l]).type = t
  BY <1>0, <1>3, ReceiveType
<1>5. /\ \A k \in Light : qentry'[k] = BadEntry \/ qentry'[k] \in [id : 0..MaxId, sz : 0..MaxSize]
      /\ aborted' \in {"no", "OB", "light", "QCoord"}
      /\ slot' \in [Light -> [id : 0..MaxId, canc : BOOLEAN]]
      /\ cancel_requests' \in [Light -> SUBSET Id]
      /\ pcoord' \in Int
  <2>0. /\ \A k \in Light : qentry[k] = BadEntry \/ qentry[k] \in [id : 0..MaxId, sz : 0..MaxSize]
        /\ aborted \in {"no", "OB", "light", "QCoord"}
        /\ slot \in [Light -> [id : 0..MaxId, canc : BOOLEAN]]
        /\ cancel_requests \in [Light -> SUBSET Id]
        /\ pcoord \in Int
    BY <1>0 DEF TypeOK, LightTypeOK, MailTypeOK
  <2>z. 0 \in 0..MaxSize /\ TRUE \in BOOLEAN /\ FALSE \in BOOLEAN BY OrderAssumption
  <2>e. /\ remove_order(l, 0, TRUE) = BadEntry \/ remove_order(l, 0, TRUE) \in [id : 0..MaxId, sz : 0..MaxSize]
        /\ qentry[l] = BadEntry \/ qentry[l] \in [id : 0..MaxId, sz : 0..MaxSize]
    BY <1>0, <2>z, EntryTypes
  <2>1. CASE som_fill_handler(l)
    <3>1. Head(clientIn[l]) \in Msg /\ Head(clientIn[l]).type = "FILL"
      BY <2>1, <1>4 DEF som_fill_handler, Receive
    <3>2. Head(clientIn[l]).sz \in Size BY <3>1, MsgFacts
    <3>3. Head(clientIn[l]).sz \in 0..MaxSize /\ Head(clientIn[l]).sz \in Int
      BY <3>2, OrderAssumption DEF Size
    <3>4. \E e : SetEntry(l, e) /\ (e = BadEntry \/ e \in [id : 0..MaxId, sz : 0..MaxSize])
      BY <2>1, <1>0, <2>e, <2>z, <3>3, EntryTypes DEF som_fill_handler
    <3>5. slot' \in [Light -> [id : 0..MaxId, canc : BOOLEAN]]
      BY <2>1, <1>0, ClearSlotType DEF som_fill_handler
    <3>6. Sign(l) \in Int BY DEF Sign
    <3>7. pcoord' \in Int BY <2>1, <2>0, <3>3, <3>6 DEF som_fill_handler
    <3>8. cancel_requests' = cancel_requests BY <2>1 DEF som_fill_handler
    <3> QED BY <1>0, <2>0, <3>4, <3>5, <3>7, <3>8, SetEntryType
  <2>2. CASE som_canc_ack_handler(l)
    <3>1. CASE slot[l] = Empty
      BY <2>2, <3>1, <2>0 DEF som_canc_ack_handler, Abort
    <3>2. CASE slot[l] # Empty
      <4>1. \E e : SetEntry(l, e) /\ (e = BadEntry \/ e \in [id : 0..MaxId, sz : 0..MaxSize])
        BY <2>2, <3>2, <2>e DEF som_canc_ack_handler
      <4>2. slot' \in [Light -> [id : 0..MaxId, canc : BOOLEAN]]
        BY <2>2, <3>2, <1>0, ClearSlotType DEF som_canc_ack_handler
      <4>3. cancel_requests' \in [Light -> SUBSET Id] /\ pcoord' = pcoord
        BY <2>2, <3>2, <2>0 DEF som_canc_ack_handler
      <4> QED BY <1>0, <2>0, <4>1, <4>2, <4>3, SetEntryType
    <3> QED BY <3>1, <3>2
  <2>3. CASE som_cancrej_handler(l)
    <3>1. CASE Head(clientIn[l]).reason = "NOTFOUND" /\ slot[l] = Empty
      BY <2>3, <3>1, <2>0 DEF som_cancrej_handler, Abort
    <3>2. CASE ~ (Head(clientIn[l]).reason = "NOTFOUND" /\ slot[l] = Empty)
      <4>1. slot' \in [Light -> [id : 0..MaxId, canc : BOOLEAN]]
        BY <2>3, <3>2, <1>0, ClearSlotType DEF som_cancrej_handler
      <4> QED BY <2>3, <3>2, <2>0, <4>1 DEF som_cancrej_handler
    <3> QED BY <3>1, <3>2
  <2>4. CASE som_reject_handler(l)
    <3>1. \E e : SetEntry(l, e) /\ (e = BadEntry \/ e \in [id : 0..MaxId, sz : 0..MaxSize])
      BY <2>4, <2>e DEF som_reject_handler
    <3>2. slot' \in [Light -> [id : 0..MaxId, canc : BOOLEAN]]
      BY <2>4, <1>0, ClearSlotType DEF som_reject_handler
    <3>3. cancel_requests' = cancel_requests /\ pcoord' = pcoord BY <2>4 DEF som_reject_handler
    <3> QED BY <1>0, <2>0, <3>1, <3>2, <3>3, SetEntryType
  <2> QED BY <1>1, <2>1, <2>2, <2>3, <2>4 DEF LightReport
<1>6. MailTypeOK' BY <1>0, <1>4, <1>5 DEF TypeOK, MailTypeOK
<1>7. LightTypeOK' BY <1>5 DEF LightTypeOK
<1>8. SOMTypeOK' /\ VenueTypeOK' BY <1>0, <1>1, <1>4, TypeFrame
<1>9. Answers' = Answers /\ Wire' = Wire BY <1>1, <1>4 DEF Answers, Wire, venueVars
<1>10. console' \in 0..MaxConsole BY <1>0, <1>1 DEF TypeOK
<1> QED BY <1>1, <1>2, <1>4, <1>6, <1>7, <1>8, <1>9, <1>10 DEF TypeOK

\* The SOM reads a report of the book.
LEMMA SOMType ==
    ASSUME TypeInv, Report2SOM
    PROVE  /\ TypeOK'
           /\ Wire' = Wire /\ Without(Answers, Answers', 1)
           /\ Head(somIn) = Answers[1] /\ Head(somIn) \in Report
           /\ UNCHANGED venueVars /\ UNCHANGED lightVars /\ curr_id' = curr_id
<1>0. TypeOK BY DEF TypeInv
<1>1. /\ SOMReport /\ UNCHANGED venueVars /\ UNCHANGED lightVars /\ console' = console /\ aborted' = aborted
      /\ pub_q' = pub_q /\ del_q' = del_q
  BY DEF Report2SOM, venueVars
<1>2. /\ somIn # <<>> /\ somIn' = Tail(somIn) /\ obIn' = obIn /\ curr_id' = curr_id /\ stopped' = stopped
  BY <1>1 DEF SOMReport, fill_handler, canc_ack_handler, canc_rej_handler, somVars
<1>3. somIn \in Seq(Report) /\ pub_q \in Seq(Report) BY <1>0 DEF TypeOK, MailTypeOK, VenueTypeOK
<1>4. /\ Without(somIn \o pub_q, Tail(somIn) \o pub_q, 1) /\ (somIn \o pub_q)[1] = Head(somIn)
      /\ Head(somIn) \in Report
  BY <1>2, <1>3, ConcatWithout
<1>5. Without(Answers, Answers', 1) /\ Head(somIn) = Answers[1]
  BY <1>1, <1>2, <1>4 DEF Answers
<1>6. Wire' = Wire BY <1>1, <1>2 DEF Wire
<1>7. Tail(somIn) \in Seq(Report) BY <1>2, <1>3, TailWithout
<1>8. Head(somIn) \in Msg /\ Head(somIn).id \in Id BY <1>4, MsgFacts DEF Msg
<1>9. /\ clientIn' \in [Light -> Seq(Report \cup Rejection)]
      /\ DOMAIN orders' \subseteq Id /\ (\A id \in DOMAIN orders' : orders'[id] \in Order) /\ pos' \in Int
  <2>0. /\ clientIn \in [Light -> Seq(Report \cup Rejection)]
        /\ DOMAIN orders \subseteq Id /\ (\A id \in DOMAIN orders : orders[id] \in Order) /\ pos \in Int
    BY <1>0 DEF TypeOK, MailTypeOK, SOMTypeOK
  <2>c. \A id \in DOMAIN orders : orders[id].client \in Light BY <2>0 DEF Order
  <2>1. CASE fill_handler
    <3>1. CASE ~ Known(Head(somIn).id) BY <2>0, <2>1, <3>1 DEF fill_handler
    <3>2. CASE Known(Head(somIn).id)
      <4> DEFINE m == Head(somIn)
      <4>1. /\ m \in Msg /\ m.type = "FILL" /\ m.id \in DOMAIN orders
            /\ orders' = [orders EXCEPT ![m.id].filled = (m.stbf = 0) \/ @, ![m.id].stbf = m.stbf]
            /\ pos' = pos + Sign(orders[m.id].client) * m.sz
            /\ ToClient(orders[m.id].client, m)
        BY <2>1, <3>2, <1>8 DEF fill_handler, Known
      <4> HIDE DEF m
      <4>2. m.stbf \in 0..MaxSize /\ m.sz \in Int BY <4>1, MsgFacts
      <4>3. clientIn' \in [Light -> Seq(Report \cup Rejection)] BY <1>0, <2>c, <4>1, ToClientType
      <4>4. pos' \in Int
        <5>1. Sign(orders[m.id].client) \in Int BY DEF Sign
        <5> QED BY <2>0, <4>1, <4>2, <5>1
      <4>5. DOMAIN orders' = DOMAIN orders BY <4>1
      <4>6. orders[m.id] \in [client : Light, sz : Size, stbf : 0..MaxSize, filled : BOOLEAN]
        BY <2>0, <4>1 DEF Order
      <4>7. orders'[m.id] = [orders[m.id] EXCEPT !.filled = (m.stbf = 0) \/ @, !.stbf = m.stbf]
        BY <4>1
      <4>8. orders'[m.id] \in Order
        BY <4>2, <4>6, <4>7 DEF Order
      <4>9. \A id \in DOMAIN orders \ {m.id} : orders'[id] = orders[id]
        BY <4>1
      <4>10. \A id \in DOMAIN orders' : orders'[id] \in Order
        BY <2>0, <4>5, <4>8, <4>9
      <4> QED BY <2>0, <4>3, <4>4, <4>5, <4>10
    <3> QED BY <3>1, <3>2
  <2>2. CASE canc_ack_handler
    <3>1. CASE ~ Known(Head(somIn).id) BY <2>0, <2>2, <3>1 DEF canc_ack_handler
    <3>2. CASE Known(Head(somIn).id)
      <4>1. /\ orders' = Erase(Head(somIn).id) /\ ToClient(orders[Head(somIn).id].client, Head(somIn))
            /\ pos' = pos
        BY <2>2, <3>2 DEF canc_ack_handler
      <4>2. clientIn' \in [Light -> Seq(Report \cup Rejection)]
        BY <1>0, <1>8, <2>c, <3>2, <4>1, ToClientType DEF Known
      <4> QED BY <2>0, <4>1, <4>2 DEF Erase
    <3> QED BY <3>1, <3>2
  <2>3. CASE canc_rej_handler
    <3>1. CASE ~ Known(Head(somIn).id) BY <2>0, <2>3, <3>1 DEF canc_rej_handler, somVars
    <3>2. CASE Known(Head(somIn).id)
      <4>1. \E m \in {CancReject(Head(somIn).id, "FILLEDALREADY"), Head(somIn)} :
               ToClient(orders[Head(somIn).id].client, m)
        BY <2>3, <3>2 DEF canc_rej_handler
      <4>2. CancReject(Head(somIn).id, "FILLEDALREADY") \in Msg BY <1>8, MessageTypes
      <4>3. clientIn' \in [Light -> Seq(Report \cup Rejection)]
        BY <1>0, <1>8, <2>c, <3>2, <4>1, <4>2, ToClientType DEF Known
      <4> QED BY <2>0, <2>3, <4>3 DEF canc_rej_handler, somVars
    <3> QED BY <3>1, <3>2
  <2> QED BY <1>1, <2>1, <2>2, <2>3 DEF SOMReport
<1>10. MailTypeOK' BY <1>0, <1>1, <1>2, <1>7, <1>9 DEF TypeOK, MailTypeOK
<1>11. SOMTypeOK' BY <1>0, <1>2, <1>9 DEF TypeOK, SOMTypeOK
<1>12. VenueTypeOK' /\ LightTypeOK' BY <1>0, <1>1, TypeFrame
<1>13. console' \in 0..MaxConsole BY <1>0, <1>1 DEF TypeOK
<1> QED BY <1>1, <1>2, <1>4, <1>5, <1>6, <1>10, <1>11, <1>12, <1>13 DEF TypeOK

\* What the book publishes comes last among the answers.
LEMMA PublishView ==
    ASSUME TypeInv, NEW s \in Seq(Report), Publish(s)
    PROVE  /\ GrownBy(Answers, Answers', s)
           /\ somIn' \in Seq(Report) /\ pub_q' \in Seq(Report)
           /\ ~ FeedDelay => pub_q' = <<>>
<1>1. somIn \in Seq(Report) /\ pub_q \in Seq(Report) BY DEF TypeInv, TypeOK, MailTypeOK, VenueTypeOK
<1>2. CASE FeedDelay
  <2>1. pub_q' = pub_q \o s /\ somIn' = somIn BY <1>2 DEF Publish
  <2>2. GrownBy(somIn \o pub_q, somIn \o (pub_q \o s), s) BY <1>1, ConcatGrown
  <2>3. pub_q \o s \in Seq(Report) BY <1>1, ConcatProperties
  <2> QED BY <1>1, <1>2, <2>1, <2>2, <2>3 DEF Answers
<1>3. CASE ~ FeedDelay
  <2>1. somIn' = somIn \o s /\ pub_q' = pub_q /\ pub_q = <<>>
    BY <1>3 DEF Publish, TypeInv, Shape
  <2>2. somIn \o s \in Seq(Report) BY <1>1, ConcatProperties
  <2>3. <<>> \in Seq(Report) BY EmptySeq
  <2>4. <<>> \o s = s BY ConcatEmptySeq
  <2>5. GrownBy(somIn \o <<>>, somIn \o (<<>> \o s), s) BY <1>1, <2>3, ConcatGrown
  <2>6. (somIn \o s) \o <<>> = somIn \o s BY <2>2, ConcatEmptySeq
  <2>7. GrownBy(somIn \o pub_q, somIn' \o pub_q', s) BY <2>1, <2>4, <2>5, <2>6
  <2> QED BY <2>1, <2>2, <2>3, <2>7 DEF Answers
<1> QED BY <1>2, <1>3

\* The sizes in the book, with one order gone or one more.
LEMMA RestingTypes ==
    ASSUME TypeOK, NEW id \in Id
    PROVE  /\ DOMAIN Remove(id) = DOMAIN resting \ {id}
           /\ DOMAIN Remove(id) \subseteq Id
           /\ \A i \in DOMAIN Remove(id) : Remove(id)[i] = resting[i] /\ Remove(id)[i] \in Size
BY DEF TypeOK, VenueTypeOK, Remove

\* The book takes an order or a cancel m: it fills, rests, is cancelled or is
\* not there.
Arrives(m) ==
    \/ /\ m.type = "ADD" /\ resting' = resting
       /\ GrownBy(Answers, Answers', <<Fill(m.id, m.sz, 0)>>)
    \/ /\ m.type = "ADD" /\ Answers' = Answers
       /\ DOMAIN resting' = DOMAIN resting \cup {m.id}
       /\ resting'[m.id] = m.sz /\ \A i \in DOMAIN resting \ {m.id} : resting'[i] = resting[i]
    \/ /\ m.type = "CANC" /\ m.id \in DOMAIN resting /\ resting' = Remove(m.id)
       /\ GrownBy(Answers, Answers', <<CancAck(m.id)>>)
    \/ /\ m.type = "CANC" /\ m.id \notin DOMAIN resting /\ resting' = resting
       /\ GrownBy(Answers, Answers', <<CancReject(m.id, "NOTFOUND")>>)

\* process_add_or_mod is one of these.
LEMMA ProcessView ==
    ASSUME TypeInv, NEW m \in ObMsg, m.type = "ADD" => m.sz \in Size, process_add_or_mod(m)
    PROVE  /\ Arrives(m)
           /\ somIn' \in Seq(Report) /\ pub_q' \in Seq(Report)
           /\ ~ FeedDelay => pub_q' = <<>>
           /\ DOMAIN resting' \subseteq Id
           /\ \A id \in DOMAIN resting' : resting'[id] \in Size
<1>0. TypeOK BY DEF TypeInv
<1>1. m.id \in Id BY DEF ObMsg
<1>2. somIn \in Seq(Report) /\ pub_q \in Seq(Report) /\ (~ FeedDelay => pub_q = <<>>)
      /\ DOMAIN resting \subseteq Id /\ \A id \in DOMAIN resting : resting[id] \in Size
  BY DEF TypeInv, Shape, TypeOK, MailTypeOK, VenueTypeOK
<1>3. CASE m.type = "ADD" /\ FillOnArrival(m)
  <2>1. 0 \in 0..MaxSize BY OrderAssumption
  <2>2. Fill(m.id, m.sz, 0) \in Report BY <1>1, <1>3, <2>1, MessageTypes
  <2>3. <<Fill(m.id, m.sz, 0)>> \in Seq(Report) BY <2>2
  <2>4. Publish(<<Fill(m.id, m.sz, 0)>>) /\ resting' = resting BY <1>3 DEF FillOnArrival
  <2>5. /\ GrownBy(Answers, Answers', <<Fill(m.id, m.sz, 0)>>)
        /\ somIn' \in Seq(Report) /\ pub_q' \in Seq(Report)
        /\ ~ FeedDelay => pub_q' = <<>>
    BY <2>3, <2>4, PublishView
  <2> QED BY <1>2, <1>3, <2>4, <2>5 DEF Arrives
<1>4. CASE m.type = "ADD" /\ RestInBook(m)
  <2>1. somIn' = somIn /\ pub_q' = pub_q
        /\ resting' = [i \in DOMAIN resting \cup {m.id} |-> IF i = m.id THEN m.sz ELSE resting[i]]
    BY <1>4 DEF RestInBook
  <2>2. Answers' = Answers BY <2>1 DEF Answers
  <2>3. /\ DOMAIN resting' = DOMAIN resting \cup {m.id}
        /\ resting'[m.id] = m.sz /\ \A i \in DOMAIN resting \ {m.id} : resting'[i] = resting[i]
    BY <2>1
  <2>4. Arrives(m) BY <1>4, <2>2, <2>3 DEF Arrives
  <2>5. \A id \in DOMAIN resting' : resting'[id] \in Size BY <1>2, <1>4, <2>3
  <2> QED BY <1>1, <1>2, <2>1, <2>3, <2>4, <2>5
<1>5. CASE m.type = "CANC" /\ CancelResting(m)
  <2>1. <<CancAck(m.id)>> \in Seq(Report) BY <1>1, MessageTypes
  <2>2. Publish(<<CancAck(m.id)>>) /\ resting' = Remove(m.id) /\ m.id \in DOMAIN resting
    BY <1>5 DEF CancelResting
  <2>3. /\ GrownBy(Answers, Answers', <<CancAck(m.id)>>)
        /\ somIn' \in Seq(Report) /\ pub_q' \in Seq(Report)
        /\ ~ FeedDelay => pub_q' = <<>>
    BY <2>1, <2>2, PublishView
  <2>4. Arrives(m) BY <1>5, <2>2, <2>3 DEF Arrives
  <2> QED BY <1>0, <1>1, <2>2, <2>3, <2>4, RestingTypes
<1>6. CASE m.type = "CANC" /\ CancelNotFound(m)
  <2>1. <<CancReject(m.id, "NOTFOUND")>> \in Seq(Report) BY <1>1, MessageTypes
  <2>2. Publish(<<CancReject(m.id, "NOTFOUND")>>) /\ resting' = resting /\ m.id \notin DOMAIN resting
    BY <1>6 DEF CancelNotFound
  <2>3. /\ GrownBy(Answers, Answers', <<CancReject(m.id, "NOTFOUND")>>)
        /\ somIn' \in Seq(Report) /\ pub_q' \in Seq(Report)
        /\ ~ FeedDelay => pub_q' = <<>>
    BY <2>1, <2>2, PublishView
  <2>4. Arrives(m) BY <1>6, <2>2, <2>3 DEF Arrives
  <2> QED BY <1>2, <2>2, <2>3, <2>4
<1> QED BY <1>3, <1>4, <1>5, <1>6 DEF process_add_or_mod

\* The book's own steps: a message goes on the wire or off it, is dropped by a
\* failing assertion, or an answer gets through.
BookView ==
    \/ /\ Wire' = Wire /\ Answers' = Answers /\ resting' = resting
    \/ \E n \in 1..Len(Wire) :
            /\ Without(Wire, Wire', n) /\ Wire[n].type = "CANC"
            /\ Answers' = Answers /\ resting' = resting
            /\ aborted' = "OB" /\ ~ Wire[n].timed
    \/ /\ Without(Wire, Wire', 1) /\ Arrives(Wire[1])

\* Every step of the book is one of these, and keeps the types.
LEMMA BookType ==
    ASSUME TypeInv, Book
    PROVE  /\ TypeOK' /\ BookView
           /\ UNCHANGED somVars /\ UNCHANGED lightVars /\ clientIn' = clientIn
           /\ ~ FeedDelay => pub_q' = <<>>
           /\ aborted' = aborted \/ aborted' = "OB"
<1>0. TypeOK BY DEF TypeInv
<1>1. /\ ObData \/ ReleaseOrder \/ DrainPubQ
      /\ UNCHANGED somVars /\ UNCHANGED lightVars /\ console' = console
  BY DEF Book
<1>2. /\ clientIn' = clientIn /\ clearing' = clearing /\ inClear' = inClear
  BY <1>1 DEF ObData, ReleaseOrder, DrainPubQ
<1>3. /\ del_q \in Seq(ObMsg) /\ obIn \in Seq(ObMsg) /\ somIn \in Seq(Report) /\ pub_q \in Seq(Report)
      /\ (~ FeedDelay => pub_q = <<>>)
      /\ DOMAIN resting \subseteq Id /\ \A id \in DOMAIN resting : resting[id] \in Size
      /\ aborted \in {"no", "OB", "light", "QCoord"}
      /\ clientIn \in [Light -> Seq(Report \cup Rejection)]
      /\ clearing \subseteq Light /\ inClear \in BOOLEAN
  BY DEF TypeInv, Shape, TypeOK, MailTypeOK, VenueTypeOK
<1>w. \A n \in 1..Len(Wire) : Wire[n].type = "ADD" => Wire[n].timed /\ Wire[n].sz \in Size
  BY DEF TypeInv, Shape, TimedAdds
<1>4. /\ del_q' \in Seq(ObMsg) /\ obIn' \in Seq(ObMsg) /\ somIn' \in Seq(Report) /\ pub_q' \in Seq(Report)
      /\ (~ FeedDelay => pub_q' = <<>>)
      /\ DOMAIN resting' \subseteq Id /\ (\A id \in DOMAIN resting' : resting'[id] \in Size)
      /\ (aborted' = aborted \/ aborted' = "OB")
      /\ BookView
  <2>1. CASE ObData
    <3> DEFINE m == Head(obIn)
    <3>1. obIn # <<>> /\ obIn' = Tail(obIn) BY <2>1 DEF ObData
    <3>2. m \in ObMsg /\ Tail(obIn) \in Seq(ObMsg) BY <1>3, <3>1, TailWithout
    <3>3. /\ Without(del_q \o obIn, del_q \o Tail(obIn), Len(del_q) + 1)
          /\ (del_q \o obIn)[Len(del_q) + 1] = m
      BY <1>3, <3>1, ConcatWithout
    <3>4. Wire[Len(del_q) + 1] = m /\ Len(del_q) + 1 \in 1..Len(Wire)
      BY <3>3 DEF Wire, Without
    <3>5. m.type = "ADD" => m.timed /\ m.sz \in Size BY <1>w, <3>4
    <3>6. m.type \in {"ADD", "CANC"} BY <3>2 DEF ObMsg
    <3>7. \/ /\ m.timed /\ del_q' = Append(del_q, m) /\ pub_q' = pub_q /\ somIn' = somIn
             /\ resting' = resting /\ aborted' = aborted
          \/ /\ ~ m.timed /\ del_q = <<>> /\ process_add_or_mod(m) /\ del_q' = del_q /\ aborted' = aborted
          \/ /\ ~ m.timed /\ aborted' = "OB" /\ del_q' = del_q /\ pub_q' = pub_q /\ somIn' = somIn
             /\ resting' = resting
      BY <2>1 DEF ObData
    <3> HIDE DEF m
    <3>8. CASE /\ m.timed /\ del_q' = Append(del_q, m) /\ pub_q' = pub_q /\ somIn' = somIn
               /\ resting' = resting /\ aborted' = aborted
      <4>1. Append(del_q, m) \o Tail(obIn) = del_q \o obIn BY <1>3, <3>1, ConcatMove DEF m
      <4>2. Wire' = Wire BY <3>1, <3>8, <4>1 DEF Wire
      <4>3. Answers' = Answers BY <3>8 DEF Answers
      <4>4. BookView BY <3>8, <4>2, <4>3 DEF BookView
      <4>5. del_q' \in Seq(ObMsg) BY <1>3, <3>2, <3>8
      <4> QED BY <1>3, <3>1, <3>2, <3>8, <4>4, <4>5
    <3>9. CASE ~ m.timed /\ del_q = <<>> /\ process_add_or_mod(m) /\ del_q' = del_q /\ aborted' = aborted
      <4>1. /\ Arrives(m)
            /\ somIn' \in Seq(Report) /\ pub_q' \in Seq(Report)
            /\ (~ FeedDelay => pub_q' = <<>>)
            /\ DOMAIN resting' \subseteq Id
            /\ \A id \in DOMAIN resting' : resting'[id] \in Size
        BY <3>2, <3>5, <3>9, ProcessView
      <4>2. Len(del_q) + 1 = 1 BY <3>9
      <4>3. Without(Wire, Wire', 1) /\ Wire[1] = m
        BY <3>1, <3>3, <3>4, <3>9, <4>2 DEF Wire
      <4>4. BookView BY <4>1, <4>3 DEF BookView
      <4> QED BY <1>3, <3>1, <3>2, <3>9, <4>1, <4>4
    <3>10. CASE /\ ~ m.timed /\ aborted' = "OB" /\ del_q' = del_q /\ pub_q' = pub_q /\ somIn' = somIn
                /\ resting' = resting
      <4>1. Without(Wire, Wire', Len(del_q) + 1) BY <3>1, <3>3, <3>10 DEF Wire
      <4>2. Wire[Len(del_q) + 1].type = "CANC" /\ ~ Wire[Len(del_q) + 1].timed BY <3>4, <3>5, <3>6, <3>10
      <4>3. Answers' = Answers BY <3>10 DEF Answers
      <4>4. BookView BY <3>4, <3>10, <4>1, <4>2, <4>3 DEF BookView
      <4> QED BY <1>3, <3>1, <3>2, <3>10, <4>4
    <3> QED BY <3>7, <3>8, <3>9, <3>10
  <2>2. CASE ReleaseOrder
    <3>1. /\ del_q # <<>> /\ process_add_or_mod(Head(del_q)) /\ del_q' = Tail(del_q)
          /\ obIn' = obIn /\ aborted' = aborted
      BY <2>2 DEF ReleaseOrder
    <3>2. Head(del_q) \in ObMsg /\ Tail(del_q) \in Seq(ObMsg) BY <1>3, <3>1, TailWithout
    <3>3. Without(del_q \o obIn, Tail(del_q) \o obIn, 1) /\ (del_q \o obIn)[1] = Head(del_q)
      BY <1>3, <3>1, ConcatWithout
    <3>4. Without(Wire, Wire', 1) /\ Wire[1] = Head(del_q) /\ 1 \in 1..Len(Wire)
      BY <3>1, <3>3 DEF Wire, Without
    <3>5. Head(del_q).type = "ADD" => Head(del_q).sz \in Size BY <1>w, <3>4
    <3>6. /\ Arrives(Head(del_q))
          /\ somIn' \in Seq(Report) /\ pub_q' \in Seq(Report)
          /\ (~ FeedDelay => pub_q' = <<>>)
          /\ DOMAIN resting' \subseteq Id
          /\ \A id \in DOMAIN resting' : resting'[id] \in Size
      BY <3>1, <3>2, <3>5, ProcessView
    <3>7. BookView BY <3>4, <3>6 DEF BookView
    <3> QED BY <1>3, <3>1, <3>2, <3>6, <3>7
  <2>3. CASE DrainPubQ
    <3>1. /\ pub_q # <<>> /\ somIn' = Append(somIn, Head(pub_q)) /\ pub_q' = Tail(pub_q)
          /\ del_q' = del_q /\ resting' = resting /\ obIn' = obIn /\ aborted' = aborted
      BY <2>3 DEF DrainPubQ
    <3>2. Head(pub_q) \in Report /\ Tail(pub_q) \in Seq(Report) BY <1>3, <3>1, TailWithout
    <3>3. Answers' = Answers BY <1>3, <3>1, ConcatMove DEF Answers
    <3>4. Wire' = Wire BY <3>1 DEF Wire
    <3>5. BookView BY <3>1, <3>3, <3>4 DEF BookView
    <3>6. somIn' \in Seq(Report) BY <1>3, <3>1, <3>2
    <3>7. ~ FeedDelay => pub_q' = <<>> BY <1>3, <3>1
    <3> QED BY <1>3, <3>1, <3>2, <3>5, <3>6, <3>7
  <2> QED BY <1>1, <2>1, <2>2, <2>3
<1>5. MailTypeOK' BY <1>2, <1>3, <1>4 DEF MailTypeOK
<1>6. VenueTypeOK' BY <1>2, <1>3, <1>4 DEF VenueTypeOK
<1>7. SOMTypeOK' /\ LightTypeOK' BY <1>0, <1>1, TypeFrame
<1>8. console' \in 0..MaxConsole BY <1>0, <1>1 DEF TypeOK
<1> QED BY <1>1, <1>2, <1>4, <1>5, <1>6, <1>7, <1>8 DEF TypeOK

\* A listing of a finite set without repetition, as long as the set, is complete.
LEMMA ListingComplete ==
    ASSUME NEW D, IsFiniteSet(D), NEW q \in [1..Cardinality(D) -> D],
           \A i, j \in DOMAIN q : q[i] = q[j] => i = j
    PROVE  /\ \A d \in D : \E i \in 1..Cardinality(D) : q[i] = d
           /\ Cardinality(D) \in Nat
<1>1. Cardinality(D) \in Nat BY FS_CardinalityType
<1>d. DOMAIN q = 1..Cardinality(D) OBVIOUS
<1>i. \A i, j \in 1..Cardinality(D) : q[i] = q[j] => i = j BY <1>d
<1>2. q \in Injection(1..Cardinality(D), D) BY <1>i DEF Injection, IsInjective
<1>3. IsFiniteSet(1..Cardinality(D)) /\ Cardinality(1..Cardinality(D)) = Cardinality(D)
  BY <1>1, FS_Interval
<1>4. q \in Surjection(1..Cardinality(D), D) BY <1>2, <1>3, FS_Injection
<1> QED BY <1>1, <1>4 DEF Surjection

\* The market fills one of our orders, or begins to clear the book.
MarketView ==
    \/ resting' = resting /\ Answers' = Answers
    \/ \E id \in DOMAIN resting : \E n \in 1..resting[id] :
            /\ GrownBy(Answers, Answers', <<Fill(id, n, resting[id] - n)>>)
            /\ Fill(id, n, resting[id] - n) \in Report
            /\ resting' = IF n = resting[id] THEN Remove(id) ELSE [resting EXCEPT ![id] = @ - n]

\* Every step of the market is one of these, and keeps the types.
LEMMA MarketType ==
    ASSUME TypeInv, Market
    PROVE  /\ TypeOK' /\ MarketView
           /\ UNCHANGED somVars /\ UNCHANGED lightVars /\ clientIn' = clientIn /\ Wire' = Wire
           /\ aborted' = aborted
           /\ ~ FeedDelay => pub_q' = <<>>
<1>0. TypeOK BY DEF TypeInv
<1>1. /\ (\E id \in Id, n \in Size : MarketFill(id, n)) \/ ClearBegin
      /\ UNCHANGED somVars /\ UNCHANGED lightVars /\ console' = console
  BY DEF Market
<1>2. /\ del_q' = del_q /\ obIn' = obIn /\ clientIn' = clientIn /\ aborted' = aborted
  BY <1>1 DEF MarketFill, ClearBegin, mailVars
<1>3. /\ somIn \in Seq(Report) /\ pub_q \in Seq(Report)
      /\ (~ FeedDelay => pub_q = <<>>)
      /\ DOMAIN resting \subseteq Id /\ \A id \in DOMAIN resting : resting[id] \in Size
      /\ clearing \subseteq Light /\ inClear \in BOOLEAN
  BY DEF TypeInv, Shape, TypeOK, MailTypeOK, VenueTypeOK
<1>4. /\ somIn' \in Seq(Report) /\ pub_q' \in Seq(Report)
      /\ (~ FeedDelay => pub_q' = <<>>)
      /\ DOMAIN resting' \subseteq Id /\ (\A id \in DOMAIN resting' : resting'[id] \in Size)
      /\ clearing' \subseteq Light /\ inClear' \in BOOLEAN
      /\ MarketView
  <2>1. CASE ClearBegin
    <3>1. /\ somIn' = somIn /\ pub_q' = pub_q /\ resting' = resting /\ clearing' = Light /\ inClear' = TRUE
      BY <2>1 DEF ClearBegin, mailVars
    <3>2. MarketView BY <3>1 DEF MarketView, Answers
    <3> QED BY <1>3, <3>1, <3>2
  <2>2. ASSUME NEW id \in Id, NEW n \in Size, MarketFill(id, n)
        PROVE  /\ somIn' \in Seq(Report) /\ pub_q' \in Seq(Report)
               /\ (~ FeedDelay => pub_q' = <<>>)
               /\ DOMAIN resting' \subseteq Id /\ (\A i \in DOMAIN resting' : resting'[i] \in Size)
               /\ clearing' \subseteq Light /\ inClear' \in BOOLEAN
               /\ MarketView
    <3>1. /\ id \in DOMAIN resting /\ n \in 1..resting[id]
          /\ Publish(<<Fill(id, n, resting[id] - n)>>)
          /\ resting' = IF n = resting[id] THEN Remove(id) ELSE [resting EXCEPT ![id] = @ - n]
          /\ clearing' = clearing /\ inClear' = inClear
      BY <2>2 DEF MarketFill
    <3>2. resting[id] - n \in 0..MaxSize /\ (n # resting[id] => resting[id] - n \in Size)
      BY <1>3, <3>1, OrderAssumption DEF Size
    <3>3. Fill(id, n, resting[id] - n) \in Report BY <3>2, MessageTypes
    <3>4. <<Fill(id, n, resting[id] - n)>> \in Seq(Report) BY <3>3
    <3>5. /\ GrownBy(Answers, Answers', <<Fill(id, n, resting[id] - n)>>)
          /\ somIn' \in Seq(Report) /\ pub_q' \in Seq(Report)
          /\ ~ FeedDelay => pub_q' = <<>>
      BY <3>1, <3>4, PublishView
    <3>6. MarketView BY <3>1, <3>3, <3>5 DEF MarketView
    <3>7. DOMAIN resting' \subseteq Id /\ (\A i \in DOMAIN resting' : resting'[i] \in Size)
      <4>1. CASE n = resting[id] BY <1>0, <3>1, <4>1, RestingTypes
      <4>2. CASE n # resting[id]
        <5>1. resting' = [resting EXCEPT ![id] = resting[id] - n] BY <3>1, <4>2
        <5>2. DOMAIN resting' = DOMAIN resting BY <5>1
        <5>3. ASSUME NEW i \in DOMAIN resting PROVE resting'[i] \in Size
          <6>1. i # id => resting'[i] = resting[i] BY <5>1
          <6>2. i = id => resting'[i] = resting[id] - n BY <5>1, <3>1
          <6> QED BY <1>3, <3>2, <4>2, <6>1, <6>2
        <5> QED BY <1>3, <5>2, <5>3
      <4> QED BY <4>1, <4>2
    <3> QED BY <1>3, <3>1, <3>5, <3>6, <3>7
  <2> QED BY <1>1, <2>1, <2>2
<1>5. MailTypeOK' BY <1>0, <1>2, <1>4 DEF TypeOK, MailTypeOK
<1>6. VenueTypeOK' BY <1>0, <1>2, <1>4 DEF TypeOK, VenueTypeOK
<1>7. SOMTypeOK' /\ LightTypeOK' BY <1>0, <1>1, TypeFrame
<1>8. console' \in 0..MaxConsole BY <1>0, <1>1 DEF TypeOK
<1>9. Wire' = Wire BY <1>2 DEF Wire
<1> QED BY <1>1, <1>2, <1>4, <1>5, <1>6, <1>7, <1>8, <1>9 DEF TypeOK

\* The end of a clear: an ack for every order in the book.
LEMMA ClearEndType ==
    ASSUME TypeInv, ClearEnd
    PROVE  /\ TypeOK'
           /\ UNCHANGED somVars /\ UNCHANGED lightVars /\ clientIn' = clientIn /\ Wire' = Wire
           /\ aborted' = aborted
           /\ ~ FeedDelay => pub_q' = <<>>
           /\ DOMAIN resting' = {}
           /\ \E s \in Seq(Report) :
                 /\ GrownBy(Answers, Answers', s) /\ Len(s) \in Nat
                 /\ \A i \in 1..Len(s) : s[i].id \in DOMAIN resting /\ s[i] = CancAck(s[i].id)
                 /\ \A i, j \in 1..Len(s) : s[i].id = s[j].id => i = j
                 /\ \A id \in DOMAIN resting : \E i \in 1..Len(s) : s[i].id = id
<1>0. TypeOK BY DEF TypeInv
<1>1. /\ ClearBook /\ UNCHANGED somVars /\ UNCHANGED lightVars /\ console' = console
  BY DEF ClearEnd
<1>2. /\ del_q' = del_q /\ obIn' = obIn /\ clientIn' = clientIn /\ aborted' = aborted /\ clearing' = clearing
      /\ inClear' = FALSE /\ resting' = [id \in {} |-> 0]
  BY <1>1 DEF ClearBook
<1>3. /\ somIn \in Seq(Report) /\ pub_q \in Seq(Report)
      /\ DOMAIN resting \subseteq Id /\ \A id \in DOMAIN resting : resting[id] \in Size
  BY DEF TypeInv, Shape, TypeOK, MailTypeOK, VenueTypeOK
<1> DEFINE D == DOMAIN resting
<1>4. IsFiniteSet(D)
  <2>1. IsFiniteSet(Id) BY OrderAssumption, FS_Interval DEF Id
  <2> QED BY <1>3, <2>1, FS_Subset
<1>5. PICK q \in [1..Cardinality(D) -> D] :
          /\ \A i, j \in DOMAIN q : q[i] = q[j] => i = j
          /\ Publish([i \in DOMAIN q |-> CancAck(q[i])])
  BY <1>1 DEF ClearBook
<1>6. Cardinality(D) \in Nat /\ \A d \in D : \E i \in 1..Cardinality(D) : q[i] = d
  BY <1>4, <1>5, ListingComplete
<1> DEFINE s == [i \in DOMAIN q |-> CancAck(q[i])]
<1>7. DOMAIN q = 1..Cardinality(D) BY <1>5
<1>8. \A i \in 1..Cardinality(D) : q[i] \in D /\ q[i] \in Id /\ CancAck(q[i]) \in Report
  BY <1>3, <1>5, MessageTypes
<1>9. s \in Seq(Report) /\ Len(s) = Cardinality(D) /\ \A i \in 1..Cardinality(D) : s[i] = CancAck(q[i])
  BY <1>6, <1>7, <1>8
<1>10. Publish(s) BY <1>5
<1> HIDE DEF s
<1>11. /\ GrownBy(Answers, Answers', s)
       /\ somIn' \in Seq(Report) /\ pub_q' \in Seq(Report)
       /\ ~ FeedDelay => pub_q' = <<>>
  BY <1>9, <1>10, PublishView
<1>12. \A i \in 1..Cardinality(D) : s[i].id = q[i] /\ s[i] = CancAck(s[i].id)
  BY <1>9 DEF CancAck
<1>13. /\ \A i \in 1..Len(s) : s[i].id \in D /\ s[i] = CancAck(s[i].id)
       /\ \A i, j \in 1..Len(s) : s[i].id = s[j].id => i = j
       /\ \A id \in D : \E i \in 1..Len(s) : s[i].id = id
  <2>1. Len(s) = Cardinality(D) BY <1>9
  <2>2. \A i \in 1..Len(s) : s[i].id \in D /\ s[i] = CancAck(s[i].id) BY <2>1, <1>8, <1>12
  <2>3. \A i, j \in 1..Len(s) : s[i].id = s[j].id => i = j
    <3>1. \A i, j \in 1..Cardinality(D) : q[i] = q[j] => i = j BY <1>5, <1>7
    <3> QED BY <2>1, <3>1, <1>12
  <2>4. \A id \in D : \E i \in 1..Len(s) : s[i].id = id BY <2>1, <1>6, <1>12
  <2> QED BY <2>2, <2>3, <2>4
<1>14. MailTypeOK' BY <1>0, <1>2, <1>11 DEF TypeOK, MailTypeOK
<1>15. VenueTypeOK' BY <1>0, <1>2, <1>11 DEF TypeOK, VenueTypeOK
<1>16. SOMTypeOK' /\ LightTypeOK' BY <1>0, <1>1, TypeFrame
<1>17. console' \in 0..MaxConsole BY <1>0, <1>1 DEF TypeOK
<1>18. Wire' = Wire /\ DOMAIN resting' = {} BY <1>2 DEF Wire
<1> QED BY <1>1, <1>2, <1>6, <1>9, <1>11, <1>13, <1>14, <1>15, <1>16, <1>17, <1>18 DEF TypeOK

\* A light cancels on its own, or because OB::clear calls it; the SOM's and the
\* light's steps are the same.
LEMMA CancelType ==
    ASSUME TypeInv, NEW l \in Light, Cancel(l) \/ ClearLight(l)
    PROVE  /\ TypeOK'
           /\ resting' = resting /\ del_q' = del_q /\ pub_q' = pub_q
           /\ \/ cancel_order(l)
              \/ UNCHANGED <<lightVars, somVars, mailVars, aborted>>
<1>0. TypeOK BY DEF TypeInv
<1>1. /\ resting' = resting /\ del_q' = del_q /\ pub_q' = pub_q /\ console' = console
      /\ inClear' = inClear /\ (clearing' = clearing \/ clearing' = clearing \ {l})
  BY DEF Cancel, ClearLight, venueVars
<1>2. cancel_order(l) \/ UNCHANGED <<lightVars, somVars, mailVars, aborted>>
  BY DEF Cancel, ClearLight, clear_handler
<1>3. VenueTypeOK' BY <1>0, <1>1 DEF TypeOK, VenueTypeOK
<1>4. console' \in 0..MaxConsole BY <1>0, <1>1 DEF TypeOK
<1>5. MailTypeOK' /\ SOMTypeOK' /\ LightTypeOK'
  <2>1. CASE cancel_order(l) BY <2>1, CancelOrderType
  <2>2. CASE UNCHANGED <<lightVars, somVars, mailVars, aborted>>
    BY <1>0, <2>2, TypeFrame
  <2> QED BY <1>2, <2>1, <2>2
<1> QED BY <1>1, <1>2, <1>3, <1>4, <1>5 DEF TypeOK

\* A command of the console: a cancel, or trading stopped or started.
LEMMA ConsoleType ==
    ASSUME TypeInv, Console
    PROVE  /\ TypeOK' /\ UNCHANGED lightVars /\ aborted' = aborted
           /\ resting' = resting /\ del_q' = del_q /\ pub_q' = pub_q
           /\ orders' = orders /\ curr_id' = curr_id /\ pos' = pos /\ somIn' = somIn
           /\ \/ \E id \in Id : canc_handler(id, FALSE)
              \/ /\ clientIn' = clientIn
                 /\ \E s \in Seq(ObMsg) :
                       /\ GrownBy(Wire, Wire', s) /\ Len(s) \in Nat
                       /\ \A i \in 1..Len(s) : s[i].type = "CANC" /\ Known(s[i].id)
<1>0. TypeOK BY DEF TypeInv
<1>1. /\ console < MaxConsole /\ console' = console + 1
      /\ StopTrading \/ StartTrading \/ \E id \in Id : canc_handler(id, FALSE)
      /\ aborted' = aborted /\ UNCHANGED venueVars /\ UNCHANGED lightVars
  BY DEF Console
<1>2. resting' = resting /\ del_q' = del_q /\ pub_q' = pub_q BY <1>1 DEF venueVars
<1>3. console' \in 0..MaxConsole BY <1>0, <1>1, ConsoleAssumption DEF TypeOK
<1>4. VenueTypeOK' /\ LightTypeOK' BY <1>0, <1>1, TypeFrame
<1>5. obIn \in Seq(ObMsg) /\ del_q \in Seq(ObMsg) BY <1>0 DEF TypeOK, MailTypeOK, VenueTypeOK
<1>6. CASE \E id \in Id : canc_handler(id, FALSE)
  <2>1. PICK id \in Id : canc_handler(id, FALSE) BY <1>6
  <2>2. /\ obIn' \in Seq(ObMsg) /\ somIn' = somIn
        /\ clientIn' \in [Light -> Seq(Report \cup Rejection)]
        /\ orders' = orders /\ curr_id' = curr_id /\ stopped' = stopped /\ pos' = pos
    BY <1>0, <2>1, CancHandlerType
  <2>3. MailTypeOK' BY <1>0, <1>1, <2>2 DEF TypeOK, MailTypeOK
  <2>4. SOMTypeOK' BY <1>0, <2>2 DEF TypeOK, SOMTypeOK
  <2> QED BY <1>1, <1>2, <1>3, <1>4, <1>6, <2>2, <2>3, <2>4 DEF TypeOK
<1>7. CASE StopTrading \/ StartTrading
  <2>1. /\ orders' = orders /\ curr_id' = curr_id /\ pos' = pos /\ somIn' = somIn /\ clientIn' = clientIn
        /\ stopped' \in BOOLEAN
    BY <1>7 DEF StopTrading, StartTrading, mailVars
  <2>2. \E s \in Seq(ObMsg) :
           /\ obIn' = obIn \o s /\ Len(s) \in Nat
           /\ \A i \in 1..Len(s) : s[i].type = "CANC" /\ Known(s[i].id)
    <3>1. CASE StartTrading
      <4>1. <<>> \in Seq(ObMsg) /\ Len(<<>>) = 0 /\ obIn' = obIn BY <3>1 DEF StartTrading, mailVars
      <4>2. obIn' = obIn \o <<>> BY <1>5, <4>1, ConcatEmptySeq
      <4>3. \A i \in 1..Len(<<>>) : <<>>[i].type = "CANC" /\ Known(<<>>[i].id) BY <4>1
      <4> WITNESS <<>> \in Seq(ObMsg)
      <4> QED BY <4>1, <4>2, <4>3
    <3>2. CASE StopTrading
      <4>1. PICK q \in [1..Cardinality(Working) -> Working] :
               obIn' = obIn \o [i \in DOMAIN q |-> CancelOrder(q[i], FALSE)]
        BY <3>2 DEF StopTrading
      <4>2. Working \subseteq DOMAIN orders /\ DOMAIN orders \subseteq Id
        BY <1>0 DEF Working, TypeOK, SOMTypeOK
      <4>3. Cardinality(Working) \in Nat
        <5>1. IsFiniteSet(Id) BY OrderAssumption, FS_Interval DEF Id
        <5>2. Working \subseteq Id BY <4>2
        <5>3. IsFiniteSet(Working) BY <5>1, <5>2, FS_Subset
        <5> QED BY <5>3, FS_CardinalityType
      <4> DEFINE s == [i \in DOMAIN q |-> CancelOrder(q[i], FALSE)]
      <4>d. DOMAIN q = 1..Cardinality(Working) BY <4>1
      <4>4. \A i \in 1..Cardinality(Working) : q[i] \in DOMAIN orders /\ CancelOrder(q[i], FALSE) \in ObMsg
        BY <4>1, <4>2, MessageTypes
      <4>5. /\ s \in Seq(ObMsg) /\ Len(s) = Cardinality(Working)
            /\ \A i \in 1..Cardinality(Working) : s[i] = CancelOrder(q[i], FALSE)
        <5>1. s = [i \in 1..Cardinality(Working) |-> CancelOrder(q[i], FALSE)] BY <4>d
        <5>2. s \in [1..Cardinality(Working) -> ObMsg] BY <4>4, <5>1
        <5> HIDE DEF s
        <5>3. s \in Seq(ObMsg)
          <6> DEFINE n == Cardinality(Working)
          <6>1. n \in Nat /\ s \in [1..n -> ObMsg] BY <4>3, <5>2
          <6> HIDE DEF n
          <6>2. [1..n -> ObMsg] \in {[1..k -> ObMsg] : k \in Nat} BY <6>1
          <6> QED BY <6>1, <6>2, SeqDef
        <5>4. DOMAIN s = 1..Cardinality(Working) BY <5>1
        <5>5. Len(s) = Cardinality(Working) BY <4>3, <5>3, <5>4, LenProperties
        <5> QED BY <5>1, <5>3, <5>5
      <4>6. obIn' = obIn \o s BY <4>1
      <4> HIDE DEF s
      <4>7. \A i \in 1..Len(s) : s[i].type = "CANC" /\ Known(s[i].id)
        BY <4>4, <4>5 DEF CancelOrder, Known
      <4> QED BY <4>3, <4>5, <4>6, <4>7
    <3> QED BY <1>7, <3>1, <3>2
  <2>3. PICK s \in Seq(ObMsg) :
           /\ obIn' = obIn \o s /\ Len(s) \in Nat
           /\ \A i \in 1..Len(s) : s[i].type = "CANC" /\ Known(s[i].id)
    BY <2>2
  <2>4. GrownBy(Wire, Wire', s)
    <3>1. GrownBy(del_q \o obIn, del_q \o (obIn \o s), s) BY <1>5, ConcatGrown
    <3> QED BY <1>2, <2>3, <3>1 DEF Wire
  <2>5. obIn' \in Seq(ObMsg) BY <1>5, <2>3, ConcatProperties
  <2>6. MailTypeOK' BY <1>0, <1>1, <2>1, <2>5 DEF TypeOK, MailTypeOK
  <2>7. SOMTypeOK' BY <1>0, <2>1 DEF TypeOK, SOMTypeOK
  <2> QED BY <1>1, <1>2, <1>3, <1>4, <2>1, <2>3, <2>4, <2>6, <2>7 DEF TypeOK
<1> QED BY <1>1, <1>6, <1>7

\* An element of a sequence that has grown is an old one or a new one.
LEMMA GrownElement ==
    \A q, r, s : GrownBy(q, r, s) /\ Len(q) \in Nat /\ Len(s) \in Nat =>
        /\ Len(r) \in Nat
        /\ \A i \in 1..Len(r) : \/ i \in 1..Len(q) /\ r[i] = q[i]
                                \/ i > Len(q) /\ i - Len(q) \in 1..Len(s) /\ r[i] = s[i - Len(q)]
        /\ \A i \in 1..Len(q) : i \in 1..Len(r) /\ r[i] = q[i]
        /\ \A i \in 1..Len(s) : Len(q) + i \in 1..Len(r) /\ r[Len(q) + i] = s[i]
<1> TAKE q, r, s
<1> HAVE GrownBy(q, r, s) /\ Len(q) \in Nat /\ Len(s) \in Nat
<1>1. /\ Len(r) = Len(q) + Len(s)
      /\ \A i \in 1..Len(q) : r[i] = q[i]
      /\ \A i \in 1..Len(s) : r[Len(q) + i] = s[i]
  BY DEF GrownBy
<1>2. Len(r) \in Nat BY <1>1
<1>3. ASSUME NEW i \in 1..Len(r)
      PROVE  \/ i \in 1..Len(q) /\ r[i] = q[i]
             \/ i > Len(q) /\ i - Len(q) \in 1..Len(s) /\ r[i] = s[i - Len(q)]
  <2>1. CASE i <= Len(q)
    <3>1. i \in 1..Len(q) BY <2>1, <1>2
    <3> QED BY <3>1, <1>1
  <2>2. CASE ~ (i <= Len(q))
    <3>1. i - Len(q) \in 1..Len(s) /\ Len(q) + (i - Len(q)) = i /\ i > Len(q) BY <2>2, <1>1, <1>2
    <3>2. r[Len(q) + (i - Len(q))] = s[i - Len(q)] BY <1>1, <3>1
    <3> QED BY <3>1, <3>2
  <2> QED BY <2>1, <2>2
<1>4. \A i \in 1..Len(q) : i \in 1..Len(r) /\ r[i] = q[i] BY <1>1
<1>5. \A i \in 1..Len(s) : Len(q) + i \in 1..Len(r) /\ r[Len(q) + i] = s[i] BY <1>1
<1> QED BY <1>2, <1>3, <1>4, <1>5

\* The same with one new element.
LEMMA GrownByOne ==
    \A q, r, m : GrownBy(q, r, <<m>>) /\ Len(q) \in Nat =>
        /\ Len(r) \in Nat /\ Len(r) = Len(q) + 1 /\ Len(r) \in 1..Len(r) /\ r[Len(r)] = m
        /\ \A i \in 1..Len(r) : \/ i \in 1..Len(q) /\ r[i] = q[i]
                                \/ i = Len(r) /\ r[i] = m
        /\ \A i \in 1..Len(q) : i \in 1..Len(r) /\ r[i] = q[i] /\ i < Len(r)
<1> TAKE q, r, m
<1> HAVE GrownBy(q, r, <<m>>) /\ Len(q) \in Nat
<1>1. /\ Len(r) = Len(q) + 1
      /\ \A i \in 1..Len(q) : r[i] = q[i]
      /\ r[Len(q) + 1] = m
  <2>1. Len(<<m>>) = 1 /\ <<m>>[1] = m /\ 1 \in 1..1 OBVIOUS
  <2> QED BY <2>1 DEF GrownBy
<1> QED BY <1>1

\* An element of a sequence that has lost one was there before.
LEMMA WithoutElement ==
    \A q, r, n : Without(q, r, n) /\ Len(q) \in Nat =>
        /\ Len(r) \in Nat
        /\ \A i \in 1..Len(r) : \/ i < n /\ i \in 1..Len(q) /\ r[i] = q[i]
                                \/ i >= n /\ i + 1 \in 1..Len(q) /\ r[i] = q[i + 1]
        /\ \A i \in 1..Len(q) : \/ i < n /\ i \in 1..Len(r) /\ r[i] = q[i]
                                \/ i = n
                                \/ i > n /\ i - 1 \in 1..Len(r) /\ r[i - 1] = q[i]
<1> TAKE q, r, n
<1> HAVE Without(q, r, n) /\ Len(q) \in Nat
<1>1. /\ n \in 1..Len(q) /\ Len(r) = Len(q) - 1
      /\ \A i \in 1..Len(r) : r[i] = IF i < n THEN q[i] ELSE q[i + 1]
  BY DEF Without
<1>2. Len(r) \in Nat BY <1>1
<1>3. ASSUME NEW i \in 1..Len(r)
      PROVE  \/ i < n /\ i \in 1..Len(q) /\ r[i] = q[i]
             \/ i >= n /\ i + 1 \in 1..Len(q) /\ r[i] = q[i + 1]
  <2>1. i \in 1..Len(q) /\ i + 1 \in 1..Len(q) BY <1>1
  <2> QED BY <1>1, <2>1
<1>4. ASSUME NEW i \in 1..Len(q)
      PROVE  \/ i < n /\ i \in 1..Len(r) /\ r[i] = q[i]
             \/ i = n
             \/ i > n /\ i - 1 \in 1..Len(r) /\ r[i - 1] = q[i]
  <2>1. CASE i < n
    <3>1. i \in 1..Len(r) BY <2>1, <1>1
    <3> QED BY <2>1, <3>1, <1>1
  <2>2. CASE i > n
    <3>1. i - 1 \in 1..Len(r) /\ ~ (i - 1 < n) /\ (i - 1) + 1 = i BY <2>2, <1>1
    <3> QED BY <2>2, <3>1, <1>1
  <2> QED BY <2>1, <2>2, <1>1
<1> QED BY <1>2, <1>3, <1>4

\* Orders stay timed and sized on a wire that grows or shrinks.
LEMMA TimedAddsKept ==
    /\ \A q, r, s : GrownBy(q, r, s) /\ Len(q) \in Nat /\ Len(s) \in Nat /\ TimedAdds(q) /\ TimedAdds(s)
                        => TimedAdds(r)
    /\ \A q, r, n : Without(q, r, n) /\ Len(q) \in Nat /\ TimedAdds(q) => TimedAdds(r)
<1>1. ASSUME NEW q, NEW r, NEW s, GrownBy(q, r, s), Len(q) \in Nat, Len(s) \in Nat, TimedAdds(q), TimedAdds(s)
      PROVE  TimedAdds(r)
  <2> SUFFICES ASSUME NEW i \in 1..Len(r), r[i].type = "ADD" PROVE r[i].timed /\ r[i].sz \in Size
    BY DEF TimedAdds
  <2>1. \/ i \in 1..Len(q) /\ r[i] = q[i]
        \/ i - Len(q) \in 1..Len(s) /\ r[i] = s[i - Len(q)]
    BY <1>1, GrownElement
  <2> QED BY <1>1, <2>1 DEF TimedAdds
<1>2. ASSUME NEW q, NEW r, NEW n, Without(q, r, n), Len(q) \in Nat, TimedAdds(q)
      PROVE  TimedAdds(r)
  <2> SUFFICES ASSUME NEW i \in 1..Len(r), r[i].type = "ADD" PROVE r[i].timed /\ r[i].sz \in Size
    BY DEF TimedAdds
  <2>1. \/ i \in 1..Len(q) /\ r[i] = q[i]
        \/ i + 1 \in 1..Len(q) /\ r[i] = q[i + 1]
    BY <1>2, WithoutElement
  <2> QED BY <1>2, <2>1 DEF TimedAdds
<1> QED BY <1>1, <1>2

\* What the steps of a light do to the slots.
LEMMA SlotView ==
    ASSUME TypeInv, NEW l \in Light
    PROVE  /\ \A sz \in Size : Place(l, sz) =>
                  /\ slot[l] = Empty /\ slot[l].id = 0 /\ curr_id \in Id /\ curr_id # 0
                  /\ slot'[l] = [id |-> curr_id, canc |-> FALSE]
                  /\ \A k \in Light : k # l => slot'[k] = slot[k]
           /\ cancel_order(l) =>
                  /\ slot[l].id # 0 /\ slot'[l] = [id |-> slot[l].id, canc |-> TRUE]
                  /\ ~ slot[l].canc
                  /\ \A k \in Light : k # l => slot'[k] = slot[k]
           /\ Report2Light(l) =>
                  /\ slot'[l] \in {slot[l], Empty}
                  /\ \A k \in Light : k # l => slot'[k] = slot[k]
<1>1. slot \in [Light -> [id : 0..MaxId, canc : BOOLEAN]]
      /\ \A k \in Light : slot[k].id = 0 => slot[k] = Empty
  BY DEF TypeInv, TypeOK, LightTypeOK, Shape
<1>2. ASSUME NEW sz \in Size, Place(l, sz)
      PROVE  /\ slot[l] = Empty /\ slot[l].id = 0 /\ curr_id \in Id /\ curr_id # 0
             /\ slot'[l] = [id |-> curr_id, canc |-> FALSE]
             /\ \A k \in Light : k # l => slot'[k] = slot[k]
  <2>1. /\ slot[l] = Empty /\ curr_id \in Id
        /\ slot' = [slot EXCEPT ![l] = [id |-> curr_id, canc |-> FALSE]]
    BY <1>2 DEF Place, place_order
  <2>2. curr_id # 0 BY <2>1, OrderAssumption DEF Id
  <2>3. slot[l].id = 0 BY <2>1 DEF Empty
  <2> QED BY <1>1, <2>1, <2>2, <2>3
<1>3. ASSUME cancel_order(l)
      PROVE  /\ slot[l].id # 0 /\ slot'[l] = [id |-> slot[l].id, canc |-> TRUE]
             /\ ~ slot[l].canc
             /\ \A k \in Light : k # l => slot'[k] = slot[k]
  <2>1. /\ slot[l] # Empty /\ ~ slot[l].canc
        /\ slot' = [slot EXCEPT ![l].canc = TRUE]
    BY <1>3 DEF cancel_order
  <2>2. slot[l] \in [id : 0..MaxId, canc : BOOLEAN] BY <1>1
  <2>3. slot'[l] = [slot[l] EXCEPT !.canc = TRUE] BY <1>1, <2>1
  <2>4. slot'[l] = [id |-> slot[l].id, canc |-> TRUE] BY <2>2, <2>3
  <2> QED BY <1>1, <2>1, <2>4
<1>4. ASSUME Report2Light(l)
      PROVE  /\ slot'[l] \in {slot[l], Empty}
             /\ \A k \in Light : k # l => slot'[k] = slot[k]
  <2>1. slot' = slot \/ slot' = [slot EXCEPT ![l] = Empty]
    BY <1>4 DEF Report2Light, LightReport, som_fill_handler, som_canc_ack_handler, som_cancrej_handler,
                som_reject_handler, ClearSlot, Abort
  <2> QED BY <1>1, <2>1
<1> QED BY <1>2, <1>3, <1>4

\* Every step keeps the types.
LEMMA TypeStep ==
    ASSUME TypeInv, [Next]_vars
    PROVE  TypeInv'
<1>0. TypeOK BY DEF TypeInv
<1>1. /\ \A l \in Light : slot[l].id = 0 => slot[l] = Empty
      /\ TimedAdds(Wire) /\ (~ FeedDelay => pub_q = <<>>) /\ Len(Wire) \in Nat
  BY <1>0, Views DEF TypeInv, Shape
<1>a. \A id \in Id, sz \in Size : TimedAdds(<<AddOrder(id, sz)>>) /\ Len(<<AddOrder(id, sz)>>) \in Nat
  BY DEF TimedAdds, AddOrder
<1>c. \A id \in Id, t \in BOOLEAN : TimedAdds(<<CancelOrder(id, t)>>) /\ Len(<<CancelOrder(id, t)>>) \in Nat
  BY DEF TimedAdds, CancelOrder
<1>2. ASSUME NEW l \in Light, NEW sz \in Size, Place(l, sz) PROVE TypeInv'
  <2>1. /\ TypeOK'
        /\ Wire' = Wire \/ GrownBy(Wire, Wire', <<AddOrder(curr_id, sz)>>)
    BY <1>2, PlaceType
  <2>2. /\ curr_id \in Id /\ curr_id # 0
        /\ slot'[l] = [id |-> curr_id, canc |-> FALSE]
        /\ \A k \in Light : k # l => slot'[k] = slot[k]
    BY <1>2, SlotView
  <2>3. \A k \in Light : slot'[k].id = 0 => slot'[k] = Empty
    BY <1>1, <2>2
  <2>4. TimedAdds(Wire)'
    <3>1. CASE Wire' = Wire BY <1>1, <3>1 DEF TimedAdds
    <3>2. CASE GrownBy(Wire, Wire', <<AddOrder(curr_id, sz)>>)
      <4>1. TimedAdds(Wire') BY <1>1, <1>a, <2>2, <3>2, TimedAddsKept
      <4> QED BY <4>1 DEF TimedAdds
    <3> QED BY <2>1, <3>1, <3>2
  <2>5. pub_q' = pub_q BY <1>2 DEF Place, venueVars
  <2> QED BY <1>1, <2>1, <2>3, <2>4, <2>5 DEF TypeInv, Shape
<1>3. ASSUME NEW l \in Light, Cancel(l) \/ ClearLight(l) PROVE TypeInv'
  <2>1. /\ TypeOK'
        /\ resting' = resting /\ del_q' = del_q /\ pub_q' = pub_q
        /\ \/ cancel_order(l)
           \/ UNCHANGED <<lightVars, somVars, mailVars, aborted>>
    BY <1>3, CancelType
  <2>2. CASE cancel_order(l)
    <3>1. slot[l].id \in Id /\ canc_handler(slot[l].id, TRUE) BY <2>2, CancelOrderType
    <3>2. Wire' = Wire \/ GrownBy(Wire, Wire', <<CancelOrder(slot[l].id, TRUE)>>)
      BY <1>0, <2>1, <3>1, CancView
    <3>3. TimedAdds(Wire)'
      <4>1. CASE Wire' = Wire BY <1>1, <4>1 DEF TimedAdds
      <4>2. CASE GrownBy(Wire, Wire', <<CancelOrder(slot[l].id, TRUE)>>)
        <5>1. TimedAdds(Wire') BY <1>1, <1>c, <3>1, <4>2, TimedAddsKept
        <5> QED BY <5>1 DEF TimedAdds
      <4> QED BY <3>2, <4>1, <4>2
    <3>4. /\ slot[l].id # 0 /\ slot'[l] = [id |-> slot[l].id, canc |-> TRUE]
          /\ \A k \in Light : k # l => slot'[k] = slot[k]
      BY <2>2, SlotView
    <3>5. slot'[l].id # 0 BY <3>4
    <3>6. \A k \in Light : slot'[k].id = 0 => slot'[k] = Empty BY <1>1, <3>4, <3>5
    <3> QED BY <1>1, <2>1, <3>3, <3>6 DEF TypeInv, Shape
  <2>3. CASE UNCHANGED <<lightVars, somVars, mailVars, aborted>>
    <3>1. slot' = slot /\ Wire' = Wire BY <2>1, <2>3 DEF lightVars, mailVars, Wire
    <3> QED BY <1>1, <2>1, <3>1 DEF TypeInv, Shape, TimedAdds
  <2> QED BY <2>1, <2>2, <2>3
<1>4. ASSUME NEW l \in Light, Report2Light(l) PROVE TypeInv'
  <2>1. TypeOK' /\ Wire' = Wire /\ pub_q' = pub_q BY <1>4, ReportType DEF venueVars
  <2>2. \A k \in Light : slot'[k].id = 0 => slot'[k] = Empty BY <1>1, <1>4, SlotView
  <2> QED BY <1>1, <2>1, <2>2 DEF TypeInv, Shape, TimedAdds
<1>5. ASSUME Report2SOM PROVE TypeInv'
  <2>1. TypeOK' /\ Wire' = Wire /\ pub_q' = pub_q /\ slot' = slot BY <1>5, SOMType DEF venueVars, lightVars
  <2> QED BY <1>1, <2>1 DEF TypeInv, Shape, TimedAdds
<1>6. ASSUME Book PROVE TypeInv'
  <2>1. TypeOK' /\ BookView /\ slot' = slot /\ (~ FeedDelay => pub_q' = <<>>) BY <1>6, BookType DEF lightVars
  <2>2. Wire' = Wire \/ \E n : Without(Wire, Wire', n) BY <2>1 DEF BookView
  <2>3. TimedAdds(Wire') BY <1>1, <2>2, TimedAddsKept
  <2> QED BY <1>1, <2>1, <2>3 DEF TypeInv, Shape, TimedAdds
<1>7. ASSUME Market PROVE TypeInv'
  <2>1. TypeOK' /\ Wire' = Wire /\ slot' = slot /\ (~ FeedDelay => pub_q' = <<>>)
    BY <1>7, MarketType DEF lightVars
  <2> QED BY <1>1, <2>1 DEF TypeInv, Shape, TimedAdds
<1>8. ASSUME ClearEnd PROVE TypeInv'
  <2>1. TypeOK' /\ Wire' = Wire /\ slot' = slot /\ (~ FeedDelay => pub_q' = <<>>)
    BY <1>8, ClearEndType DEF lightVars
  <2> QED BY <1>1, <2>1 DEF TypeInv, Shape, TimedAdds
<1>9. ASSUME Console PROVE TypeInv'
  <2>1. /\ TypeOK' /\ slot' = slot /\ del_q' = del_q /\ pub_q' = pub_q
        /\ \/ \E id \in Id : canc_handler(id, FALSE)
           \/ \E s \in Seq(ObMsg) :
                 /\ GrownBy(Wire, Wire', s) /\ Len(s) \in Nat
                 /\ \A i \in 1..Len(s) : s[i].type = "CANC"
    BY <1>9, ConsoleType DEF lightVars
  <2>2. Wire' = Wire \/ \E s : GrownBy(Wire, Wire', s) /\ TimedAdds(s) /\ Len(s) \in Nat
    <3>1. CASE \E id \in Id : canc_handler(id, FALSE)
      BY <1>0, <1>c, <2>1, <3>1, CancView
    <3>2. CASE \E s \in Seq(ObMsg) :
                 /\ GrownBy(Wire, Wire', s) /\ Len(s) \in Nat
                 /\ \A i \in 1..Len(s) : s[i].type = "CANC"
      BY <3>2 DEF TimedAdds
    <3> QED BY <2>1, <3>1, <3>2
  <2>3. TimedAdds(Wire') BY <1>1, <2>2, TimedAddsKept
  <2> QED BY <1>1, <2>1, <2>3 DEF TypeInv, Shape, TimedAdds
<1>10. CASE UNCHANGED vars
  <2>1. UNCHANGED <<mailVars, aborted, somVars, venueVars, lightVars, console>> BY <1>10 DEF vars
  <2>2. /\ obIn' = obIn /\ somIn' = somIn /\ clientIn' = clientIn /\ aborted' = aborted
        /\ slot' = slot /\ pub_q' = pub_q /\ del_q' = del_q /\ console' = console
    BY <2>1 DEF mailVars, venueVars, lightVars
  <2>3. MailTypeOK' BY <1>0, <2>2 DEF TypeOK, MailTypeOK
  <2>4. SOMTypeOK' /\ VenueTypeOK' /\ LightTypeOK' BY <1>0, <2>1, TypeFrame
  <2>5. Wire' = Wire BY <2>2 DEF Wire
  <2>6. TypeOK' BY <1>0, <2>2, <2>3, <2>4 DEF TypeOK
  <2> QED BY <1>1, <2>2, <2>5, <2>6 DEF TypeInv, Shape, TimedAdds
<1> QED BY <1>2, <1>3, <1>4, <1>5, <1>6, <1>7, <1>8, <1>9, <1>10 DEF Next

\* In the beginning nothing is anywhere.
LEMMA TypeInit ==
    ASSUME Init
    PROVE  TypeInv /\ Wire = <<>> /\ Answers = <<>> /\ Len(Wire) = 0 /\ Len(Answers) = 0
<1>1. /\ obIn = <<>> /\ somIn = <<>> /\ clientIn = [l \in Light |-> <<>>] /\ aborted = "no"
      /\ del_q = <<>> /\ pub_q = <<>> /\ resting = [id \in {} |-> 0] /\ clearing = {} /\ inClear = FALSE
      /\ orders = [id \in {} |-> 0] /\ curr_id = 1 /\ stopped = FALSE /\ pos = 0
      /\ slot = [l \in Light |-> Empty] /\ cancel_requests = [l \in Light |-> {}]
      /\ qentry = [l \in Light |-> NoEntry] /\ pcoord = 0 /\ console = 0
  BY DEF Init, MailInit, SOMInit, VenueInit, LightInit
<1>2. MailTypeOK BY <1>1 DEF MailTypeOK
<1>d. DOMAIN orders = {} /\ DOMAIN resting = {} BY <1>1
<1>3. SOMTypeOK
  <2>1. curr_id \in 1..MaxId + 1 BY <1>1, OrderAssumption
  <2>2. stopped \in BOOLEAN BY <1>1
  <2>3. pos \in Int BY <1>1
  <2> QED BY <1>d, <2>1, <2>2, <2>3 DEF SOMTypeOK
<1>4. VenueTypeOK
  <2>1. del_q \in Seq(ObMsg) /\ pub_q \in Seq(Report) /\ clearing \subseteq Light BY <1>1
  <2>2. inClear \in BOOLEAN BY <1>1
  <2> QED BY <1>d, <2>1, <2>2 DEF VenueTypeOK
<1>5. LightTypeOK BY <1>1, OrderAssumption DEF LightTypeOK, Empty, NoEntry
<1>6. console \in 0..MaxConsole BY <1>1, ConsoleAssumption
<1>7. Wire = <<>> /\ Answers = <<>> /\ Len(Wire) = 0 /\ Len(Answers) = 0
  <2>1. <<>> \o <<>> = <<>> BY ConcatEmptySeq
  <2> QED BY <1>1, <2>1 DEF Wire, Answers
<1>8. Shape BY <1>1, <1>7 DEF Shape, TimedAdds
<1> QED BY <1>2, <1>3, <1>4, <1>5, <1>6, <1>7, <1>8 DEF TypeInv, TypeOK

\* The tables, queues and mailboxes of the order path stay in their types:
\* every entry, message and counter is one the handlers can produce.
THEOREM TypeCorrect == Spec => []TypeOK
<1>1. Init => TypeInv BY TypeInit
<1>2. TypeInv /\ [Next]_vars => TypeInv' BY TypeStep
<1>3. TypeInv => TypeOK BY DEF TypeInv
<1> QED BY <1>1, <1>2, <1>3, PTL DEF Spec

-----------------------------------------------------------------------------
(* The flow of an order: from the slot of its light over the wire to the   *)
(* book, and of its reports over the feed and the SOM back to the slot.    *)

\* A report about an order's fate, and one after which nothing of it is left.
Event(m) == m.type \in {"FILL", "CANCACK", "REJECT"}
Ends(m) == Event(m) /\ (m.type = "FILL" => m.stbf = 0)
NotFound(m) == m.type = "CANCREJ" /\ m.reason = "NOTFOUND"

\* The order id is light l's.
Owns(l, id) == Known(id) /\ orders[id].client = l

\* The orders on the wire or in the book.
Live == {id \in Id : AtVenue(id)}

\* Only ids that were given out are about; a rejection may carry the next one.
IdsUsed ==
    /\ \A id \in DOMAIN orders : id < curr_id
    /\ \A i \in 1..Len(Answers) : Answers[i].id < curr_id
    /\ \A l \in Light : \A i \in 1..Len(clientIn[l]) :
            clientIn[l][i].type # "REJECT" => clientIn[l][i].id < curr_id

\* Whatever is live is the order in a slot, and so is what a report of it says.
LiveOwned == \A id \in Live : Known(id) /\ slot[orders[id].client].id = id

AnswerOwned ==
    \A i \in 1..Len(Answers) : Event(Answers[i]) =>
        Known(Answers[i].id) /\ slot[orders[Answers[i].id].client].id = Answers[i].id

MailOwned ==
    \A l \in Light : \A i \in 1..Len(clientIn[l]) :
        Event(clientIn[l][i]) => clientIn[l][i].id = slot[l].id

\* Nothing of an order comes after the end of it, or after a cancel that did
\* not find it: not in the answers, not in the book.
AnswerLast ==
    \A i \in 1..Len(Answers) : Ends(Answers[i]) \/ NotFound(Answers[i]) =>
        /\ Answers[i].id \notin Live
        /\ \A j \in 1..Len(Answers) : i < j /\ Answers[j].id = Answers[i].id => ~ Event(Answers[j])

\* The end in a light's mailbox is the last of the light's orders anywhere.
MailLast ==
    \A l \in Light : \A i \in 1..Len(clientIn[l]) : Ends(clientIn[l][i]) =>
        /\ \A j \in 1..Len(clientIn[l]) : i < j => ~ Event(clientIn[l][j])
        /\ \A j \in 1..Len(Answers) : Event(Answers[j]) => ~ Owns(l, Answers[j].id)
        /\ \A id \in Live : ~ Owns(l, id)

\* The same for a cancel that did not find the order.
MailGone ==
    \A l \in Light : \A i \in 1..Len(clientIn[l]) : NotFound(clientIn[l][i]) =>
        /\ clientIn[l][i].id \notin Live
        /\ \A j \in 1..Len(Answers) : Answers[j].id = clientIn[l][i].id => ~ Event(Answers[j])
        /\ \A j \in 1..Len(clientIn[l]) :
                i < j /\ clientIn[l][j].id = clientIn[l][i].id => ~ Event(clientIn[l][j])

\* A light waits for something: its order is live, or the end of it on its way.
SlotWaits ==
    \A l \in Light : slot[l].id # 0 =>
        \/ slot[l].id \in Live /\ Owns(l, slot[l].id)
        \/ \E i \in 1..Len(Answers) :
                Ends(Answers[i]) /\ Answers[i].id = slot[l].id /\ Owns(l, slot[l].id)
        \/ \E i \in 1..Len(clientIn[l]) : Ends(clientIn[l][i])

\* The way of every order, from its light and back to it.
FlowInv ==
    /\ IdsUsed /\ LiveOwned /\ AnswerOwned /\ MailOwned
    /\ AnswerLast /\ MailLast /\ MailGone /\ SlotWaits

(* The kinds of steps, as the flow sees them. *)

SlotsKept == \A l \in Light : slot'[l].id = slot[l].id
OwnersKept ==
    /\ DOMAIN orders' = DOMAIN orders
    /\ \A id \in DOMAIN orders : orders'[id].client = orders[id].client
OwnerAdded(l) ==
    /\ DOMAIN orders' = DOMAIN orders \cup {curr_id}
    /\ \A id \in DOMAIN orders : orders'[id].client = orders[id].client
    /\ orders'[curr_id].client = l
MailTo(l, m) ==
    /\ GrownBy(clientIn[l], clientIn'[l], <<m>>)
    /\ \A k \in Light : k # l => clientIn'[k] = clientIn[k]
SlotTaken(l) ==
    /\ slot[l].id = 0 /\ slot'[l].id = curr_id /\ curr_id \in Id
    /\ \A k \in Light : k # l => slot'[k].id = slot[k].id

\* Nothing the flow is about changes.
Quiet ==
    /\ Answers' = Answers /\ Live' = Live /\ clientIn' = clientIn /\ curr_id' = curr_id
    /\ OwnersKept /\ SlotsKept

\* An order is rejected, with or without a record of it.
Refused(l) ==
    /\ SlotTaken(l)
    /\ Answers' = Answers /\ Live' = Live
    /\ MailTo(l, Reject(curr_id))
    /\ \/ OwnersKept /\ curr_id' = curr_id
       \/ OwnerAdded(l) /\ curr_id' = curr_id + 1

\* An order goes on the wire.
Forwarded(l) ==
    /\ SlotTaken(l)
    /\ Answers' = Answers /\ Live' = Live \cup {curr_id}
    /\ clientIn' = clientIn
    /\ OwnerAdded(l) /\ curr_id' = curr_id + 1

\* A light is told something that is no event.
Told(l, m) ==
    /\ ~ Event(m) /\ ~ NotFound(m) /\ m.id < curr_id
    /\ MailTo(l, m)
    /\ Answers' = Answers /\ Live' = Live /\ curr_id' = curr_id
    /\ OwnersKept /\ SlotsKept

\* The first answer reaches the SOM, which passes the event on; after an ack
\* it forgets the order.
Delivered(l, m) ==
    /\ Without(Answers, Answers', 1) /\ m = Answers[1] /\ Event(m)
    /\ Owns(l, m.id) /\ MailTo(l, m)
    /\ Live' = Live /\ curr_id' = curr_id /\ SlotsKept
    /\ \/ OwnersKept
       \/ /\ Ends(m) /\ DOMAIN orders' = DOMAIN orders \ {m.id}
          /\ \A id \in DOMAIN orders' : orders'[id].client = orders[id].client

\* The first answer is no event; the SOM drops it, or tells the owner.
Passed ==
    /\ Without(Answers, Answers', 1) /\ ~ Event(Answers[1])
    /\ Live' = Live /\ curr_id' = curr_id /\ SlotsKept /\ OwnersKept
    /\ \/ clientIn' = clientIn
       \/ \E l \in Light, n \in Msg :
             /\ MailTo(l, n) /\ n.id = Answers[1].id /\ ~ Event(n)
             /\ NotFound(n) => NotFound(Answers[1])

\* A light takes the first message of its mailbox; the end empties its slot.
Taken(l) ==
    /\ Without(clientIn[l], clientIn'[l], 1)
    /\ \A k \in Light : k # l => clientIn'[k] = clientIn[k] /\ slot'[k].id = slot[k].id
    /\ slot'[l].id = IF Ends(clientIn[l][1]) THEN 0 ELSE slot[l].id
    /\ Answers' = Answers /\ Live' = Live /\ curr_id' = curr_id /\ OwnersKept

\* The book publishes s.
Published(s) ==
    /\ GrownBy(Answers, Answers', s) /\ Len(s) \in Nat
    /\ Live' \subseteq Live
    /\ \A i \in 1..Len(s) :
          /\ s[i].id < curr_id
          /\ Event(s[i]) => s[i].id \in Live
          /\ Ends(s[i]) \/ NotFound(s[i]) => s[i].id \notin Live'
    /\ \A i, j \in 1..Len(s) : s[i].id = s[j].id => i = j
    /\ \A id \in Live \ Live' : \E i \in 1..Len(s) : s[i].id = id /\ Ends(s[i])
    /\ clientIn' = clientIn /\ curr_id' = curr_id /\ OwnersKept /\ SlotsKept

\* What the types say about the flow.
LEMMA FlowTypes ==
    ASSUME TypeOK
    PROVE  /\ Len(Answers) \in Nat /\ curr_id \in Nat
           /\ \A i \in 1..Len(Answers) : Answers[i] \in Msg /\ Answers[i].id \in Id /\ Answers[i].id \in Nat
           /\ \A l \in Light : Len(clientIn[l]) \in Nat
           /\ \A l \in Light : \A i \in 1..Len(clientIn[l]) :
                  clientIn[l][i] \in Msg /\ clientIn[l][i].id \in Id /\ clientIn[l][i].id \in Nat
           /\ \A id \in DOMAIN orders : id \in Id /\ orders[id].client \in Light
           /\ \A id \in Id : id \in Nat /\ id # 0
           /\ Live \subseteq Id
           /\ \A l \in Light : slot[l].id \in Nat
<1>1. \A id \in Id : id \in Nat /\ id # 0 BY OrderAssumption DEF Id
<1>2. curr_id \in Nat BY OrderAssumption DEF TypeOK, SOMTypeOK
<1>3. \A id \in DOMAIN orders : id \in Id /\ orders[id].client \in Light BY DEF TypeOK, SOMTypeOK, Order
<1>4. \A l \in Light : slot[l].id \in Nat BY OrderAssumption DEF TypeOK, LightTypeOK
<1>5. Live \subseteq Id BY DEF Live
<1> QED BY <1>1, <1>2, <1>3, <1>4, <1>5, Views

\* A step that changes none of it.
LEMMA QuietFlow ==
    ASSUME TypeOK, FlowInv, Quiet
    PROVE  FlowInv'
<1>0. /\ Answers' = Answers /\ Live' = Live /\ clientIn' = clientIn /\ curr_id' = curr_id
      /\ DOMAIN orders' = DOMAIN orders
      /\ \A id \in DOMAIN orders : orders'[id].client = orders[id].client
      /\ \A l \in Light : slot'[l].id = slot[l].id
  BY DEF Quiet, OwnersKept, SlotsKept
<1>t. \A id \in DOMAIN orders : orders[id].client \in Light BY FlowTypes
<1>1. IdsUsed' BY <1>0 DEF FlowInv, IdsUsed
<1>2. LiveOwned' BY <1>0, <1>t DEF FlowInv, LiveOwned, Known
<1>3. AnswerOwned' BY <1>0, <1>t DEF FlowInv, AnswerOwned, Known
<1>4. MailOwned' BY <1>0 DEF FlowInv, MailOwned
<1>5. AnswerLast' BY <1>0 DEF FlowInv, AnswerLast
<1>6. MailLast' BY <1>0 DEF FlowInv, MailLast, Owns, Known
<1>7. MailGone' BY <1>0 DEF FlowInv, MailGone
<1>8. SlotWaits' BY <1>0 DEF FlowInv, SlotWaits, Owns, Known
<1> QED BY <1>1, <1>2, <1>3, <1>4, <1>5, <1>6, <1>7, <1>8 DEF FlowInv

\* A rejection at once.
LEMMA RefusedFlow ==
    ASSUME TypeOK, FlowInv, NEW l \in Light, Refused(l)
    PROVE  FlowInv'
<1>0. /\ Answers' = Answers /\ Live' = Live
      /\ slot[l].id = 0 /\ slot'[l].id = curr_id /\ curr_id \in Id
      /\ \A k \in Light : k # l => slot'[k].id = slot[k].id
      /\ GrownBy(clientIn[l], clientIn'[l], <<Reject(curr_id)>>)
      /\ \A k \in Light : k # l => clientIn'[k] = clientIn[k]
      /\ \A id \in DOMAIN orders : id \in DOMAIN orders' /\ orders'[id].client = orders[id].client
      /\ \A id \in DOMAIN orders' \ DOMAIN orders : id = curr_id /\ orders'[id].client = l /\ curr_id' = curr_id + 1
      /\ curr_id' \in {curr_id, curr_id + 1}
  BY DEF Refused, SlotTaken, MailTo, OwnersKept, OwnerAdded
<1>t. /\ Len(Answers) \in Nat /\ curr_id \in Nat
      /\ \A i \in 1..Len(Answers) : Answers[i].id \in Id /\ Answers[i].id \in Nat
      /\ \A k \in Light : Len(clientIn[k]) \in Nat
      /\ \A k \in Light : \A i \in 1..Len(clientIn[k]) : clientIn[k][i].id \in Id /\ clientIn[k][i].id \in Nat
      /\ \A id \in DOMAIN orders : id \in Id /\ orders[id].client \in Light
      /\ \A id \in Id : id \in Nat /\ id # 0
      /\ Live \subseteq Id
  BY FlowTypes
<1>c. \A id \in DOMAIN orders : id < curr_id BY DEF FlowInv, IdsUsed
<1>d. curr_id' >= curr_id /\ curr_id' \in Nat BY <1>0, <1>t
<1>m. /\ Len(clientIn'[l]) \in Nat /\ clientIn'[l][Len(clientIn'[l])] = Reject(curr_id)
      /\ Len(clientIn'[l]) \in 1..Len(clientIn'[l])
      /\ \A i \in 1..Len(clientIn'[l]) :
            \/ i \in 1..Len(clientIn[l]) /\ clientIn'[l][i] = clientIn[l][i]
            \/ i = Len(clientIn'[l]) /\ clientIn'[l][i] = Reject(curr_id)
      /\ \A i \in 1..Len(clientIn[l]) :
            i \in 1..Len(clientIn'[l]) /\ clientIn'[l][i] = clientIn[l][i] /\ i < Len(clientIn'[l])
  BY <1>0, <1>t, GrownByOne
<1>r. /\ Reject(curr_id).type = "REJECT" /\ Reject(curr_id).id = curr_id
      /\ Event(Reject(curr_id)) /\ Ends(Reject(curr_id)) /\ ~ NotFound(Reject(curr_id))
  BY DEF Reject, Event, Ends, NotFound
<1>e. \A i \in 1..Len(clientIn[l]) : ~ Event(clientIn[l][i]) /\ ~ Ends(clientIn[l][i])
  BY <1>0, <1>t DEF FlowInv, MailOwned, Ends
<1>1. IdsUsed'
  <2>1. ASSUME NEW id \in DOMAIN orders' PROVE id < curr_id'
    <3>1. CASE id \in DOMAIN orders
      <4>1. id < curr_id /\ id \in Nat BY <3>1, <1>c, <1>t
      <4> QED BY <4>1, <1>d, <1>t
    <3>2. CASE id \notin DOMAIN orders
      <4>1. id = curr_id /\ curr_id' = curr_id + 1 BY <3>2, <1>0
      <4> QED BY <4>1, <1>t
    <3> QED BY <3>1, <3>2
  <2>2. \A i \in 1..Len(Answers') : Answers'[i].id < curr_id' BY <1>0, <1>d, <1>t DEF FlowInv, IdsUsed
  <2>3. ASSUME NEW k \in Light, NEW i \in 1..Len(clientIn'[k]), clientIn'[k][i].type # "REJECT"
        PROVE  clientIn'[k][i].id < curr_id'
    <3>1. i \in 1..Len(clientIn[k]) /\ clientIn'[k][i] = clientIn[k][i]
      BY <1>0, <1>m, <1>r, <2>3
    <3>2. clientIn[k][i].id < curr_id BY <2>3, <3>1 DEF FlowInv, IdsUsed
    <3>3. clientIn[k][i].id \in Nat BY <1>t, <3>1
    <3> QED BY <1>d, <1>t, <3>1, <3>2, <3>3
  <2> QED BY <2>1, <2>2, <2>3 DEF IdsUsed
<1>2. LiveOwned'
  <2> SUFFICES ASSUME NEW id \in Live
               PROVE  id \in DOMAIN orders' /\ slot'[orders'[id].client].id = id
    BY <1>0 DEF LiveOwned, Known
  <2>1. id \in DOMAIN orders /\ slot[orders[id].client].id = id BY DEF FlowInv, LiveOwned, Known
  <2>2. orders[id].client # l BY <1>0, <1>t, <2>1
  <2> QED BY <1>0, <1>t, <2>1, <2>2
<1>3. AnswerOwned'
  <2> SUFFICES ASSUME NEW i \in 1..Len(Answers), Event(Answers[i])
               PROVE  Answers[i].id \in DOMAIN orders' /\ slot'[orders'[Answers[i].id].client].id = Answers[i].id
    BY <1>0 DEF AnswerOwned, Known
  <2>1. Answers[i].id \in DOMAIN orders /\ slot[orders[Answers[i].id].client].id = Answers[i].id
    BY DEF FlowInv, AnswerOwned, Known
  <2>2. orders[Answers[i].id].client # l BY <1>0, <1>t, <2>1
  <2> QED BY <1>0, <1>t, <2>1, <2>2
<1>4. MailOwned'
  <2> SUFFICES ASSUME NEW k \in Light, NEW i \in 1..Len(clientIn'[k]), Event(clientIn'[k][i])
               PROVE  clientIn'[k][i].id = slot'[k].id
    BY DEF MailOwned
  <2>1. CASE k = l BY <2>1, <1>0, <1>m, <1>e, <1>r
  <2>2. CASE k # l BY <2>2, <1>0 DEF FlowInv, MailOwned
  <2> QED BY <2>1, <2>2
<1>5. AnswerLast' BY <1>0 DEF FlowInv, AnswerLast
<1>6. MailLast'
  <2> SUFFICES ASSUME NEW k \in Light, NEW i \in 1..Len(clientIn'[k]), Ends(clientIn'[k][i])
               PROVE  /\ \A j \in 1..Len(clientIn'[k]) : i < j => ~ Event(clientIn'[k][j])
                      /\ \A j \in 1..Len(Answers) : Event(Answers[j]) => ~ (Owns(k, Answers[j].id))'
                      /\ \A id \in Live : ~ (Owns(k, id))'
    BY <1>0 DEF MailLast, Owns, Known
  <2>1. CASE k = l
    <3>1. i = Len(clientIn'[l]) BY <2>1, <1>m, <1>e
    <3>2. \A j \in 1..Len(clientIn'[k]) : i < j => ~ Event(clientIn'[k][j]) BY <2>1, <3>1, <1>m
    <3>3. ASSUME NEW j \in 1..Len(Answers), Event(Answers[j]) PROVE ~ (Owns(k, Answers[j].id))'
      <4>1. Answers[j].id \in DOMAIN orders /\ slot[orders[Answers[j].id].client].id = Answers[j].id
        BY <3>3 DEF FlowInv, AnswerOwned, Known
      <4>2. orders[Answers[j].id].client # l BY <1>0, <1>t, <4>1
      <4> QED BY <2>1, <1>0, <4>1, <4>2 DEF Owns, Known
    <3>4. ASSUME NEW id \in Live PROVE ~ (Owns(k, id))'
      <4>1. id \in DOMAIN orders /\ slot[orders[id].client].id = id BY DEF FlowInv, LiveOwned, Known
      <4>2. orders[id].client # l BY <1>0, <1>t, <4>1
      <4> QED BY <2>1, <1>0, <4>1, <4>2 DEF Owns, Known
    <3> QED BY <3>2, <3>3, <3>4
  <2>2. CASE k # l
    <3>1. clientIn'[k] = clientIn[k] BY <2>2, <1>0
    <3>2. /\ \A j \in 1..Len(clientIn[k]) : i < j => ~ Event(clientIn[k][j])
          /\ \A j \in 1..Len(Answers) : Event(Answers[j]) => ~ Owns(k, Answers[j].id)
          /\ \A id \in Live : ~ Owns(k, id)
      BY <3>1 DEF FlowInv, MailLast
    <3>3. \A id : (Owns(k, id))' => Owns(k, id) BY <2>2, <1>0 DEF Owns, Known
    <3>4. \A j \in 1..Len(clientIn'[k]) : i < j => ~ Event(clientIn'[k][j]) BY <3>1, <3>2
    <3>5. \A j \in 1..Len(Answers) : Event(Answers[j]) => ~ (Owns(k, Answers[j].id))'
      <4> SUFFICES ASSUME NEW j \in 1..Len(Answers), Event(Answers[j]) PROVE ~ (Owns(k, Answers[j].id))'
        OBVIOUS
      <4>1. ~ Owns(k, Answers[j].id) BY <3>2
      <4> QED BY <4>1, <1>0, <2>2 DEF Owns, Known
    <3> QED BY <3>2, <3>3, <3>4, <3>5
  <2> QED BY <2>1, <2>2
<1>7. MailGone'
  <2> SUFFICES ASSUME NEW k \in Light, NEW i \in 1..Len(clientIn'[k]), NotFound(clientIn'[k][i])
               PROVE  /\ clientIn'[k][i].id \notin Live
                      /\ \A j \in 1..Len(Answers) : Answers[j].id = clientIn'[k][i].id => ~ Event(Answers[j])
                      /\ \A j \in 1..Len(clientIn'[k]) :
                            i < j /\ clientIn'[k][j].id = clientIn'[k][i].id => ~ Event(clientIn'[k][j])
    BY <1>0 DEF MailGone
  <2>1. i \in 1..Len(clientIn[k]) /\ clientIn'[k][i] = clientIn[k][i] BY <1>0, <1>m, <1>r
  <2>2. /\ clientIn[k][i].id \notin Live
        /\ \A j \in 1..Len(Answers) : Answers[j].id = clientIn[k][i].id => ~ Event(Answers[j])
        /\ \A j \in 1..Len(clientIn[k]) :
              i < j /\ clientIn[k][j].id = clientIn[k][i].id => ~ Event(clientIn[k][j])
    BY <2>1 DEF FlowInv, MailGone
  <2>3. clientIn[k][i].id < curr_id /\ clientIn[k][i].id \in Nat
    BY <1>t, <2>1 DEF FlowInv, IdsUsed, NotFound
  <2>4. clientIn[k][i].id # curr_id BY <1>t, <2>3
  <2>5. ASSUME NEW j \in 1..Len(clientIn'[k]), i < j, clientIn'[k][j].id = clientIn'[k][i].id
        PROVE  ~ Event(clientIn'[k][j])
    <3>1. j \in 1..Len(clientIn[k]) /\ clientIn'[k][j] = clientIn[k][j]
      BY <1>0, <1>m, <1>r, <2>1, <2>4, <2>5
    <3> QED BY <2>1, <2>2, <2>5, <3>1
  <2> QED BY <2>1, <2>2, <2>5
<1>8. SlotWaits'
  <2> SUFFICES ASSUME NEW k \in Light, slot'[k].id # 0
               PROVE  \/ slot'[k].id \in Live /\ (Owns(k, slot[k].id))'
                      \/ \E i \in 1..Len(Answers) :
                            Ends(Answers[i]) /\ Answers[i].id = slot'[k].id /\ (Owns(k, slot[k].id))'
                      \/ \E i \in 1..Len(clientIn'[k]) : Ends(clientIn'[k][i])
    BY <1>0 DEF SlotWaits
  <2>1. CASE k = l BY <2>1, <1>m, <1>r
  <2>2. CASE k # l
    <3>1. slot'[k].id = slot[k].id /\ clientIn'[k] = clientIn[k] BY <2>2, <1>0
    <3>2. Owns(k, slot[k].id) => (Owns(k, slot[k].id))' BY <3>1, <1>0 DEF Owns, Known
    <3> QED BY <3>1, <3>2 DEF FlowInv, SlotWaits
  <2> QED BY <2>1, <2>2
<1> QED BY <1>1, <1>2, <1>3, <1>4, <1>5, <1>6, <1>7, <1>8 DEF FlowInv

\* A mailbox that got one message.
LEMMA MailToFacts ==
    ASSUME TypeOK, NEW l \in Light, NEW m, MailTo(l, m)
    PROVE  /\ Len(clientIn'[l]) \in Nat /\ clientIn'[l][Len(clientIn'[l])] = m
           /\ Len(clientIn'[l]) \in 1..Len(clientIn'[l])
           /\ \A i \in 1..Len(clientIn'[l]) :
                 \/ i \in 1..Len(clientIn[l]) /\ clientIn'[l][i] = clientIn[l][i]
                 \/ i = Len(clientIn'[l]) /\ clientIn'[l][i] = m
           /\ \A i \in 1..Len(clientIn[l]) :
                 i \in 1..Len(clientIn'[l]) /\ clientIn'[l][i] = clientIn[l][i] /\ i < Len(clientIn'[l])
           /\ \A k \in Light : k # l => clientIn'[k] = clientIn[k]
<1>1. Len(clientIn[l]) \in Nat BY FlowTypes
<1>2. GrownBy(clientIn[l], clientIn'[l], <<m>>) /\ \A k \in Light : k # l => clientIn'[k] = clientIn[k]
  BY DEF MailTo
<1> QED BY <1>1, <1>2, GrownByOne

\* An order goes on the wire.
LEMMA ForwardedFlow ==
    ASSUME TypeOK, FlowInv, NEW l \in Light, Forwarded(l)
    PROVE  FlowInv'
<1>0. /\ Answers' = Answers /\ Live' = Live \cup {curr_id} /\ clientIn' = clientIn /\ curr_id' = curr_id + 1
      /\ slot[l].id = 0 /\ slot'[l].id = curr_id /\ curr_id \in Id
      /\ \A k \in Light : k # l => slot'[k].id = slot[k].id
      /\ DOMAIN orders' = DOMAIN orders \cup {curr_id}
      /\ \A id \in DOMAIN orders : orders'[id].client = orders[id].client
      /\ orders'[curr_id].client = l
  BY DEF Forwarded, SlotTaken, OwnerAdded
<1>t. /\ Len(Answers) \in Nat /\ curr_id \in Nat
      /\ \A i \in 1..Len(Answers) : Answers[i].id \in Id /\ Answers[i].id \in Nat
      /\ \A k \in Light : Len(clientIn[k]) \in Nat
      /\ \A k \in Light : \A i \in 1..Len(clientIn[k]) : clientIn[k][i].id \in Id /\ clientIn[k][i].id \in Nat
      /\ \A id \in DOMAIN orders : id \in Id /\ orders[id].client \in Light
      /\ \A id \in Id : id \in Nat /\ id # 0
      /\ Live \subseteq Id
  BY FlowTypes
<1>c. \A id \in DOMAIN orders : id < curr_id /\ id # curr_id
  <2>1. \A id \in DOMAIN orders : id < curr_id BY DEF FlowInv, IdsUsed
  <2> QED BY <2>1, <1>t
<1>a. \A i \in 1..Len(Answers) : Answers[i].id < curr_id /\ Answers[i].id # curr_id
  <2>1. \A i \in 1..Len(Answers) : Answers[i].id < curr_id BY DEF FlowInv, IdsUsed
  <2> QED BY <2>1, <1>t
<1>e. \A i \in 1..Len(clientIn[l]) : ~ Event(clientIn[l][i]) /\ ~ Ends(clientIn[l][i])
  BY <1>0, <1>t DEF FlowInv, MailOwned, Ends
<1>n. \A k \in Light : \A i \in 1..Len(clientIn[k]) : NotFound(clientIn[k][i]) => clientIn[k][i].id # curr_id
  <2> SUFFICES ASSUME NEW k \in Light, NEW i \in 1..Len(clientIn[k]), NotFound(clientIn[k][i])
               PROVE  clientIn[k][i].id # curr_id
    OBVIOUS
  <2>1. clientIn[k][i].id < curr_id BY DEF FlowInv, IdsUsed, NotFound
  <2> QED BY <2>1, <1>t
<1>1. IdsUsed'
  <2>1. ASSUME NEW id \in DOMAIN orders' PROVE id < curr_id'
    <3>1. CASE id \in DOMAIN orders
      <4>1. id < curr_id /\ id \in Nat BY <3>1, <1>c, <1>t
      <4> QED BY <4>1, <1>0, <1>t
    <3>2. CASE id = curr_id BY <3>2, <1>0, <1>t
    <3> QED BY <3>1, <3>2, <1>0
  <2>2. \A i \in 1..Len(Answers') : Answers'[i].id < curr_id' BY <1>0, <1>a, <1>t
  <2>3. ASSUME NEW k \in Light, NEW i \in 1..Len(clientIn[k]), clientIn[k][i].type # "REJECT"
        PROVE  clientIn[k][i].id < curr_id'
    <3>2. clientIn[k][i].id < curr_id BY <2>3 DEF FlowInv, IdsUsed
    <3> QED BY <1>0, <1>t, <3>2
  <2> QED BY <1>0, <2>1, <2>2, <2>3 DEF IdsUsed
<1>2. LiveOwned'
  <2> SUFFICES ASSUME NEW id \in Live \cup {curr_id}
               PROVE  id \in DOMAIN orders' /\ slot'[orders'[id].client].id = id
    BY <1>0 DEF LiveOwned, Known
  <2>1. CASE id \in Live
    <3>1. id \in DOMAIN orders /\ slot[orders[id].client].id = id BY <2>1 DEF FlowInv, LiveOwned, Known
    <3>2. orders[id].client # l BY <1>0, <1>t, <3>1
    <3> QED BY <1>0, <1>t, <3>1, <3>2
  <2>2. CASE id = curr_id BY <2>2, <1>0
  <2> QED BY <2>1, <2>2
<1>3. AnswerOwned'
  <2> SUFFICES ASSUME NEW i \in 1..Len(Answers), Event(Answers[i])
               PROVE  Answers[i].id \in DOMAIN orders' /\ slot'[orders'[Answers[i].id].client].id = Answers[i].id
    BY <1>0 DEF AnswerOwned, Known
  <2>1. Answers[i].id \in DOMAIN orders /\ slot[orders[Answers[i].id].client].id = Answers[i].id
    BY DEF FlowInv, AnswerOwned, Known
  <2>2. orders[Answers[i].id].client # l BY <1>0, <1>t, <2>1
  <2> QED BY <1>0, <1>t, <2>1, <2>2
<1>4. MailOwned'
  <2> SUFFICES ASSUME NEW k \in Light, NEW i \in 1..Len(clientIn[k]), Event(clientIn[k][i])
               PROVE  clientIn[k][i].id = slot'[k].id
    BY <1>0 DEF MailOwned
  <2>1. CASE k = l BY <2>1, <1>e
  <2>2. CASE k # l BY <2>2, <1>0 DEF FlowInv, MailOwned
  <2> QED BY <2>1, <2>2
<1>5. AnswerLast'
  <2> SUFFICES ASSUME NEW i \in 1..Len(Answers), Ends(Answers[i]) \/ NotFound(Answers[i])
               PROVE  /\ Answers[i].id \notin Live'
                      /\ \A j \in 1..Len(Answers) : i < j /\ Answers[j].id = Answers[i].id => ~ Event(Answers[j])
    BY <1>0 DEF AnswerLast
  <2> QED BY <1>0, <1>a DEF FlowInv, AnswerLast
<1>6. MailLast'
  <2> SUFFICES ASSUME NEW k \in Light, NEW i \in 1..Len(clientIn[k]), Ends(clientIn[k][i])
               PROVE  /\ \A j \in 1..Len(clientIn[k]) : i < j => ~ Event(clientIn[k][j])
                      /\ \A j \in 1..Len(Answers) : Event(Answers[j]) => ~ (Owns(k, Answers[j].id))'
                      /\ \A id \in Live' : ~ (Owns(k, id))'
    BY <1>0 DEF MailLast, Owns, Known
  <2>1. k # l BY <1>e
  <2>2. /\ \A j \in 1..Len(clientIn[k]) : i < j => ~ Event(clientIn[k][j])
        /\ \A j \in 1..Len(Answers) : Event(Answers[j]) => ~ Owns(k, Answers[j].id)
        /\ \A id \in Live : ~ Owns(k, id)
    BY DEF FlowInv, MailLast
  <2>3. ASSUME NEW j \in 1..Len(Answers), Event(Answers[j]) PROVE ~ (Owns(k, Answers[j].id))'
    <3>1. ~ Owns(k, Answers[j].id) BY <2>2, <2>3
    <3> QED BY <3>1, <1>0, <2>1 DEF Owns, Known
  <2>4. ASSUME NEW id \in Live' PROVE ~ (Owns(k, id))'
    <3>1. CASE id = curr_id BY <3>1, <1>0, <2>1 DEF Owns
    <3>2. CASE id # curr_id
      <4>1. ~ Owns(k, id) BY <1>0, <2>2, <3>2
      <4> QED BY <4>1, <1>0, <2>1 DEF Owns, Known
    <3> QED BY <3>1, <3>2
  <2> QED BY <2>2, <2>3, <2>4
<1>7. MailGone'
  <2> SUFFICES ASSUME NEW k \in Light, NEW i \in 1..Len(clientIn[k]), NotFound(clientIn[k][i])
               PROVE  /\ clientIn[k][i].id \notin Live'
                      /\ \A j \in 1..Len(Answers) : Answers[j].id = clientIn[k][i].id => ~ Event(Answers[j])
                      /\ \A j \in 1..Len(clientIn[k]) :
                            i < j /\ clientIn[k][j].id = clientIn[k][i].id => ~ Event(clientIn[k][j])
    BY <1>0 DEF MailGone
  <2> QED BY <1>0, <1>n DEF FlowInv, MailGone
<1>8. SlotWaits'
  <2> SUFFICES ASSUME NEW k \in Light, slot'[k].id # 0
               PROVE  \/ slot'[k].id \in Live' /\ (Owns(k, slot[k].id))'
                      \/ \E i \in 1..Len(Answers) :
                            Ends(Answers[i]) /\ Answers[i].id = slot'[k].id /\ (Owns(k, slot[k].id))'
                      \/ \E i \in 1..Len(clientIn[k]) : Ends(clientIn[k][i])
    BY <1>0 DEF SlotWaits
  <2>1. CASE k = l BY <2>1, <1>0 DEF Owns, Known
  <2>2. CASE k # l
    <3>1. slot'[k].id = slot[k].id BY <2>2, <1>0
    <3>2. Owns(k, slot[k].id) => (Owns(k, slot[k].id))' BY <3>1, <1>0 DEF Owns, Known
    <3>3. Live \subseteq Live' BY <1>0
    <3> QED BY <3>1, <3>2, <3>3 DEF FlowInv, SlotWaits
  <2> QED BY <2>1, <2>2
<1> QED BY <1>1, <1>2, <1>3, <1>4, <1>5, <1>6, <1>7, <1>8 DEF FlowInv

\* A light is told that its order is filled already.
LEMMA ToldFlow ==
    ASSUME TypeOK, FlowInv, NEW l \in Light, NEW m, Told(l, m)
    PROVE  FlowInv'
<1>0. /\ Answers' = Answers /\ Live' = Live /\ curr_id' = curr_id
      /\ DOMAIN orders' = DOMAIN orders
      /\ \A id \in DOMAIN orders : orders'[id].client = orders[id].client
      /\ \A k \in Light : slot'[k].id = slot[k].id
      /\ ~ Event(m) /\ ~ NotFound(m) /\ m.id < curr_id
      /\ ~ Ends(m)
  BY DEF Told, OwnersKept, SlotsKept, Ends
<1>m. \A k \in Light : \A i \in 1..Len(clientIn'[k]) :
          \/ i \in 1..Len(clientIn[k]) /\ clientIn'[k][i] = clientIn[k][i]
          \/ clientIn'[k][i] = m
  BY MailToFacts DEF Told
<1>n. \A k \in Light : \A i \in 1..Len(clientIn[k]) :
          i \in 1..Len(clientIn'[k]) /\ clientIn'[k][i] = clientIn[k][i]
  BY MailToFacts DEF Told
<1>t. \A id \in DOMAIN orders : orders[id].client \in Light BY FlowTypes
<1>1. IdsUsed'
  <2>1. \A k \in Light : \A i \in 1..Len(clientIn'[k]) :
            clientIn'[k][i].type # "REJECT" => clientIn'[k][i].id < curr_id'
    BY <1>0, <1>m DEF FlowInv, IdsUsed
  <2> QED BY <1>0, <2>1 DEF FlowInv, IdsUsed
<1>2. LiveOwned' BY <1>0, <1>t DEF FlowInv, LiveOwned, Known
<1>3. AnswerOwned' BY <1>0, <1>t DEF FlowInv, AnswerOwned, Known
<1>4. MailOwned' BY <1>0, <1>m DEF FlowInv, MailOwned
<1>5. AnswerLast' BY <1>0 DEF FlowInv, AnswerLast
<1>6. MailLast'
  <2> SUFFICES ASSUME NEW k \in Light, NEW i \in 1..Len(clientIn'[k]), Ends(clientIn'[k][i])
               PROVE  /\ \A j \in 1..Len(clientIn'[k]) : i < j => ~ Event(clientIn'[k][j])
                      /\ \A j \in 1..Len(Answers) : Event(Answers[j]) => ~ Owns(k, Answers[j].id)
                      /\ \A id \in Live : ~ Owns(k, id)
    BY <1>0 DEF MailLast, Owns, Known
  <2>1. i \in 1..Len(clientIn[k]) /\ clientIn'[k][i] = clientIn[k][i] BY <1>0, <1>m
  <2> QED BY <1>0, <1>m, <2>1 DEF FlowInv, MailLast
<1>7. MailGone'
  <2> SUFFICES ASSUME NEW k \in Light, NEW i \in 1..Len(clientIn'[k]), NotFound(clientIn'[k][i])
               PROVE  /\ clientIn'[k][i].id \notin Live
                      /\ \A j \in 1..Len(Answers) : Answers[j].id = clientIn'[k][i].id => ~ Event(Answers[j])
                      /\ \A j \in 1..Len(clientIn'[k]) :
                            i < j /\ clientIn'[k][j].id = clientIn'[k][i].id => ~ Event(clientIn'[k][j])
    BY <1>0 DEF MailGone
  <2>1. i \in 1..Len(clientIn[k]) /\ clientIn'[k][i] = clientIn[k][i] BY <1>0, <1>m
  <2> QED BY <1>0, <1>m, <2>1 DEF FlowInv, MailGone
<1>8. SlotWaits'
  <2> SUFFICES ASSUME NEW k \in Light, slot[k].id # 0
               PROVE  \/ slot[k].id \in Live /\ Owns(k, slot[k].id)
                      \/ \E i \in 1..Len(Answers) :
                            Ends(Answers[i]) /\ Answers[i].id = slot[k].id /\ Owns(k, slot[k].id)
                      \/ \E i \in 1..Len(clientIn'[k]) : Ends(clientIn'[k][i])
    BY <1>0 DEF SlotWaits, Owns, Known
  <2> QED BY <1>n DEF FlowInv, SlotWaits
<1> QED BY <1>1, <1>2, <1>3, <1>4, <1>5, <1>6, <1>7, <1>8 DEF FlowInv

\* The answers without the first.
LEMMA AnswersTail ==
    ASSUME TypeOK, Without(Answers, Answers', 1)
    PROVE  /\ 1 \in 1..Len(Answers) /\ Len(Answers') \in Nat
           /\ \A i \in 1..Len(Answers') : i + 1 \in 1..Len(Answers) /\ Answers'[i] = Answers[i + 1] /\ 1 < i + 1
           /\ \A i \in 1..Len(Answers) : i # 1 => i - 1 \in 1..Len(Answers') /\ Answers'[i - 1] = Answers[i]
<1>1. Len(Answers) \in Nat BY FlowTypes
<1>2. 1 \in 1..Len(Answers) BY DEF Without
<1>3. /\ Len(Answers') \in Nat
      /\ \A i \in 1..Len(Answers') : \/ i < 1 /\ i \in 1..Len(Answers) /\ Answers'[i] = Answers[i]
                                     \/ i >= 1 /\ i + 1 \in 1..Len(Answers) /\ Answers'[i] = Answers[i + 1]
      /\ \A i \in 1..Len(Answers) : \/ i < 1 /\ i \in 1..Len(Answers') /\ Answers'[i] = Answers[i]
                                    \/ i = 1
                                    \/ i > 1 /\ i - 1 \in 1..Len(Answers') /\ Answers'[i - 1] = Answers[i]
  BY <1>1, WithoutElement
<1>4. \A i \in 1..Len(Answers') : i + 1 \in 1..Len(Answers) /\ Answers'[i] = Answers[i + 1] /\ 1 < i + 1
  BY <1>3
<1>5. \A i \in 1..Len(Answers) : i # 1 => i - 1 \in 1..Len(Answers') /\ Answers'[i - 1] = Answers[i]
  BY <1>3
<1> QED BY <1>2, <1>3, <1>4, <1>5

\* The SOM passes an event on to the light that owns the order.
LEMMA DeliveredFlow ==
    ASSUME TypeOK, FlowInv, NEW l \in Light, NEW m, Delivered(l, m)
    PROVE  FlowInv'
<1>0. /\ Live' = Live /\ curr_id' = curr_id
      /\ \A k \in Light : slot'[k].id = slot[k].id
      /\ m = Answers[1] /\ Event(m) /\ m.id \in DOMAIN orders /\ orders[m.id].client = l
      /\ MailTo(l, m)
  BY DEF Delivered, SlotsKept, Owns, Known
<1>w. /\ 1 \in 1..Len(Answers) /\ Len(Answers') \in Nat
      /\ \A i \in 1..Len(Answers') : i + 1 \in 1..Len(Answers) /\ Answers'[i] = Answers[i + 1] /\ 1 < i + 1
      /\ \A i \in 1..Len(Answers) : i # 1 => i - 1 \in 1..Len(Answers') /\ Answers'[i - 1] = Answers[i]
  BY AnswersTail DEF Delivered
<1>o. /\ DOMAIN orders' \subseteq DOMAIN orders
      /\ \A id \in DOMAIN orders' : orders'[id].client = orders[id].client
      /\ \A id \in DOMAIN orders : id # m.id \/ ~ Ends(m) => id \in DOMAIN orders'
  BY DEF Delivered, OwnersKept
<1>m. /\ Len(clientIn'[l]) \in Nat /\ clientIn'[l][Len(clientIn'[l])] = m
      /\ Len(clientIn'[l]) \in 1..Len(clientIn'[l])
      /\ \A i \in 1..Len(clientIn'[l]) :
            \/ i \in 1..Len(clientIn[l]) /\ clientIn'[l][i] = clientIn[l][i]
            \/ i = Len(clientIn'[l]) /\ clientIn'[l][i] = m
      /\ \A i \in 1..Len(clientIn[l]) :
            i \in 1..Len(clientIn'[l]) /\ clientIn'[l][i] = clientIn[l][i] /\ i < Len(clientIn'[l])
      /\ \A k \in Light : k # l => clientIn'[k] = clientIn[k]
  BY <1>0, MailToFacts
<1>t. /\ Len(Answers) \in Nat /\ curr_id \in Nat
      /\ \A i \in 1..Len(Answers) : Answers[i].id \in Id /\ Answers[i].id \in Nat
      /\ \A id \in DOMAIN orders : id \in Id /\ orders[id].client \in Light
      /\ \A id \in Id : id \in Nat /\ id # 0
  BY FlowTypes
<1>s. slot[l].id = m.id /\ m.id \in Id BY <1>0, <1>w, <1>t DEF FlowInv, AnswerOwned
<1>l. Ends(m) => m.id \notin Live BY <1>0, <1>w DEF FlowInv, AnswerLast
<1>k. \A i \in 1..Len(Answers') : Event(Answers'[i]) => ~ (Ends(m) /\ Answers'[i].id = m.id)
  BY <1>0, <1>w DEF FlowInv, AnswerLast
<1>x. ~ \E i \in 1..Len(clientIn[l]) : Ends(clientIn[l][i])
  BY <1>0, <1>w DEF FlowInv, MailLast, Owns, Known
<1>1. IdsUsed'
  <2>1. \A id \in DOMAIN orders' : id < curr_id' BY <1>0, <1>o DEF FlowInv, IdsUsed
  <2>2. \A i \in 1..Len(Answers') : Answers'[i].id < curr_id' BY <1>0, <1>w DEF FlowInv, IdsUsed
  <2>3. ASSUME NEW k \in Light, NEW i \in 1..Len(clientIn'[k]), clientIn'[k][i].type # "REJECT"
        PROVE  clientIn'[k][i].id < curr_id'
    <3>1. m.id < curr_id BY <1>0, <1>w DEF FlowInv, IdsUsed
    <3> QED BY <1>0, <1>m, <2>3, <3>1 DEF FlowInv, IdsUsed
  <2> QED BY <2>1, <2>2, <2>3 DEF IdsUsed
<1>2. LiveOwned'
  <2> SUFFICES ASSUME NEW id \in Live
               PROVE  id \in DOMAIN orders' /\ slot[orders'[id].client].id = id
    BY <1>0, <1>o, <1>t DEF LiveOwned, Known
  <2>1. id \in DOMAIN orders /\ slot[orders[id].client].id = id BY DEF FlowInv, LiveOwned, Known
  <2> QED BY <1>o, <1>l, <2>1
<1>3. AnswerOwned'
  <2> SUFFICES ASSUME NEW i \in 1..Len(Answers'), Event(Answers'[i])
               PROVE  Answers'[i].id \in DOMAIN orders' /\ slot[orders'[Answers'[i].id].client].id = Answers'[i].id
    BY <1>0, <1>o, <1>t DEF AnswerOwned, Known
  <2>1. Answers'[i].id \in DOMAIN orders /\ slot[orders[Answers'[i].id].client].id = Answers'[i].id
    BY <1>w DEF FlowInv, AnswerOwned, Known
  <2> QED BY <1>o, <1>k, <2>1
<1>4. MailOwned'
  <2> SUFFICES ASSUME NEW k \in Light, NEW i \in 1..Len(clientIn'[k]), Event(clientIn'[k][i])
               PROVE  clientIn'[k][i].id = slot[k].id
    BY <1>0 DEF MailOwned, Event
  <2>0. MailOwned BY DEF FlowInv
  <2>1. CASE k # l BY <1>m, <2>0, <2>1 DEF MailOwned
  <2>2. CASE k = l BY <1>m, <1>s, <2>0, <2>2 DEF MailOwned
  <2> QED BY <2>1, <2>2
<1>5. AnswerLast'
  <2> SUFFICES ASSUME NEW i \in 1..Len(Answers'), Ends(Answers'[i]) \/ NotFound(Answers'[i])
               PROVE  /\ Answers'[i].id \notin Live
                      /\ \A j \in 1..Len(Answers') : i < j /\ Answers'[j].id = Answers'[i].id => ~ Event(Answers'[j])
    BY <1>0 DEF AnswerLast
  <2>1. i + 1 \in 1..Len(Answers) /\ Answers'[i] = Answers[i + 1] BY <1>w
  <2>2. /\ Answers[i + 1].id \notin Live
        /\ \A j \in 1..Len(Answers) : i + 1 < j /\ Answers[j].id = Answers[i + 1].id => ~ Event(Answers[j])
    BY <2>1 DEF FlowInv, AnswerLast
  <2>3. ASSUME NEW j \in 1..Len(Answers'), i < j, Answers'[j].id = Answers'[i].id PROVE ~ Event(Answers'[j])
    <3>1. j + 1 \in 1..Len(Answers) /\ Answers'[j] = Answers[j + 1] /\ i + 1 < j + 1 BY <1>w, <2>3
    <3> QED BY <2>1, <2>2, <2>3, <3>1
  <2> QED BY <2>1, <2>2, <2>3
<1>6. MailLast'
  <2> SUFFICES ASSUME NEW k \in Light, NEW i \in 1..Len(clientIn'[k]), Ends(clientIn'[k][i])
               PROVE  /\ \A j \in 1..Len(clientIn'[k]) : i < j => ~ Event(clientIn'[k][j])
                      /\ \A j \in 1..Len(Answers') : Event(Answers'[j]) => ~ Owns(k, Answers'[j].id)
                      /\ \A id \in Live : ~ Owns(k, id)
    BY <1>0, <1>o DEF MailLast, Owns, Known
  <2>1. CASE k = l
    <3>1. i = Len(clientIn'[l]) /\ Ends(m) BY <2>1, <1>m, <1>x
    <3>2. \A j \in 1..Len(clientIn'[k]) : i < j => ~ Event(clientIn'[k][j]) BY <2>1, <3>1, <1>m
    <3>3. ASSUME NEW j \in 1..Len(Answers'), Event(Answers'[j]) PROVE ~ Owns(k, Answers'[j].id)
      <4>0. j + 1 \in 1..Len(Answers) /\ Answers'[j] = Answers[j + 1] BY <1>w
      <4>1. slot[orders[Answers'[j].id].client].id = Answers'[j].id
        BY <4>0, <3>3 DEF FlowInv, AnswerOwned
      <4> QED BY <2>1, <3>1, <3>3, <4>1, <1>k, <1>s DEF Owns
    <3>4. ASSUME NEW id \in Live PROVE ~ Owns(k, id)
      <4>1. slot[orders[id].client].id = id BY DEF FlowInv, LiveOwned
      <4> QED BY <2>1, <3>1, <4>1, <1>l, <1>s DEF Owns
    <3> QED BY <3>2, <3>3, <3>4
  <2>2. CASE k # l
    <3>1. clientIn'[k] = clientIn[k] BY <2>2, <1>m
    <3>2. /\ \A j \in 1..Len(clientIn[k]) : i < j => ~ Event(clientIn[k][j])
          /\ \A j \in 1..Len(Answers) : Event(Answers[j]) => ~ Owns(k, Answers[j].id)
          /\ \A id \in Live : ~ Owns(k, id)
      BY <3>1 DEF FlowInv, MailLast
    <3>3. \A j \in 1..Len(clientIn'[k]) : i < j => ~ Event(clientIn'[k][j]) BY <3>1, <3>2
    <3>4. \A j \in 1..Len(Answers') : Event(Answers'[j]) => ~ Owns(k, Answers'[j].id) BY <3>2, <1>w
    <3> QED BY <3>2, <3>3, <3>4
  <2> QED BY <2>1, <2>2
<1>7. MailGone'
  <2> SUFFICES ASSUME NEW k \in Light, NEW i \in 1..Len(clientIn'[k]), NotFound(clientIn'[k][i])
               PROVE  /\ clientIn'[k][i].id \notin Live
                      /\ \A j \in 1..Len(Answers') : Answers'[j].id = clientIn'[k][i].id => ~ Event(Answers'[j])
                      /\ \A j \in 1..Len(clientIn'[k]) :
                            i < j /\ clientIn'[k][j].id = clientIn'[k][i].id => ~ Event(clientIn'[k][j])
    BY <1>0 DEF MailGone
  <2>0. ~ NotFound(m) BY <1>0 DEF NotFound, Event
  <2>1. i \in 1..Len(clientIn[k]) /\ clientIn'[k][i] = clientIn[k][i] BY <1>m, <2>0
  <2>2. /\ clientIn[k][i].id \notin Live
        /\ \A j \in 1..Len(Answers) : Answers[j].id = clientIn[k][i].id => ~ Event(Answers[j])
        /\ \A j \in 1..Len(clientIn[k]) :
              i < j /\ clientIn[k][j].id = clientIn[k][i].id => ~ Event(clientIn[k][j])
    BY <2>1 DEF FlowInv, MailGone
  <2>3. clientIn[k][i].id # m.id BY <1>0, <1>w, <2>2
  <2>4. ASSUME NEW j \in 1..Len(clientIn'[k]), i < j, clientIn'[k][j].id = clientIn'[k][i].id
        PROVE  ~ Event(clientIn'[k][j])
    <3>1. j \in 1..Len(clientIn[k]) /\ clientIn'[k][j] = clientIn[k][j]
      BY <1>m, <2>1, <2>3, <2>4
    <3> QED BY <2>1, <2>2, <2>4, <3>1
  <2>5. \A j \in 1..Len(Answers') : Answers'[j].id = clientIn'[k][i].id => ~ Event(Answers'[j])
    BY <2>1, <2>2, <1>w
  <2> QED BY <2>1, <2>2, <2>4, <2>5
<1>8. SlotWaits'
  <2> SUFFICES ASSUME NEW k \in Light, slot[k].id # 0
               PROVE  \/ slot[k].id \in Live /\ slot[k].id \in DOMAIN orders' /\ orders'[slot[k].id].client = k
                      \/ \E i \in 1..Len(Answers') :
                            /\ Ends(Answers'[i]) /\ Answers'[i].id = slot[k].id
                            /\ slot[k].id \in DOMAIN orders' /\ orders'[slot[k].id].client = k
                      \/ \E i \in 1..Len(clientIn'[k]) : Ends(clientIn'[k][i])
    BY <1>0 DEF SlotWaits, Owns, Known
  <2>1. \/ slot[k].id \in Live /\ Owns(k, slot[k].id)
        \/ \E i \in 1..Len(Answers) :
              Ends(Answers[i]) /\ Answers[i].id = slot[k].id /\ Owns(k, slot[k].id)
        \/ \E i \in 1..Len(clientIn[k]) : Ends(clientIn[k][i])
    BY DEF FlowInv, SlotWaits
  <2>2. CASE slot[k].id \in Live /\ Owns(k, slot[k].id)
    BY <2>2, <1>o, <1>l DEF Owns, Known
  <2>3. CASE \E i \in 1..Len(clientIn[k]) : Ends(clientIn[k][i])
    <3>1. PICK i \in 1..Len(clientIn[k]) : Ends(clientIn[k][i]) BY <2>3
    <3>2. k # l BY <3>1, <1>x
    <3>3. clientIn'[k] = clientIn[k] BY <3>2, <1>m
    <3> QED BY <3>1, <3>3
  <2>4. ASSUME NEW i \in 1..Len(Answers), Ends(Answers[i]), Answers[i].id = slot[k].id, Owns(k, slot[k].id)
        PROVE  \/ \E j \in 1..Len(Answers') :
                     /\ Ends(Answers'[j]) /\ Answers'[j].id = slot[k].id
                     /\ slot[k].id \in DOMAIN orders' /\ orders'[slot[k].id].client = k
               \/ \E j \in 1..Len(clientIn'[k]) : Ends(clientIn'[k][j])
    <3>1. CASE i = 1
      <4>1. k = l BY <3>1, <2>4, <1>0 DEF Owns
      <4> QED BY <3>1, <2>4, <4>1, <1>0, <1>m
    <3>2. CASE i # 1
      <4>1. i - 1 \in 1..Len(Answers') /\ Answers'[i - 1] = Answers[i] BY <3>2, <1>w
      <4>2. Event(Answers'[i - 1]) BY <4>1, <2>4 DEF Ends
      <4>3. slot[k].id \in DOMAIN orders' BY <4>1, <4>2, <2>4, <1>k, <1>o DEF Owns, Known
      <4> QED BY <4>1, <4>3, <2>4, <1>o DEF Owns
    <3> QED BY <3>1, <3>2
  <2> QED BY <2>1, <2>2, <2>3, <2>4
<1> QED BY <1>1, <1>2, <1>3, <1>4, <1>5, <1>6, <1>7, <1>8 DEF FlowInv

\* An answer that is no event goes by.
LEMMA PassedFlow ==
    ASSUME TypeOK, FlowInv, Passed
    PROVE  FlowInv'
<1>0. /\ Live' = Live /\ curr_id' = curr_id
      /\ DOMAIN orders' = DOMAIN orders
      /\ \A id \in DOMAIN orders : orders'[id].client = orders[id].client
      /\ \A k \in Light : slot'[k].id = slot[k].id
      /\ ~ Event(Answers[1]) /\ ~ Ends(Answers[1])
  BY DEF Passed, SlotsKept, OwnersKept, Ends
<1>w. /\ 1 \in 1..Len(Answers) /\ Len(Answers') \in Nat
      /\ \A i \in 1..Len(Answers') : i + 1 \in 1..Len(Answers) /\ Answers'[i] = Answers[i + 1] /\ 1 < i + 1
      /\ \A i \in 1..Len(Answers) : i # 1 => i - 1 \in 1..Len(Answers') /\ Answers'[i - 1] = Answers[i]
  BY AnswersTail DEF Passed
<1>t. /\ Len(Answers) \in Nat /\ curr_id \in Nat
      /\ \A id \in DOMAIN orders : orders[id].client \in Light
      /\ \A k \in Light : Len(clientIn[k]) \in Nat
  BY FlowTypes
<1>m. \A k \in Light : \A i \in 1..Len(clientIn'[k]) :
          \/ i \in 1..Len(clientIn[k]) /\ clientIn'[k][i] = clientIn[k][i]
          \/ /\ clientIn'[k][i].id = Answers[1].id /\ ~ Event(clientIn'[k][i])
             /\ NotFound(clientIn'[k][i]) => NotFound(Answers[1])
             /\ \A j \in 1..Len(clientIn'[k]) : ~ (i < j)
  <2>1. CASE clientIn' = clientIn BY <2>1
  <2>2. ASSUME NEW l \in Light, NEW n \in Msg,
               MailTo(l, n), n.id = Answers[1].id, ~ Event(n), NotFound(n) => NotFound(Answers[1])
        PROVE  \A k \in Light : \A i \in 1..Len(clientIn'[k]) :
                  \/ i \in 1..Len(clientIn[k]) /\ clientIn'[k][i] = clientIn[k][i]
                  \/ /\ clientIn'[k][i].id = Answers[1].id /\ ~ Event(clientIn'[k][i])
                     /\ NotFound(clientIn'[k][i]) => NotFound(Answers[1])
                     /\ \A j \in 1..Len(clientIn'[k]) : ~ (i < j)
    BY <2>2, MailToFacts
  <2> QED BY <2>1, <2>2 DEF Passed
<1>n. \A k \in Light : \A i \in 1..Len(clientIn[k]) :
          i \in 1..Len(clientIn'[k]) /\ clientIn'[k][i] = clientIn[k][i]
  <2>1. CASE clientIn' = clientIn BY <2>1
  <2>2. CASE \E l \in Light, n \in Msg : MailTo(l, n) BY <2>2, MailToFacts
  <2> QED BY <2>1, <2>2 DEF Passed
<1>1. IdsUsed'
  <2>1. \A id \in DOMAIN orders' : id < curr_id' BY <1>0 DEF FlowInv, IdsUsed
  <2>2. \A i \in 1..Len(Answers') : Answers'[i].id < curr_id' BY <1>0, <1>w DEF FlowInv, IdsUsed
  <2>3. ASSUME NEW k \in Light, NEW i \in 1..Len(clientIn'[k]), clientIn'[k][i].type # "REJECT"
        PROVE  clientIn'[k][i].id < curr_id'
    BY <1>0, <1>w, <1>m, <2>3 DEF FlowInv, IdsUsed
  <2> QED BY <2>1, <2>2, <2>3 DEF IdsUsed
<1>2. LiveOwned' BY <1>0, <1>t DEF FlowInv, LiveOwned, Known
<1>3. AnswerOwned'
  <2> SUFFICES ASSUME NEW i \in 1..Len(Answers'), Event(Answers'[i])
               PROVE  Answers'[i].id \in DOMAIN orders /\ slot[orders[Answers'[i].id].client].id = Answers'[i].id
    BY <1>0, <1>t DEF AnswerOwned, Known
  <2>1. i + 1 \in 1..Len(Answers) /\ Answers'[i] = Answers[i + 1] BY <1>w
  <2> QED BY <2>1 DEF FlowInv, AnswerOwned, Known
<1>4. MailOwned' BY <1>0, <1>m DEF FlowInv, MailOwned
<1>5. AnswerLast'
  <2> SUFFICES ASSUME NEW i \in 1..Len(Answers'), Ends(Answers'[i]) \/ NotFound(Answers'[i])
               PROVE  /\ Answers'[i].id \notin Live
                      /\ \A j \in 1..Len(Answers') : i < j /\ Answers'[j].id = Answers'[i].id => ~ Event(Answers'[j])
    BY <1>0 DEF AnswerLast
  <2>1. i + 1 \in 1..Len(Answers) /\ Answers'[i] = Answers[i + 1] BY <1>w
  <2>2. /\ Answers[i + 1].id \notin Live
        /\ \A j \in 1..Len(Answers) : i + 1 < j /\ Answers[j].id = Answers[i + 1].id => ~ Event(Answers[j])
    BY <2>1 DEF FlowInv, AnswerLast
  <2>3. ASSUME NEW j \in 1..Len(Answers'), i < j, Answers'[j].id = Answers'[i].id PROVE ~ Event(Answers'[j])
    <3>1. j + 1 \in 1..Len(Answers) /\ Answers'[j] = Answers[j + 1] /\ i + 1 < j + 1 BY <1>w, <2>3
    <3> QED BY <2>1, <2>2, <2>3, <3>1
  <2> QED BY <2>1, <2>2, <2>3
<1>6. MailLast'
  <2> SUFFICES ASSUME NEW k \in Light, NEW i \in 1..Len(clientIn'[k]), Ends(clientIn'[k][i])
               PROVE  /\ \A j \in 1..Len(clientIn'[k]) : i < j => ~ Event(clientIn'[k][j])
                      /\ \A j \in 1..Len(Answers') : Event(Answers'[j]) => ~ Owns(k, Answers'[j].id)
                      /\ \A id \in Live : ~ Owns(k, id)
    BY <1>0 DEF MailLast, Owns, Known
  <2>1. i \in 1..Len(clientIn[k]) /\ clientIn'[k][i] = clientIn[k][i] BY <1>m DEF Ends
  <2>2. /\ \A j \in 1..Len(clientIn[k]) : i < j => ~ Event(clientIn[k][j])
        /\ \A j \in 1..Len(Answers) : Event(Answers[j]) => ~ Owns(k, Answers[j].id)
        /\ \A id \in Live : ~ Owns(k, id)
    BY <2>1 DEF FlowInv, MailLast
  <2>3. \A j \in 1..Len(clientIn'[k]) : i < j => ~ Event(clientIn'[k][j]) BY <1>m, <2>2
  <2>4. \A j \in 1..Len(Answers') : Event(Answers'[j]) => ~ Owns(k, Answers'[j].id) BY <1>w, <2>2
  <2> QED BY <2>2, <2>3, <2>4
<1>7. MailGone'
  <2> SUFFICES ASSUME NEW k \in Light, NEW i \in 1..Len(clientIn'[k]), NotFound(clientIn'[k][i])
               PROVE  /\ clientIn'[k][i].id \notin Live
                      /\ \A j \in 1..Len(Answers') : Answers'[j].id = clientIn'[k][i].id => ~ Event(Answers'[j])
                      /\ \A j \in 1..Len(clientIn'[k]) :
                            i < j /\ clientIn'[k][j].id = clientIn'[k][i].id => ~ Event(clientIn'[k][j])
    BY <1>0 DEF MailGone
  <2>1. CASE i \in 1..Len(clientIn[k]) /\ clientIn'[k][i] = clientIn[k][i]
    <3>2. /\ clientIn[k][i].id \notin Live
          /\ \A j \in 1..Len(Answers) : Answers[j].id = clientIn[k][i].id => ~ Event(Answers[j])
          /\ \A j \in 1..Len(clientIn[k]) :
                i < j /\ clientIn[k][j].id = clientIn[k][i].id => ~ Event(clientIn[k][j])
      BY <2>1 DEF FlowInv, MailGone
    <3>3. \A j \in 1..Len(clientIn'[k]) :
              i < j /\ clientIn'[k][j].id = clientIn'[k][i].id => ~ Event(clientIn'[k][j])
      BY <1>m, <2>1, <3>2
    <3>4. \A j \in 1..Len(Answers') : Answers'[j].id = clientIn'[k][i].id => ~ Event(Answers'[j])
      BY <1>w, <2>1, <3>2
    <3> QED BY <2>1, <3>2, <3>3, <3>4
  <2>2. CASE /\ clientIn'[k][i].id = Answers[1].id
             /\ NotFound(clientIn'[k][i]) => NotFound(Answers[1])
             /\ \A j \in 1..Len(clientIn'[k]) : ~ (i < j)
    <3>1. /\ Answers[1].id \notin Live
          /\ \A j \in 1..Len(Answers) : 1 < j /\ Answers[j].id = Answers[1].id => ~ Event(Answers[j])
      BY <1>w, <2>2 DEF FlowInv, AnswerLast
    <3>2. \A j \in 1..Len(Answers') : Answers'[j].id = clientIn'[k][i].id => ~ Event(Answers'[j])
      BY <1>w, <2>2, <3>1
    <3> QED BY <2>2, <3>1, <3>2
  <2> QED BY <1>m, <2>1, <2>2
<1>8. SlotWaits'
  <2> SUFFICES ASSUME NEW k \in Light, slot[k].id # 0
               PROVE  \/ slot[k].id \in Live /\ Owns(k, slot[k].id)
                      \/ \E i \in 1..Len(Answers') :
                            Ends(Answers'[i]) /\ Answers'[i].id = slot[k].id /\ Owns(k, slot[k].id)
                      \/ \E i \in 1..Len(clientIn'[k]) : Ends(clientIn'[k][i])
    BY <1>0 DEF SlotWaits, Owns, Known
  <2>1. \/ slot[k].id \in Live /\ Owns(k, slot[k].id)
        \/ \E i \in 1..Len(Answers) :
              Ends(Answers[i]) /\ Answers[i].id = slot[k].id /\ Owns(k, slot[k].id)
        \/ \E i \in 1..Len(clientIn[k]) : Ends(clientIn[k][i])
    BY DEF FlowInv, SlotWaits
  <2>2. ASSUME NEW i \in 1..Len(Answers), Ends(Answers[i])
        PROVE  \E j \in 1..Len(Answers') : Answers'[j] = Answers[i]
    <3>1. i # 1 BY <1>0, <2>2
    <3> QED BY <1>w, <3>1
  <2>3. CASE \E i \in 1..Len(Answers) :
              Ends(Answers[i]) /\ Answers[i].id = slot[k].id /\ Owns(k, slot[k].id)
    <3>1. PICK i \in 1..Len(Answers) : Ends(Answers[i]) /\ Answers[i].id = slot[k].id /\ Owns(k, slot[k].id)
      BY <2>3
    <3>2. PICK j \in 1..Len(Answers') : Answers'[j] = Answers[i] BY <2>2, <3>1
    <3> QED BY <3>1, <3>2
  <2> QED BY <1>n, <2>1, <2>3
<1> QED BY <1>1, <1>2, <1>3, <1>4, <1>5, <1>6, <1>7, <1>8 DEF FlowInv

\* A light reads its mail.
LEMMA TakenFlow ==
    ASSUME TypeOK, FlowInv, NEW l \in Light, Taken(l)
    PROVE  FlowInv'
<1>0. /\ Answers' = Answers /\ Live' = Live /\ curr_id' = curr_id
      /\ DOMAIN orders' = DOMAIN orders
      /\ \A id \in DOMAIN orders : orders'[id].client = orders[id].client
      /\ \A k \in Light : k # l => clientIn'[k] = clientIn[k] /\ slot'[k].id = slot[k].id
      /\ slot'[l].id = IF Ends(clientIn[l][1]) THEN 0 ELSE slot[l].id
      /\ Without(clientIn[l], clientIn'[l], 1)
  BY DEF Taken, OwnersKept
<1>t. /\ Len(clientIn[l]) \in Nat
      /\ \A id \in DOMAIN orders : orders[id].client \in Light
  BY FlowTypes
<1>1. /\ 1 \in 1..Len(clientIn[l]) /\ Len(clientIn'[l]) \in Nat
      /\ \A i \in 1..Len(clientIn'[l]) :
            i + 1 \in 1..Len(clientIn[l]) /\ clientIn'[l][i] = clientIn[l][i + 1] /\ 1 < i + 1
      /\ \A i \in 1..Len(clientIn[l]) :
            i # 1 => i - 1 \in 1..Len(clientIn'[l]) /\ clientIn'[l][i - 1] = clientIn[l][i]
  <2>1. 1 \in 1..Len(clientIn[l]) BY <1>0 DEF Without
  <2>2. /\ Len(clientIn'[l]) \in Nat
        /\ \A i \in 1..Len(clientIn'[l]) :
              \/ i < 1 /\ i \in 1..Len(clientIn[l]) /\ clientIn'[l][i] = clientIn[l][i]
              \/ i >= 1 /\ i + 1 \in 1..Len(clientIn[l]) /\ clientIn'[l][i] = clientIn[l][i + 1]
        /\ \A i \in 1..Len(clientIn[l]) :
              \/ i < 1 /\ i \in 1..Len(clientIn'[l]) /\ clientIn'[l][i] = clientIn[l][i]
              \/ i = 1
              \/ i > 1 /\ i - 1 \in 1..Len(clientIn'[l]) /\ clientIn'[l][i - 1] = clientIn[l][i]
    <3>1. Without(clientIn[l], clientIn'[l], 1) /\ Len(clientIn[l]) \in Nat BY <1>0, <1>t
    <3> QED BY <3>1, WithoutElement
  <2>3. \A i \in 1..Len(clientIn'[l]) :
            i + 1 \in 1..Len(clientIn[l]) /\ clientIn'[l][i] = clientIn[l][i + 1] /\ 1 < i + 1
    BY <2>2
  <2>4. \A i \in 1..Len(clientIn[l]) :
            i # 1 => i - 1 \in 1..Len(clientIn'[l]) /\ clientIn'[l][i - 1] = clientIn[l][i]
    BY <2>2
  <2> QED BY <2>1, <2>2, <2>3, <2>4
<1>e. Ends(clientIn[l][1]) =>
        /\ \A i \in 1..Len(clientIn'[l]) : ~ Event(clientIn'[l][i])
        /\ \A j \in 1..Len(Answers) : Event(Answers[j]) => ~ Owns(l, Answers[j].id)
        /\ \A id \in Live : ~ Owns(l, id)
  BY <1>1 DEF FlowInv, MailLast
<1>m. \A k \in Light : \A i \in 1..Len(clientIn'[k]) : \E j \in 1..Len(clientIn[k]) : clientIn'[k][i] = clientIn[k][j]
  <2> SUFFICES ASSUME NEW k \in Light, NEW i \in 1..Len(clientIn'[k])
               PROVE  \E j \in 1..Len(clientIn[k]) : clientIn'[k][i] = clientIn[k][j]
    OBVIOUS
  <2>1. CASE k = l BY <2>1, <1>1
  <2>2. CASE k # l BY <2>2, <1>0
  <2> QED BY <2>1, <2>2
<1>2. IdsUsed'
  <2>1. ASSUME NEW k \in Light, NEW i \in 1..Len(clientIn'[k]), clientIn'[k][i].type # "REJECT"
        PROVE  clientIn'[k][i].id < curr_id'
    <3>1. PICK j \in 1..Len(clientIn[k]) : clientIn'[k][i] = clientIn[k][j] BY <1>m
    <3> QED BY <1>0, <2>1, <3>1 DEF FlowInv, IdsUsed
  <2> QED BY <1>0, <2>1 DEF FlowInv, IdsUsed
<1>3. LiveOwned'
  <2> SUFFICES ASSUME NEW id \in Live
               PROVE  id \in DOMAIN orders /\ slot'[orders[id].client].id = id
    BY <1>0 DEF LiveOwned, Known
  <2>1. id \in DOMAIN orders /\ slot[orders[id].client].id = id BY DEF FlowInv, LiveOwned, Known
  <2>2. Ends(clientIn[l][1]) => orders[id].client # l BY <1>e, <2>1 DEF Owns, Known
  <2> QED BY <1>0, <1>t, <2>1, <2>2
<1>4. AnswerOwned'
  <2> SUFFICES ASSUME NEW i \in 1..Len(Answers), Event(Answers[i])
               PROVE  Answers[i].id \in DOMAIN orders /\ slot'[orders[Answers[i].id].client].id = Answers[i].id
    BY <1>0 DEF AnswerOwned, Known
  <2>1. Answers[i].id \in DOMAIN orders /\ slot[orders[Answers[i].id].client].id = Answers[i].id
    BY DEF FlowInv, AnswerOwned, Known
  <2>2. Ends(clientIn[l][1]) => orders[Answers[i].id].client # l BY <1>e, <2>1 DEF Owns, Known
  <2> QED BY <1>0, <1>t, <2>1, <2>2
<1>5. MailOwned'
  <2> SUFFICES ASSUME NEW k \in Light, NEW i \in 1..Len(clientIn'[k]), Event(clientIn'[k][i])
               PROVE  clientIn'[k][i].id = slot'[k].id
    BY DEF MailOwned
  <2>1. PICK j \in 1..Len(clientIn[k]) : clientIn'[k][i] = clientIn[k][j] BY <1>m
  <2>2. clientIn[k][j].id = slot[k].id BY <2>1 DEF FlowInv, MailOwned
  <2>3. slot'[k].id = slot[k].id BY <1>0, <1>e
  <2> QED BY <2>1, <2>2, <2>3
<1>6. AnswerLast' BY <1>0 DEF FlowInv, AnswerLast
<1>7. MailLast'
  <2> SUFFICES ASSUME NEW k \in Light, NEW i \in 1..Len(clientIn'[k]), Ends(clientIn'[k][i])
               PROVE  /\ \A j \in 1..Len(clientIn'[k]) : i < j => ~ Event(clientIn'[k][j])
                      /\ \A j \in 1..Len(Answers) : Event(Answers[j]) => ~ Owns(k, Answers[j].id)
                      /\ \A id \in Live : ~ Owns(k, id)
    BY <1>0 DEF MailLast, Owns, Known
  <2>1. CASE k = l
    <3>1. i + 1 \in 1..Len(clientIn[l]) /\ clientIn'[l][i] = clientIn[l][i + 1] BY <2>1, <1>1
    <3>2. /\ \A j \in 1..Len(clientIn[l]) : i + 1 < j => ~ Event(clientIn[l][j])
          /\ \A j \in 1..Len(Answers) : Event(Answers[j]) => ~ Owns(l, Answers[j].id)
          /\ \A id \in Live : ~ Owns(l, id)
      BY <2>1, <3>1 DEF FlowInv, MailLast
    <3>3. ASSUME NEW j \in 1..Len(clientIn'[l]), i < j PROVE ~ Event(clientIn'[l][j])
      <4>1. j + 1 \in 1..Len(clientIn[l]) /\ clientIn'[l][j] = clientIn[l][j + 1] /\ i + 1 < j + 1
        BY <2>1, <1>1, <3>3
      <4> QED BY <3>2, <4>1
    <3> QED BY <2>1, <3>2, <3>3
  <2>2. CASE k # l
    <3>1. clientIn'[k] = clientIn[k] BY <2>2, <1>0
    <3> QED BY <3>1 DEF FlowInv, MailLast
  <2> QED BY <2>1, <2>2
<1>8. MailGone'
  <2> SUFFICES ASSUME NEW k \in Light, NEW i \in 1..Len(clientIn'[k]), NotFound(clientIn'[k][i])
               PROVE  /\ clientIn'[k][i].id \notin Live
                      /\ \A j \in 1..Len(Answers) : Answers[j].id = clientIn'[k][i].id => ~ Event(Answers[j])
                      /\ \A j \in 1..Len(clientIn'[k]) :
                            i < j /\ clientIn'[k][j].id = clientIn'[k][i].id => ~ Event(clientIn'[k][j])
    BY <1>0 DEF MailGone
  <2>1. CASE k = l
    <3>1. i + 1 \in 1..Len(clientIn[l]) /\ clientIn'[l][i] = clientIn[l][i + 1] BY <2>1, <1>1
    <3>2. /\ clientIn[l][i + 1].id \notin Live
          /\ \A j \in 1..Len(Answers) : Answers[j].id = clientIn[l][i + 1].id => ~ Event(Answers[j])
          /\ \A j \in 1..Len(clientIn[l]) :
                i + 1 < j /\ clientIn[l][j].id = clientIn[l][i + 1].id => ~ Event(clientIn[l][j])
      BY <2>1, <3>1 DEF FlowInv, MailGone
    <3>3. ASSUME NEW j \in 1..Len(clientIn'[l]), i < j, clientIn'[l][j].id = clientIn'[l][i].id
          PROVE  ~ Event(clientIn'[l][j])
      <4>1. j + 1 \in 1..Len(clientIn[l]) /\ clientIn'[l][j] = clientIn[l][j + 1] /\ i + 1 < j + 1
        BY <2>1, <1>1, <3>3
      <4> QED BY <3>1, <3>2, <3>3, <4>1
    <3> QED BY <2>1, <3>1, <3>2, <3>3
  <2>2. CASE k # l
    <3>1. clientIn'[k] = clientIn[k] BY <2>2, <1>0
    <3> QED BY <3>1 DEF FlowInv, MailGone
  <2> QED BY <2>1, <2>2
<1>9. SlotWaits'
  <2> SUFFICES ASSUME NEW k \in Light, slot'[k].id # 0
               PROVE  \/ slot'[k].id \in Live /\ Owns(k, slot'[k].id)
                      \/ \E i \in 1..Len(Answers) :
                            Ends(Answers[i]) /\ Answers[i].id = slot'[k].id /\ Owns(k, slot'[k].id)
                      \/ \E i \in 1..Len(clientIn'[k]) : Ends(clientIn'[k][i])
    BY <1>0 DEF SlotWaits, Owns, Known
  <2>1. slot'[k].id = slot[k].id /\ (k = l => ~ Ends(clientIn[l][1])) BY <1>0
  <2>2. \/ slot[k].id \in Live /\ Owns(k, slot[k].id)
        \/ \E i \in 1..Len(Answers) :
              Ends(Answers[i]) /\ Answers[i].id = slot[k].id /\ Owns(k, slot[k].id)
        \/ \E i \in 1..Len(clientIn[k]) : Ends(clientIn[k][i])
    BY <2>1 DEF FlowInv, SlotWaits
  <2>3. CASE \E i \in 1..Len(clientIn[k]) : Ends(clientIn[k][i])
    <3>1. PICK i \in 1..Len(clientIn[k]) : Ends(clientIn[k][i]) BY <2>3
    <3>2. CASE k = l
      <4>1. i # 1 BY <2>1, <3>1, <3>2
      <4> QED BY <3>1, <3>2, <4>1, <1>1
    <3>3. CASE k # l BY <3>1, <3>3, <1>0
    <3> QED BY <3>2, <3>3
  <2> QED BY <2>1, <2>2, <2>3
<1> QED BY <1>2, <1>3, <1>4, <1>5, <1>6, <1>7, <1>8, <1>9 DEF FlowInv

\* The book publishes reports.
LEMMA PublishedFlow ==
    ASSUME TypeOK, FlowInv, NEW s, Published(s)
    PROVE  FlowInv'
<1>0. /\ clientIn' = clientIn /\ curr_id' = curr_id
      /\ DOMAIN orders' = DOMAIN orders
      /\ \A id \in DOMAIN orders : orders'[id].client = orders[id].client
      /\ \A k \in Light : slot'[k].id = slot[k].id
      /\ Live' \subseteq Live
  BY DEF Published, OwnersKept, SlotsKept
<1>s. /\ GrownBy(Answers, Answers', s) /\ Len(s) \in Nat
      /\ \A i \in 1..Len(s) :
            /\ s[i].id < curr_id
            /\ Event(s[i]) => s[i].id \in Live
            /\ Ends(s[i]) \/ NotFound(s[i]) => s[i].id \notin Live'
      /\ \A i, j \in 1..Len(s) : s[i].id = s[j].id => i = j
      /\ \A id \in Live \ Live' : \E i \in 1..Len(s) : s[i].id = id /\ Ends(s[i])
  BY DEF Published
<1>t. /\ Len(Answers) \in Nat
      /\ \A id \in DOMAIN orders : orders[id].client \in Light
  BY FlowTypes
<1>g. /\ Len(Answers') \in Nat
      /\ \A i \in 1..Len(Answers') :
            \/ i \in 1..Len(Answers) /\ Answers'[i] = Answers[i]
            \/ i > Len(Answers) /\ i - Len(Answers) \in 1..Len(s) /\ Answers'[i] = s[i - Len(Answers)]
      /\ \A i \in 1..Len(Answers) : i \in 1..Len(Answers') /\ Answers'[i] = Answers[i]
      /\ \A i \in 1..Len(s) : Len(Answers) + i \in 1..Len(Answers') /\ Answers'[Len(Answers) + i] = s[i]
  <2>1. GrownBy(Answers, Answers', s) /\ Len(s) \in Nat /\ Len(Answers) \in Nat BY <1>s, <1>t
  <2> QED BY <2>1, GrownElement
<1>1. IdsUsed'
  <2>1. ASSUME NEW i \in 1..Len(Answers') PROVE Answers'[i].id < curr_id'
    BY <1>0, <1>s, <1>g DEF FlowInv, IdsUsed
  <2> QED BY <1>0, <2>1 DEF FlowInv, IdsUsed
<1>2. LiveOwned' BY <1>0, <1>t DEF FlowInv, LiveOwned, Known
<1>3. AnswerOwned'
  <2> SUFFICES ASSUME NEW i \in 1..Len(Answers'), Event(Answers'[i])
               PROVE  Answers'[i].id \in DOMAIN orders /\ slot[orders[Answers'[i].id].client].id = Answers'[i].id
    BY <1>0, <1>t DEF AnswerOwned, Known
  <2>1. CASE i \in 1..Len(Answers) /\ Answers'[i] = Answers[i]
    BY <2>1 DEF FlowInv, AnswerOwned, Known
  <2>2. CASE i - Len(Answers) \in 1..Len(s) /\ Answers'[i] = s[i - Len(Answers)]
    <3>1. Answers'[i].id \in Live BY <1>s, <2>2
    <3> QED BY <3>1 DEF FlowInv, LiveOwned, Known
  <2> QED BY <1>g, <2>1, <2>2
<1>4. MailOwned' BY <1>0 DEF FlowInv, MailOwned
<1>5. AnswerLast'
  <2> SUFFICES ASSUME NEW i \in 1..Len(Answers'), Ends(Answers'[i]) \/ NotFound(Answers'[i])
               PROVE  /\ Answers'[i].id \notin Live'
                      /\ \A j \in 1..Len(Answers') : i < j /\ Answers'[j].id = Answers'[i].id => ~ Event(Answers'[j])
    BY DEF AnswerLast
  <2>1. CASE i \in 1..Len(Answers) /\ Answers'[i] = Answers[i]
    <3>1. /\ Answers[i].id \notin Live
          /\ \A j \in 1..Len(Answers) : i < j /\ Answers[j].id = Answers[i].id => ~ Event(Answers[j])
      BY <2>1 DEF FlowInv, AnswerLast
    <3>2. ASSUME NEW j \in 1..Len(Answers'), i < j, Answers'[j].id = Answers'[i].id PROVE ~ Event(Answers'[j])
      <4>1. CASE j \in 1..Len(Answers) /\ Answers'[j] = Answers[j] BY <2>1, <3>1, <3>2, <4>1
      <4>2. CASE j - Len(Answers) \in 1..Len(s) /\ Answers'[j] = s[j - Len(Answers)]
        BY <1>s, <2>1, <3>1, <3>2, <4>2
      <4> QED BY <1>g, <4>1, <4>2
    <3> QED BY <1>0, <2>1, <3>1, <3>2
  <2>2. CASE i > Len(Answers) /\ i - Len(Answers) \in 1..Len(s) /\ Answers'[i] = s[i - Len(Answers)]
    <3>1. Answers'[i].id \notin Live' BY <1>s, <2>2
    <3>2. ASSUME NEW j \in 1..Len(Answers'), i < j, Answers'[j].id = Answers'[i].id PROVE FALSE
      <4>1. ~ (j \in 1..Len(Answers)) BY <1>t, <1>g, <2>2, <3>2
      <4>2. j - Len(Answers) \in 1..Len(s) /\ Answers'[j] = s[j - Len(Answers)] BY <1>g, <4>1
      <4>3. j - Len(Answers) = i - Len(Answers) BY <1>s, <2>2, <3>2, <4>2
      <4> QED BY <1>t, <1>g, <3>2, <4>3
    <3> QED BY <3>1, <3>2
  <2> QED BY <1>g, <2>1, <2>2
<1>6. MailLast'
  <2> SUFFICES ASSUME NEW k \in Light, NEW i \in 1..Len(clientIn[k]), Ends(clientIn[k][i])
               PROVE  /\ \A j \in 1..Len(clientIn[k]) : i < j => ~ Event(clientIn[k][j])
                      /\ \A j \in 1..Len(Answers') : Event(Answers'[j]) => ~ Owns(k, Answers'[j].id)
                      /\ \A id \in Live' : ~ Owns(k, id)
    BY <1>0 DEF MailLast, Owns, Known
  <2>1. /\ \A j \in 1..Len(clientIn[k]) : i < j => ~ Event(clientIn[k][j])
        /\ \A j \in 1..Len(Answers) : Event(Answers[j]) => ~ Owns(k, Answers[j].id)
        /\ \A id \in Live : ~ Owns(k, id)
    BY DEF FlowInv, MailLast
  <2>2. ASSUME NEW j \in 1..Len(Answers'), Event(Answers'[j]) PROVE ~ Owns(k, Answers'[j].id)
    <3>1. CASE j \in 1..Len(Answers) /\ Answers'[j] = Answers[j] BY <2>1, <2>2, <3>1
    <3>2. CASE j - Len(Answers) \in 1..Len(s) /\ Answers'[j] = s[j - Len(Answers)]
      <4>1. Answers'[j].id \in Live BY <1>s, <2>2, <3>2
      <4> QED BY <2>1, <4>1
    <3> QED BY <1>g, <3>1, <3>2
  <2> QED BY <1>0, <2>1, <2>2
<1>7. MailGone'
  <2> SUFFICES ASSUME NEW k \in Light, NEW i \in 1..Len(clientIn[k]), NotFound(clientIn[k][i])
               PROVE  /\ clientIn[k][i].id \notin Live'
                      /\ \A j \in 1..Len(Answers') : Answers'[j].id = clientIn[k][i].id => ~ Event(Answers'[j])
                      /\ \A j \in 1..Len(clientIn[k]) :
                            i < j /\ clientIn[k][j].id = clientIn[k][i].id => ~ Event(clientIn[k][j])
    BY <1>0 DEF MailGone
  <2>1. /\ clientIn[k][i].id \notin Live
        /\ \A j \in 1..Len(Answers) : Answers[j].id = clientIn[k][i].id => ~ Event(Answers[j])
        /\ \A j \in 1..Len(clientIn[k]) :
              i < j /\ clientIn[k][j].id = clientIn[k][i].id => ~ Event(clientIn[k][j])
    BY DEF FlowInv, MailGone
  <2>2. ASSUME NEW j \in 1..Len(Answers'), Answers'[j].id = clientIn[k][i].id PROVE ~ Event(Answers'[j])
    <3>1. CASE j \in 1..Len(Answers) /\ Answers'[j] = Answers[j] BY <2>1, <2>2, <3>1
    <3>2. CASE j - Len(Answers) \in 1..Len(s) /\ Answers'[j] = s[j - Len(Answers)]
      <4>1. Event(Answers'[j]) => Answers'[j].id \in Live BY <1>s, <3>2
      <4> QED BY <2>1, <2>2, <4>1
    <3> QED BY <1>g, <3>1, <3>2
  <2> QED BY <1>0, <2>1, <2>2
<1>8. SlotWaits'
  <2> SUFFICES ASSUME NEW k \in Light, slot[k].id # 0
               PROVE  \/ slot[k].id \in Live' /\ Owns(k, slot[k].id)
                      \/ \E i \in 1..Len(Answers') :
                            Ends(Answers'[i]) /\ Answers'[i].id = slot[k].id /\ Owns(k, slot[k].id)
                      \/ \E i \in 1..Len(clientIn[k]) : Ends(clientIn[k][i])
    BY <1>0 DEF SlotWaits, Owns, Known
  <2>1. \/ slot[k].id \in Live /\ Owns(k, slot[k].id)
        \/ \E i \in 1..Len(Answers) :
              Ends(Answers[i]) /\ Answers[i].id = slot[k].id /\ Owns(k, slot[k].id)
        \/ \E i \in 1..Len(clientIn[k]) : Ends(clientIn[k][i])
    BY DEF FlowInv, SlotWaits
  <2>2. CASE slot[k].id \in Live /\ Owns(k, slot[k].id) /\ slot[k].id \notin Live'
    <3>1. PICK i \in 1..Len(s) : s[i].id = slot[k].id /\ Ends(s[i]) BY <1>s, <2>2
    <3>2. Len(Answers) + i \in 1..Len(Answers') /\ Answers'[Len(Answers) + i] = s[i] BY <1>g
    <3> QED BY <2>2, <3>1, <3>2
  <2>3. CASE \E i \in 1..Len(Answers) :
                Ends(Answers[i]) /\ Answers[i].id = slot[k].id /\ Owns(k, slot[k].id)
    BY <1>g, <2>3
  <2> QED BY <2>1, <2>2, <2>3
<1> QED BY <1>1, <1>2, <1>3, <1>4, <1>5, <1>6, <1>7, <1>8 DEF FlowInv

-----------------------------------------------------------------------------
(* The wire *)

\* Id is that of an order on the wire.
OnTheWire(id) == \E i \in 1..Len(Wire) : Wire[i].type = "ADD" /\ Wire[i].id = id
LiveIs == \A id : id \in Live <=> id \in Id /\ (id \in DOMAIN resting \/ OnTheWire(id))

\* The live orders are those in the book or on the wire.
LEMMA LiveDef == TypeOK => LiveIs
<1> SUFFICES ASSUME TypeOK, NEW id PROVE id \in Live <=> id \in Id /\ (id \in DOMAIN resting \/ OnTheWire(id))
  BY DEF LiveIs
<1>1. DOMAIN Wire = 1..Len(Wire) BY Views
<1>2. OnWire(id) # {} <=> OnTheWire(id) BY <1>1 DEF OnWire, OnTheWire
<1> QED BY <1>2 DEF Live, AtVenue

\* An order is on the wire once, ahead of its cancels, and not in the book then.
WireInv ==
    /\ \A i \in 1..Len(Wire) : Wire[i].id < curr_id
    /\ \A id \in DOMAIN resting : id < curr_id
    /\ \A i \in 1..Len(Wire) : Wire[i].type = "ADD" => Wire[i].id \notin DOMAIN resting
    /\ \A i, j \in 1..Len(Wire) : i < j /\ Wire[i].id = Wire[j].id => Wire[j].type # "ADD"

\* An order is added.
LEMMA WireAdd ==
    ASSUME TypeOK, TypeOK', WireInv, NEW sz, curr_id \in Id,
           GrownBy(Wire, Wire', <<AddOrder(curr_id, sz)>>), resting' = resting, curr_id' = curr_id + 1
    PROVE  WireInv' /\ Live' = Live \cup {curr_id} /\ curr_id \notin Live
<1>0. LiveIs /\ LiveIs'
  <2>1. TypeOK' => LiveIs' BY LiveDef, PTL
  <2> QED BY <2>1, LiveDef
<1> DEFINE m == AddOrder(curr_id, sz)
<1>m. m.type = "ADD" /\ m.id = curr_id BY DEF AddOrder
<1>t. /\ Len(Wire) \in Nat /\ curr_id \in Nat
      /\ \A i \in 1..Len(Wire) : Wire[i].id \in Nat /\ Wire[i].id < curr_id /\ Wire[i].id # curr_id
      /\ \A id \in DOMAIN resting : id \in Nat /\ id < curr_id /\ id # curr_id
  <2>1. Len(Wire) \in Nat /\ curr_id \in Nat /\ \A id \in Id : id \in Nat BY FlowTypes, Views
  <2>2. \A i \in 1..Len(Wire) : Wire[i].id \in Id BY Views
  <2>3. DOMAIN resting \subseteq Id BY DEF TypeOK, VenueTypeOK
  <2>4. /\ \A i \in 1..Len(Wire) : Wire[i].id \in Nat /\ Wire[i].id < curr_id
        /\ \A id \in DOMAIN resting : id \in Nat /\ id < curr_id
    BY <2>1, <2>2, <2>3 DEF WireInv
  <2> QED BY <2>1, <2>4
<1> HIDE DEF m
<1>g. /\ Len(Wire') \in Nat /\ Len(Wire') = Len(Wire) + 1 /\ Len(Wire') \in 1..Len(Wire') /\ Wire'[Len(Wire')] = m
      /\ \A i \in 1..Len(Wire') : \/ i \in 1..Len(Wire) /\ Wire'[i] = Wire[i]
                                  \/ i = Len(Wire') /\ Wire'[i] = m
      /\ \A i \in 1..Len(Wire) : i \in 1..Len(Wire') /\ Wire'[i] = Wire[i] /\ i < Len(Wire')
  BY <1>t, GrownByOne DEF m
<1>1. ASSUME NEW i \in 1..Len(Wire') PROVE Wire'[i].id < curr_id' BY <1>t, <1>g, <1>m
<1>2. \A id \in DOMAIN resting' : id < curr_id' BY <1>t
<1>3. ASSUME NEW i \in 1..Len(Wire'), Wire'[i].type = "ADD" PROVE Wire'[i].id \notin DOMAIN resting'
  <2>1. CASE i \in 1..Len(Wire) /\ Wire'[i] = Wire[i] BY <1>3, <2>1 DEF WireInv
  <2>2. CASE Wire'[i] = m BY <1>m, <1>t, <2>2
  <2> QED BY <1>g, <2>1, <2>2
<1>4. ASSUME NEW i \in 1..Len(Wire'), NEW j \in 1..Len(Wire'), i < j, Wire'[i].id = Wire'[j].id
      PROVE  Wire'[j].type # "ADD"
  <2>1. i \in 1..Len(Wire) /\ Wire'[i] = Wire[i] BY <1>g, <1>4
  <2>2. j \in 1..Len(Wire) /\ Wire'[j] = Wire[j] BY <1>g, <1>4, <1>m, <1>t, <2>1
  <2> QED BY <1>4, <2>1, <2>2 DEF WireInv
<1>5. WireInv' BY <1>1, <1>2, <1>3, <1>4 DEF WireInv
<1>6. ASSUME NEW id PROVE OnTheWire(id)' <=> OnTheWire(id) \/ id = curr_id
  <2>1. CASE OnTheWire(id)
    <3>1. PICK i \in 1..Len(Wire) : Wire[i].type = "ADD" /\ Wire[i].id = id BY <2>1 DEF OnTheWire
    <3>2. i \in 1..Len(Wire') /\ Wire'[i].type = "ADD" /\ Wire'[i].id = id BY <1>g, <3>1
    <3> QED BY <2>1, <3>2 DEF OnTheWire
  <2>2. CASE id = curr_id BY <2>2, <1>g, <1>m DEF OnTheWire
  <2>3. CASE OnTheWire(id)'
    <3>1. PICK i \in 1..Len(Wire') : Wire'[i].type = "ADD" /\ Wire'[i].id = id BY <2>3 DEF OnTheWire
    <3> QED BY <1>g, <1>m, <2>3, <3>1 DEF OnTheWire
  <2> QED BY <2>1, <2>2, <2>3
<1>7. \A id : id \in Live' <=> id \in Live \/ id = curr_id
  <2> SUFFICES ASSUME NEW id PROVE id \in Live' <=> id \in Live \/ id = curr_id
    OBVIOUS
  <2>1. id \in Live <=> id \in Id /\ (id \in DOMAIN resting \/ OnTheWire(id)) BY <1>0 DEF LiveIs
  <2>2. id \in Live' <=> id \in Id /\ (id \in DOMAIN resting' \/ OnTheWire(id)') BY <1>0 DEF LiveIs
  <2> QED BY <2>1, <2>2, <1>6
<1>8. curr_id \notin Live BY <1>0, <1>t DEF LiveIs, OnTheWire
<1> QED BY <1>5, <1>7, <1>8

\* Cancels are added.
LEMMA WireCancel ==
    ASSUME TypeOK, TypeOK', WireInv, NEW s, GrownBy(Wire, Wire', s), Len(s) \in Nat,
           \A i \in 1..Len(s) : s[i].type = "CANC" /\ s[i].id < curr_id,
           resting' = resting, curr_id' = curr_id
    PROVE  WireInv' /\ Live' = Live
<1>0. LiveIs /\ LiveIs'
  <2>1. TypeOK' => LiveIs' BY LiveDef, PTL
  <2> QED BY <2>1, LiveDef
<1>t. Len(Wire) \in Nat BY Views
<1>g. /\ Len(Wire') \in Nat
      /\ \A i \in 1..Len(Wire') :
            \/ i \in 1..Len(Wire) /\ Wire'[i] = Wire[i]
            \/ i > Len(Wire) /\ i - Len(Wire) \in 1..Len(s) /\ Wire'[i] = s[i - Len(Wire)]
      /\ \A i \in 1..Len(Wire) : i \in 1..Len(Wire') /\ Wire'[i] = Wire[i]
  BY <1>t, GrownElement
<1>a. \A i \in 1..Len(Wire') : Wire'[i].type = "ADD" => i \in 1..Len(Wire) /\ Wire'[i] = Wire[i]
  BY <1>g
<1>1. \A i \in 1..Len(Wire') : Wire'[i].id < curr_id' BY <1>g DEF WireInv
<1>2. \A id \in DOMAIN resting' : id < curr_id' BY DEF WireInv
<1>3. \A i \in 1..Len(Wire') : Wire'[i].type = "ADD" => Wire'[i].id \notin DOMAIN resting'
  BY <1>a DEF WireInv
<1>4. ASSUME NEW i \in 1..Len(Wire'), NEW j \in 1..Len(Wire'), i < j, Wire'[i].id = Wire'[j].id, Wire'[j].type = "ADD"
      PROVE  FALSE
  <2>1. j \in 1..Len(Wire) /\ Wire'[j] = Wire[j] BY <1>a, <1>4
  <2>2. i \in 1..Len(Wire) BY <1>t, <1>g, <1>4, <2>1
  <2>3. Wire'[i] = Wire[i] BY <1>g, <2>2
  <2> QED BY <1>4, <2>1, <2>2, <2>3 DEF WireInv
<1>5. WireInv' BY <1>1, <1>2, <1>3, <1>4 DEF WireInv
<1>6. ASSUME NEW id PROVE OnTheWire(id)' <=> OnTheWire(id)
  <2>1. CASE OnTheWire(id)
    <3>1. PICK i \in 1..Len(Wire) : Wire[i].type = "ADD" /\ Wire[i].id = id BY <2>1 DEF OnTheWire
    <3>2. i \in 1..Len(Wire') /\ Wire'[i].type = "ADD" /\ Wire'[i].id = id BY <1>g, <3>1
    <3> QED BY <2>1, <3>2 DEF OnTheWire
  <2>2. CASE OnTheWire(id)'
    <3>1. PICK i \in 1..Len(Wire') : Wire'[i].type = "ADD" /\ Wire'[i].id = id BY <2>2 DEF OnTheWire
    <3> QED BY <1>a, <2>2, <3>1 DEF OnTheWire
  <2> QED BY <2>1, <2>2
<1>7. \A id : id \in Live' <=> id \in Live
  <2> SUFFICES ASSUME NEW id PROVE id \in Live' <=> id \in Live
    OBVIOUS
  <2>1. id \in Live <=> id \in Id /\ (id \in DOMAIN resting \/ OnTheWire(id)) BY <1>0 DEF LiveIs
  <2>2. id \in Live' <=> id \in Id /\ (id \in DOMAIN resting' \/ OnTheWire(id)') BY <1>0 DEF LiveIs
  <2> QED BY <2>1, <2>2, <1>6
<1> QED BY <1>5, <1>7

\* A message leaves the wire; what rests in the book is what rested before,
\* but for the order of the message.
LEMMA WireLeave ==
    ASSUME TypeOK, TypeOK', WireInv, NEW n, Without(Wire, Wire', n), curr_id' = curr_id,
           NEW mid, mid = Wire[n].id, NEW type, type = Wire[n].type,
           \A id : id # mid => (id \in DOMAIN resting' <=> id \in DOMAIN resting),
           n = 1 \/ DOMAIN resting' = DOMAIN resting
    PROVE  /\ WireInv' /\ mid \in Id
           /\ type # "ADD" /\ DOMAIN resting' = DOMAIN resting =>
                 Live' = Live /\ (n = 1 /\ mid \notin DOMAIN resting => mid \notin Live)
           /\ n = 1 /\ type = "ADD" /\ DOMAIN resting' = DOMAIN resting => Live' = Live \ {mid} /\ mid \in Live
           /\ n = 1 /\ type = "ADD" /\ mid \in DOMAIN resting' => Live' = Live /\ mid \in Live
           /\ n = 1 /\ type # "ADD" /\ mid \in DOMAIN resting /\ mid \notin DOMAIN resting' =>
                 Live' = Live \ {mid} /\ mid \in Live
<1>0. LiveIs /\ LiveIs'
  <2>1. TypeOK' => LiveIs' BY LiveDef, PTL
  <2> QED BY <2>1, LiveDef
<1>t. Len(Wire) \in Nat BY Views
<1>n. n \in 1..Len(Wire) /\ mid \in Id
  <2>1. n \in 1..Len(Wire) BY DEF Without
  <2> QED BY <2>1, Views
<1>g. /\ Len(Wire') \in Nat
      /\ \A i \in 1..Len(Wire') :
            \/ i < n /\ i \in 1..Len(Wire) /\ Wire'[i] = Wire[i]
            \/ i >= n /\ i + 1 \in 1..Len(Wire) /\ Wire'[i] = Wire[i + 1]
      /\ \A i \in 1..Len(Wire) :
            \/ i < n /\ i \in 1..Len(Wire') /\ Wire'[i] = Wire[i]
            \/ i = n
            \/ i > n /\ i - 1 \in 1..Len(Wire') /\ Wire'[i - 1] = Wire[i]
  BY <1>t, WithoutElement
<1>b. \A id \in DOMAIN resting' : id < curr_id'
  BY <1>n DEF WireInv
<1>1. \A i \in 1..Len(Wire') : Wire'[i].id < curr_id' BY <1>g DEF WireInv
<1>2. ASSUME NEW i \in 1..Len(Wire'), NEW j \in 1..Len(Wire'), i < j, Wire'[i].id = Wire'[j].id
      PROVE  Wire'[j].type # "ADD"
  <2>1. PICK a \in 1..Len(Wire) : Wire'[i] = Wire[a] /\ ((a = i /\ i < n) \/ (a = i + 1 /\ i >= n))
    BY <1>g
  <2>2. PICK b \in 1..Len(Wire) : Wire'[j] = Wire[b] /\ ((b = j /\ j < n) \/ (b = j + 1 /\ j >= n))
    BY <1>g
  <2>3. a < b BY <1>2, <2>1, <2>2, <1>n, <1>g, <1>t
  <2> QED BY <1>2, <2>1, <2>2, <2>3 DEF WireInv
<1>3. ASSUME NEW i \in 1..Len(Wire'), Wire'[i].type = "ADD" PROVE Wire'[i].id \notin DOMAIN resting'
  <2>1. PICK a \in 1..Len(Wire) : Wire'[i] = Wire[a] /\ (n = 1 => n < a)
    BY <1>g
  <2>2. Wire[a].id \notin DOMAIN resting BY <1>3, <2>1 DEF WireInv
  <2>3. CASE n = 1
    <3>1. n < a BY <2>1, <2>3
    <3>2. Wire[a].id # mid BY <1>n, <1>3, <2>1, <3>1 DEF WireInv
    <3> QED BY <2>1, <2>2, <3>2
  <2>4. CASE DOMAIN resting' = DOMAIN resting BY <2>1, <2>2, <2>4
  <2> QED BY <2>3, <2>4
<1>4. WireInv' BY <1>b, <1>1, <1>2, <1>3 DEF WireInv
<1>5. ASSUME NEW id, id # mid \/ type # "ADD" PROVE OnTheWire(id)' <=> OnTheWire(id)
  <2>1. CASE OnTheWire(id)
    <3>1. PICK i \in 1..Len(Wire) : Wire[i].type = "ADD" /\ Wire[i].id = id BY <2>1 DEF OnTheWire
    <3>2. i # n BY <1>5, <3>1
    <3>3. \E j \in 1..Len(Wire') : Wire'[j].type = "ADD" /\ Wire'[j].id = id BY <1>g, <3>1, <3>2
    <3> QED BY <2>1, <3>3 DEF OnTheWire
  <2>2. CASE OnTheWire(id)'
    <3>1. PICK i \in 1..Len(Wire') : Wire'[i].type = "ADD" /\ Wire'[i].id = id BY <2>2 DEF OnTheWire
    <3>2. \E j \in 1..Len(Wire) : Wire'[i] = Wire[j] BY <1>g
    <3> QED BY <2>2, <3>1, <3>2 DEF OnTheWire
  <2> QED BY <2>1, <2>2
<1>6. n = 1 => ~ OnTheWire(mid)'
  <2> SUFFICES ASSUME n = 1, NEW i \in 1..Len(Wire'), Wire'[i].type = "ADD", Wire'[i].id = mid PROVE FALSE
    BY DEF OnTheWire
  <2>1. i + 1 \in 1..Len(Wire) /\ Wire'[i] = Wire[i + 1] /\ 1 < i + 1 BY <1>g
  <2> QED BY <1>n, <2>1 DEF WireInv
<1>7. type = "ADD" => OnTheWire(mid) BY <1>n DEF OnTheWire
<1>8. n = 1 /\ type # "ADD" => ~ OnTheWire(mid) BY <1>5, <1>6
<1>9. ASSUME NEW id
      PROVE  /\ id \in Live <=> id \in Id /\ (id \in DOMAIN resting \/ OnTheWire(id))
             /\ id \in Live' <=> id \in Id /\ (id \in DOMAIN resting' \/ OnTheWire(id)')
  BY <1>0 DEF LiveIs
<1>10. type # "ADD" /\ DOMAIN resting' = DOMAIN resting =>
         Live' = Live /\ (n = 1 /\ mid \notin DOMAIN resting => mid \notin Live)
  BY <1>5, <1>8, <1>9
<1>11. ASSUME NEW id, id # mid PROVE id \in Live' <=> id \in Live BY <1>5, <1>9, <1>11
<1>12. n = 1 /\ type = "ADD" /\ DOMAIN resting' = DOMAIN resting => mid \notin Live' /\ mid \in Live
  <2> SUFFICES ASSUME n = 1, type = "ADD", DOMAIN resting' = DOMAIN resting PROVE mid \notin Live' /\ mid \in Live
    OBVIOUS
  <2>1. mid \notin DOMAIN resting BY <1>n DEF WireInv
  <2> QED BY <1>6, <1>7, <1>9, <1>n, <2>1
<1>13. n = 1 /\ type = "ADD" /\ mid \in DOMAIN resting' => mid \in Live' /\ mid \in Live
  BY <1>7, <1>9, <1>n
<1>14. n = 1 /\ type # "ADD" /\ mid \in DOMAIN resting /\ mid \notin DOMAIN resting' => mid \notin Live' /\ mid \in Live
  BY <1>6, <1>9, <1>n
<1>15. mid \notin Live' => Live' = Live \ {mid} BY <1>11
<1>16. mid \in Live' /\ mid \in Live => Live' = Live BY <1>11
<1> QED BY <1>4, <1>n, <1>10, <1>12, <1>13, <1>14, <1>15, <1>16

\* The wire stays as it is, and some orders leave the book.
LEMMA WireSame ==
    ASSUME TypeOK, TypeOK', WireInv, Wire' = Wire, curr_id' \in {curr_id, curr_id + 1},
           DOMAIN resting' \subseteq DOMAIN resting
    PROVE  WireInv' /\ Live' = Live \ (DOMAIN resting \ DOMAIN resting') /\ DOMAIN resting \subseteq Live
<1>0. LiveIs /\ LiveIs'
  <2>1. TypeOK' => LiveIs' BY LiveDef, PTL
  <2> QED BY <2>1, LiveDef
<1>1. WireInv'
  <2>1. curr_id \in Nat /\ (\A i \in 1..Len(Wire) : Wire[i].id \in Nat) /\ (\A id \in DOMAIN resting : id \in Nat)
    BY FlowTypes, Views DEF TypeOK, VenueTypeOK
  <2>2. \A i \in 1..Len(Wire) : Wire[i].id < curr_id' BY <2>1 DEF WireInv
  <2>3. \A id \in DOMAIN resting' : id < curr_id' BY <2>1 DEF WireInv
  <2> QED BY <2>2, <2>3 DEF WireInv
<1>2. \A id : OnTheWire(id)' <=> OnTheWire(id) BY DEF OnTheWire
<1>3. \A id \in DOMAIN resting : id \in Id /\ ~ OnTheWire(id)
  BY DEF TypeOK, VenueTypeOK, OnTheWire, WireInv
<1>4. ASSUME NEW id
      PROVE  /\ id \in Live <=> id \in Id /\ (id \in DOMAIN resting \/ OnTheWire(id))
             /\ id \in Live' <=> id \in Id /\ (id \in DOMAIN resting' \/ OnTheWire(id)')
  BY <1>0 DEF LiveIs
<1>5. \A id : id \in Live' <=> id \in Live /\ ~ (id \in DOMAIN resting /\ id \notin DOMAIN resting')
  BY <1>2, <1>3, <1>4
<1>6. DOMAIN resting \subseteq Live BY <1>3, <1>4
<1> QED BY <1>1, <1>5, <1>6

-----------------------------------------------------------------------------
(* Every step keeps the flow. *)

\* A light places an order.
LEMMA PlaceFlow ==
    ASSUME TypeInv, TypeOK', WireInv, FlowInv, NEW l \in Light, NEW sz \in Size, Place(l, sz)
    PROVE  WireInv' /\ FlowInv'
<1>0. TypeOK BY DEF TypeInv
<1>1. /\ Answers' = Answers
      /\ \/ ToClient(l, Reject(curr_id)) /\ Wire' = Wire /\ orders' = orders /\ curr_id' = curr_id
         \/ ToClient(l, Reject(curr_id)) /\ Wire' = Wire /\ Record(l, sz)
         \/ clientIn' = clientIn /\ GrownBy(Wire, Wire', <<AddOrder(curr_id, sz)>>) /\ Record(l, sz)
  BY PlaceType
<1>2. resting' = resting BY DEF Place, venueVars
<1>3. /\ curr_id \in Id /\ SlotTaken(l)
  <2>1. /\ slot[l] = Empty /\ slot[l].id = 0 /\ curr_id \in Id /\ curr_id # 0
        /\ slot'[l] = [id |-> curr_id, canc |-> FALSE]
        /\ \A k \in Light : k # l => slot'[k] = slot[k]
    BY SlotView
  <2> QED BY <2>1 DEF SlotTaken
<1>4. Record(l, sz) => OwnerAdded(l) /\ curr_id' = curr_id + 1
  <2> SUFFICES ASSUME Record(l, sz) PROVE OwnerAdded(l) /\ curr_id' = curr_id + 1
    OBVIOUS
  <2>1. /\ DOMAIN orders' = DOMAIN orders \cup {curr_id}
        /\ \A id \in DOMAIN orders \ {curr_id} : orders'[id] = orders[id]
        /\ orders'[curr_id] = [client |-> l, sz |-> sz, stbf |-> sz, filled |-> FALSE]
        /\ curr_id' = curr_id + 1
    BY <1>0, <1>3, RecordType
  <2>2. curr_id \notin DOMAIN orders
    <3>1. \A id \in DOMAIN orders : id < curr_id BY DEF FlowInv, IdsUsed
    <3>2. curr_id \in Nat BY <1>0, FlowTypes
    <3> QED BY <3>1, <3>2
  <2> QED BY <2>1, <2>2 DEF OwnerAdded
<1>5. ToClient(l, Reject(curr_id)) => MailTo(l, Reject(curr_id))
  <2>1. Reject(curr_id) \in Msg BY <1>3, MessageTypes
  <2> QED BY <1>0, <2>1, ToClientType DEF MailTo
<1>6. CASE ToClient(l, Reject(curr_id)) /\ Wire' = Wire
  <2>1. \/ OwnersKept /\ curr_id' = curr_id
        \/ OwnerAdded(l) /\ curr_id' = curr_id + 1
    BY <1>1, <1>4, <1>6 DEF OwnersKept
  <2>2. WireInv' /\ Live' = Live BY <1>0, <1>2, <1>6, <2>1, WireSame
  <2>3. Refused(l) BY <1>1, <1>3, <1>5, <1>6, <2>1, <2>2 DEF Refused
  <2> QED BY <1>0, <2>2, <2>3, RefusedFlow
<1>7. CASE clientIn' = clientIn /\ GrownBy(Wire, Wire', <<AddOrder(curr_id, sz)>>) /\ Record(l, sz)
  <2>1. OwnerAdded(l) /\ curr_id' = curr_id + 1 BY <1>4, <1>7
  <2>2. WireInv' /\ Live' = Live \cup {curr_id} BY <1>0, <1>2, <1>3, <1>7, <2>1, WireAdd
  <2>3. Forwarded(l) BY <1>1, <1>3, <1>7, <2>1, <2>2 DEF Forwarded
  <2> QED BY <1>0, <2>2, <2>3, ForwardedFlow
<1> QED BY <1>1, <1>6, <1>7

\* A cancel, of a light or of the console.
LEMMA CancFlow ==
    ASSUME TypeOK, TypeOK', WireInv, FlowInv, NEW id \in Id, NEW t \in BOOLEAN, canc_handler(id, t),
           del_q' = del_q, pub_q' = pub_q, resting' = resting, SlotsKept
    PROVE  WireInv' /\ FlowInv'
<1>1. /\ Answers' = Answers
      /\ \/ Wire' = Wire /\ clientIn' = clientIn
         \/ /\ Wire' = Wire /\ Known(id)
            /\ ToClient(orders[id].client, CancReject(id, "FILLEDALREADY"))
         \/ /\ clientIn' = clientIn /\ Known(id)
            /\ GrownBy(Wire, Wire', <<CancelOrder(id, t)>>)
  BY CancView
<1>2. orders' = orders /\ curr_id' = curr_id BY CancHandlerType
<1>3. OwnersKept BY <1>2 DEF OwnersKept
<1>4. Known(id) => id < curr_id /\ orders[id].client \in Light
  BY FlowTypes DEF FlowInv, IdsUsed, Known
<1>5. CASE Wire' = Wire /\ clientIn' = clientIn
  <2>1. WireInv' /\ Live' = Live BY <1>2, <1>5, WireSame
  <2>2. Quiet BY <1>1, <1>2, <1>3, <1>5, <2>1 DEF Quiet
  <2> QED BY <2>1, <2>2, QuietFlow
<1>6. CASE Wire' = Wire /\ Known(id) /\ ToClient(orders[id].client, CancReject(id, "FILLEDALREADY"))
  <2>1. WireInv' /\ Live' = Live BY <1>2, <1>6, WireSame
  <2> DEFINE m == CancReject(id, "FILLEDALREADY")
  <2>2. m \in Msg BY MessageTypes
  <2>3. ~ Event(m) /\ ~ NotFound(m) /\ m.id = id BY DEF CancReject, Event, NotFound
  <2> HIDE DEF m
  <2>4. MailTo(orders[id].client, m) BY <1>4, <1>6, <2>2, ToClientType DEF MailTo, m
  <2>5. Told(orders[id].client, m) BY <1>1, <1>2, <1>3, <1>4, <1>6, <2>1, <2>3, <2>4 DEF Told
  <2> QED BY <1>4, <1>6, <2>1, <2>5, ToldFlow
<1>7. CASE clientIn' = clientIn /\ Known(id) /\ GrownBy(Wire, Wire', <<CancelOrder(id, t)>>)
  <2> DEFINE s == <<CancelOrder(id, t)>>
  <2>1. Len(s) = 1 /\ s[1].type = "CANC" /\ s[1].id = id BY DEF CancelOrder
  <2>2. GrownBy(Wire, Wire', s) BY <1>7
  <2> HIDE DEF s
  <2>3. \A i \in 1..Len(s) : s[i].type = "CANC" /\ s[i].id < curr_id BY <1>4, <1>7, <2>1
  <2>4. WireInv' /\ Live' = Live BY <1>2, <2>1, <2>2, <2>3, WireCancel
  <2>5. Quiet BY <1>1, <1>2, <1>3, <1>7, <2>4 DEF Quiet
  <2> QED BY <2>4, <2>5, QuietFlow
<1> QED BY <1>1, <1>5, <1>6, <1>7

\* A light cancels, or OB::clear calls it.
LEMMA CancelFlow ==
    ASSUME TypeInv, TypeOK', WireInv, FlowInv, NEW l \in Light, Cancel(l) \/ ClearLight(l)
    PROVE  WireInv' /\ FlowInv'
<1>0. TypeOK BY DEF TypeInv
<1>1. /\ resting' = resting /\ del_q' = del_q /\ pub_q' = pub_q
      /\ cancel_order(l) \/ UNCHANGED <<lightVars, somVars, mailVars, aborted>>
  BY CancelType
<1>2. CASE cancel_order(l)
  <2>1. slot[l].id \in Id /\ canc_handler(slot[l].id, TRUE) BY <1>2, CancelOrderType
  <2>2. SlotsKept
    <3>1. /\ slot'[l] = [id |-> slot[l].id, canc |-> TRUE]
          /\ \A k \in Light : k # l => slot'[k] = slot[k]
      BY <1>2, SlotView
    <3> QED BY <3>1 DEF SlotsKept
  <2> QED BY <1>0, <1>1, <2>1, <2>2, CancFlow
<1>3. CASE UNCHANGED <<lightVars, somVars, mailVars, aborted>>
  <2>1. slot' = slot /\ obIn' = obIn /\ somIn' = somIn /\ clientIn' = clientIn /\ orders' = orders /\ curr_id' = curr_id
    BY <1>3 DEF lightVars, somVars, mailVars
  <2>2. Wire' = Wire /\ Answers' = Answers BY <1>1, <2>1 DEF Wire, Answers
  <2>3. WireInv' /\ Live' = Live BY <1>0, <1>1, <2>1, <2>2, WireSame
  <2>4. Quiet BY <2>1, <2>2, <2>3 DEF Quiet, OwnersKept, SlotsKept
  <2> QED BY <1>0, <2>3, <2>4, QuietFlow
<1> QED BY <1>1, <1>2, <1>3

\* The console.
LEMMA ConsoleFlow ==
    ASSUME TypeInv, TypeOK', WireInv, FlowInv, Console
    PROVE  WireInv' /\ FlowInv'
<1>0. TypeOK BY DEF TypeInv
<1>1. /\ slot' = slot /\ resting' = resting /\ del_q' = del_q /\ pub_q' = pub_q
      /\ orders' = orders /\ curr_id' = curr_id /\ somIn' = somIn
      /\ \/ \E id \in Id : canc_handler(id, FALSE)
         \/ /\ clientIn' = clientIn
            /\ \E s \in Seq(ObMsg) :
                  /\ GrownBy(Wire, Wire', s) /\ Len(s) \in Nat
                  /\ \A i \in 1..Len(s) : s[i].type = "CANC" /\ Known(s[i].id)
  BY ConsoleType DEF lightVars
<1>2. SlotsKept /\ OwnersKept BY <1>1 DEF SlotsKept, OwnersKept
<1>3. CASE \E id \in Id : canc_handler(id, FALSE)
  BY <1>0, <1>1, <1>2, <1>3, CancFlow
<1>4. ASSUME clientIn' = clientIn, NEW s \in Seq(ObMsg),
             GrownBy(Wire, Wire', s), Len(s) \in Nat, \A i \in 1..Len(s) : s[i].type = "CANC" /\ Known(s[i].id)
      PROVE  WireInv' /\ FlowInv'
  <2>1. \A i \in 1..Len(s) : s[i].type = "CANC" /\ s[i].id < curr_id
    BY <1>4 DEF FlowInv, IdsUsed, Known
  <2>2. WireInv' /\ Live' = Live BY <1>0, <1>1, <1>4, <2>1, WireCancel
  <2>3. Answers' = Answers BY <1>1 DEF Answers
  <2>4. Quiet BY <1>1, <1>2, <1>4, <2>2, <2>3 DEF Quiet
  <2> QED BY <1>0, <2>2, <2>4, QuietFlow
<1> QED BY <1>1, <1>3, <1>4

\* A light never finds its own order in a cancel reject that says NOTFOUND: that
\* order, or the end of it, would still be to come.
LEMMA NotFoundIsOld ==
    ASSUME TypeOK, FlowInv, NEW l \in Light, 1 \in 1..Len(clientIn[l]), NotFound(clientIn[l][1]),
           slot[l].id = clientIn[l][1].id
    PROVE  FALSE
<1>t. /\ clientIn[l][1].id # 0 /\ Len(clientIn[l]) \in Nat
  <2>1. Len(clientIn[l]) \in Nat /\ clientIn[l][1].id \in Id /\ \A id \in Id : id # 0 BY FlowTypes
  <2> QED BY <2>1
<1>1. /\ clientIn[l][1].id \notin Live
      /\ \A j \in 1..Len(Answers) : Answers[j].id = clientIn[l][1].id => ~ Event(Answers[j])
      /\ \A j \in 1..Len(clientIn[l]) :
            1 < j /\ clientIn[l][j].id = clientIn[l][1].id => ~ Event(clientIn[l][j])
  BY DEF FlowInv, MailGone
<1>2. \/ slot[l].id \in Live
      \/ \E i \in 1..Len(Answers) : Ends(Answers[i]) /\ Answers[i].id = slot[l].id
      \/ \E i \in 1..Len(clientIn[l]) : Ends(clientIn[l][i])
  BY <1>t DEF FlowInv, SlotWaits
<1>3. PICK i \in 1..Len(clientIn[l]) : Ends(clientIn[l][i]) BY <1>1, <1>2 DEF Ends
<1>4. Event(clientIn[l][i]) /\ clientIn[l][i].id = slot[l].id BY <1>3 DEF FlowInv, MailOwned, Ends
<1>5. ~ Event(clientIn[l][1]) BY DEF NotFound, Event
<1>6. i # 1 BY <1>4, <1>5
<1>7. 1 < i BY <1>6, <1>t
<1> QED BY <1>1, <1>4, <1>7

\* What a light does with a report.
LEMMA ReportTaken ==
    ASSUME TypeInv, FlowInv, NEW l \in Light, Report2Light(l), Live' = Live
    PROVE  Taken(l)
<1>0. TypeOK BY DEF TypeInv
<1>1. /\ Answers' = Answers /\ UNCHANGED somVars /\ \E t : Receive(l, t) BY ReportType
<1>2. PICK t : Receive(l, t) BY <1>1
<1> DEFINE m == Head(clientIn[l])
<1>3. /\ m \in Msg /\ m = clientIn[l][1] /\ m.type = t
      /\ Without(clientIn[l], clientIn'[l], 1)
      /\ \A k \in Light : k # l => clientIn'[k] = clientIn[k]
  BY <1>0, <1>2, ReceiveType
<1>4. 1 \in 1..Len(clientIn[l]) BY <1>3 DEF Without
<1>5. /\ slot'[l] \in {slot[l], Empty}
      /\ \A k \in Light : k # l => slot'[k] = slot[k]
  BY SlotView
<1>6. OwnersKept /\ curr_id' = curr_id BY <1>1 DEF OwnersKept, somVars
<1>7. LightReport(l) BY DEF Report2Light
<1>8. slot \in [Light -> [id : 0..MaxId, canc : BOOLEAN]] /\ Empty.id = 0
  BY <1>0 DEF TypeOK, LightTypeOK, Empty
<1>9. slot'[l].id = IF Ends(m) THEN 0 ELSE slot[l].id
  <2>1. CASE som_fill_handler(l)
    <3>1. m.type = "FILL" BY <2>1 DEF som_fill_handler, Receive
    <3>2. Ends(m) <=> m.stbf = 0 BY <3>1 DEF Ends, Event
    <3>3. slot' = IF m.stbf = 0 THEN [slot EXCEPT ![l] = Empty] ELSE slot
      BY <2>1 DEF som_fill_handler, ClearSlot
    <3> QED BY <1>8, <3>2, <3>3
  <2>2. CASE som_canc_ack_handler(l)
    <3>1. m.type = "CANCACK" BY <2>2 DEF som_canc_ack_handler, Receive
    <3>2. Event(m) /\ Ends(m) BY <3>1 DEF Ends, Event
    <3>3. slot[l].id = m.id BY <1>3, <1>4, <3>2 DEF FlowInv, MailOwned
    <3>4. m.id # 0
      <4>1. m.id \in Id BY <1>3, MsgFacts
      <4> QED BY <4>1, OrderAssumption DEF Id
    <3>5. slot[l] # Empty BY <1>8, <3>3, <3>4
    <3>6. slot' = [slot EXCEPT ![l] = Empty] BY <2>2, <3>3, <3>5 DEF som_canc_ack_handler, ClearSlot
    <3> QED BY <1>8, <3>2, <3>6
  <2>3. CASE som_cancrej_handler(l)
    <3>1. m.type = "CANCREJ" BY <2>3 DEF som_cancrej_handler, Receive
    <3>2. ~ Ends(m) BY <3>1 DEF Ends, Event
    <3>3. ~ (m.reason = "NOTFOUND" /\ slot[l].id = m.id)
      BY <1>0, <1>3, <1>4, <3>1, NotFoundIsOld DEF NotFound
    <3>4. slot' = slot BY <2>3, <3>3 DEF som_cancrej_handler, Abort
    <3> QED BY <3>2, <3>4
  <2>4. CASE som_reject_handler(l)
    <3>1. m.type = "REJECT" BY <2>4 DEF som_reject_handler, Receive
    <3>2. Ends(m) BY <3>1 DEF Ends, Event
    <3>3. slot' = [slot EXCEPT ![l] = Empty] BY <2>4 DEF som_reject_handler, ClearSlot
    <3> QED BY <1>8, <3>2, <3>3
  <2> QED BY <1>7, <2>1, <2>2, <2>3, <2>4 DEF LightReport
<1> QED BY <1>1, <1>3, <1>5, <1>6, <1>9 DEF Taken

\* The wire and the flow, when a light reads a report.
LEMMA ReportFlow ==
    ASSUME TypeInv, TypeOK', WireInv, FlowInv, NEW l \in Light, Report2Light(l)
    PROVE  WireInv' /\ FlowInv'
<1>0. TypeOK BY DEF TypeInv
<1>1. Wire' = Wire /\ resting' = resting /\ curr_id' = curr_id BY ReportType DEF venueVars, somVars
<1>2. WireInv' /\ Live' = Live BY <1>0, <1>1, WireSame
<1>3. Taken(l) BY <1>2, ReportTaken
<1> QED BY <1>0, <1>2, <1>3, TakenFlow

\* The SOM reads a report: an event goes to the owner, who is always known.
LEMMA SOMCases ==
    ASSUME TypeInv, FlowInv, Report2SOM, Live' = Live
    PROVE  \/ \E l \in Light : Delivered(l, Answers[1])
           \/ Passed
<1>0. TypeOK BY DEF TypeInv
<1>1. /\ Without(Answers, Answers', 1) /\ Head(somIn) = Answers[1] /\ Head(somIn) \in Report
      /\ slot' = slot /\ curr_id' = curr_id
  BY SOMType DEF lightVars
<1>2. SlotsKept BY <1>1 DEF SlotsKept
<1>3. SOMReport BY DEF Report2SOM
<1>4. 1 \in 1..Len(Answers) BY <1>1 DEF Without
<1> DEFINE m == Head(somIn)
<1>5. m \in Msg /\ m = Answers[1] /\ m.id \in Id
  <2>1. m \in Msg BY <1>1 DEF Msg
  <2> QED BY <1>1, <2>1, MsgFacts
<1>6. \A id \in DOMAIN orders : orders[id].client \in Light BY <1>0, FlowTypes
<1>7. Event(m) => m.id \in DOMAIN orders BY <1>4, <1>5 DEF FlowInv, AnswerOwned, Known
<1>8. CASE fill_handler
  <2>1. m.type = "FILL" BY <1>8 DEF fill_handler
  <2>2. Event(m) BY <2>1 DEF Event
  <2>3. Known(m.id) BY <1>7, <2>2 DEF Known
  <2>4. /\ orders' = [orders EXCEPT ![m.id].filled = (m.stbf = 0) \/ @, ![m.id].stbf = m.stbf]
        /\ ToClient(orders[m.id].client, m)
    BY <1>8, <2>3 DEF fill_handler
  <2>5. OwnersKept
    <3>1. DOMAIN orders' = DOMAIN orders BY <2>4
    <3>2. ASSUME NEW id \in DOMAIN orders PROVE orders'[id].client = orders[id].client
      <4>1. CASE id # m.id BY <2>4, <4>1
      <4>2. CASE id = m.id
        <5>1. orders[id] \in [client : Light, sz : Size, stbf : 0..MaxSize, filled : BOOLEAN]
          BY <1>0 DEF TypeOK, SOMTypeOK, Order
        <5>2. orders'[id] = [orders[id] EXCEPT !.filled = (m.stbf = 0) \/ @, !.stbf = m.stbf] BY <2>4, <4>2
        <5> QED BY <5>1, <5>2
      <4> QED BY <4>1, <4>2
    <3> QED BY <3>1, <3>2 DEF OwnersKept
  <2>6. MailTo(orders[m.id].client, m) BY <1>0, <1>5, <1>6, <2>3, <2>4, ToClientType DEF MailTo, Known
  <2>7. Owns(orders[m.id].client, m.id) /\ orders[m.id].client \in Light BY <1>6, <2>3 DEF Owns, Known
  <2>8. Delivered(orders[m.id].client, m) BY <1>1, <1>2, <1>5, <2>2, <2>5, <2>6, <2>7 DEF Delivered
  <2> QED BY <1>5, <2>7, <2>8
<1>9. CASE canc_ack_handler
  <2>1. m.type = "CANCACK" BY <1>9 DEF canc_ack_handler
  <2>2. Event(m) /\ Ends(m) BY <2>1 DEF Event, Ends
  <2>3. Known(m.id) BY <1>7, <2>2 DEF Known
  <2>4. orders' = Erase(m.id) /\ ToClient(orders[m.id].client, m)
    BY <1>9, <2>3 DEF canc_ack_handler
  <2>5. /\ DOMAIN orders' = DOMAIN orders \ {m.id}
        /\ \A id \in DOMAIN orders' : orders'[id].client = orders[id].client
    BY <2>4 DEF Erase
  <2>6. MailTo(orders[m.id].client, m) BY <1>0, <1>5, <1>6, <2>3, <2>4, ToClientType DEF MailTo, Known
  <2>7. Owns(orders[m.id].client, m.id) /\ orders[m.id].client \in Light BY <1>6, <2>3 DEF Owns, Known
  <2>8. Delivered(orders[m.id].client, m) BY <1>1, <1>2, <1>5, <2>2, <2>5, <2>6, <2>7 DEF Delivered
  <2> QED BY <1>5, <2>7, <2>8
<1>10. CASE canc_rej_handler
  <2>1. m.type = "CANCREJ" /\ orders' = orders BY <1>10 DEF canc_rej_handler, somVars
  <2>2. ~ Event(m) /\ OwnersKept BY <2>1 DEF Event, OwnersKept
  <2>3. CASE ~ Known(m.id)
    <3>1. clientIn' = clientIn BY <1>10, <2>3 DEF canc_rej_handler
    <3> QED BY <1>1, <1>2, <1>5, <2>2, <3>1 DEF Passed
  <2>4. CASE Known(m.id)
    <3> DEFINE n == IF orders[m.id].filled THEN CancReject(m.id, "FILLEDALREADY") ELSE m
    <3>1. ToClient(orders[m.id].client, n) BY <1>10, <2>4 DEF canc_rej_handler
    <3>2. CancReject(m.id, "FILLEDALREADY") \in Msg BY <1>5, MessageTypes
    <3>3. n \in Msg BY <1>5, <3>2
    <3>4. n.id = m.id /\ ~ Event(n) /\ (NotFound(n) => NotFound(m))
      <4>1. CASE orders[m.id].filled BY <4>1 DEF CancReject, Event, NotFound
      <4>2. CASE ~ orders[m.id].filled BY <2>2, <4>2
      <4> QED BY <4>1, <4>2
    <3> HIDE DEF n
    <3>5. orders[m.id].client \in Light BY <1>6, <2>4 DEF Known
    <3>6. MailTo(orders[m.id].client, n) BY <1>0, <3>1, <3>3, <3>5, ToClientType DEF MailTo
    <3> QED BY <1>1, <1>2, <1>5, <2>2, <3>3, <3>4, <3>5, <3>6 DEF Passed
  <2> QED BY <2>3, <2>4
<1> QED BY <1>3, <1>8, <1>9, <1>10 DEF SOMReport

\* The wire and the flow, when the SOM reads an answer.
LEMMA SOMFlow ==
    ASSUME TypeInv, TypeOK', WireInv, FlowInv, Report2SOM
    PROVE  WireInv' /\ FlowInv'
<1>0. TypeOK BY DEF TypeInv
<1>1. Wire' = Wire /\ resting' = resting /\ curr_id' = curr_id BY SOMType DEF venueVars
<1>2. WireInv' /\ Live' = Live BY <1>0, <1>1, WireSame
<1>3. (\E l \in Light : Delivered(l, Answers[1])) \/ Passed BY <1>2, SOMCases
<1> QED BY <1>0, <1>2, <1>3, DeliveredFlow, PassedFlow

\* One report is published.
LEMMA PublishedOne ==
    ASSUME NEW m, GrownBy(Answers, Answers', <<m>>), m.id < curr_id,
           Event(m) => m.id \in Live, Ends(m) \/ NotFound(m) => m.id \notin Live',
           Live' = Live \/ (Live' = Live \ {m.id} /\ Ends(m)),
           clientIn' = clientIn, curr_id' = curr_id, OwnersKept, SlotsKept
    PROVE  Published(<<m>>)
<1> DEFINE s == <<m>>
<1>1. Len(s) = 1 /\ s[1] = m OBVIOUS
<1>2. GrownBy(Answers, Answers', s) OBVIOUS
<1> HIDE DEF s
<1>3. Published(s)
  <2>1. Len(s) \in Nat /\ \A i \in 1..Len(s) : i = 1 /\ s[i] = m BY <1>1
  <2>2. 1 \in 1..Len(s) BY <1>1
  <2>3. \A id \in Live \ Live' : \E i \in 1..Len(s) : s[i].id = id /\ Ends(s[i]) BY <1>1, <2>2
  <2>4. \A i, j \in 1..Len(s) : s[i].id = s[j].id => i = j BY <2>1
  <2>5. \A i \in 1..Len(s) :
          /\ s[i].id < curr_id
          /\ Event(s[i]) => s[i].id \in Live
          /\ Ends(s[i]) \/ NotFound(s[i]) => s[i].id \notin Live'
    BY <2>1
  <2>6. Live' \subseteq Live OBVIOUS
  <2> QED BY <1>2, <2>1, <2>3, <2>4, <2>5, <2>6 DEF Published
<1> QED BY <1>3 DEF s

\* What the book's messages are.
LEMMA ReportKinds ==
    /\ \A id, sz, n : LET m == Fill(id, sz, n)
                      IN  m.id = id /\ m.type = "FILL" /\ m.sz = sz /\ m.stbf = n
                            /\ Event(m) /\ ~ NotFound(m) /\ (Ends(m) <=> n = 0)
    /\ \A id : LET m == CancAck(id) IN m.id = id /\ m.type = "CANCACK" /\ Event(m) /\ Ends(m) /\ ~ NotFound(m)
    /\ \A id : LET m == CancReject(id, "NOTFOUND")
               IN  m.id = id /\ m.type = "CANCREJ" /\ ~ Event(m) /\ ~ Ends(m) /\ NotFound(m)
BY DEF Fill, CancAck, CancReject, Event, Ends, NotFound

\* The book's steps, for the flow.
LEMMA BookCases ==
    ASSUME TypeInv, TypeOK', WireInv, Book
    PROVE  WireInv' /\ (Quiet \/ \E m : Published(<<m>>))
<1>0. TypeOK BY DEF TypeInv
<1>1. /\ BookView /\ clientIn' = clientIn /\ orders' = orders /\ curr_id' = curr_id /\ slot' = slot
  BY BookType DEF somVars, lightVars
<1>2. SlotsKept /\ OwnersKept BY <1>1 DEF SlotsKept, OwnersKept
<1>3. CASE Wire' = Wire /\ Answers' = Answers /\ resting' = resting
  <2>1. WireInv' /\ Live' = Live BY <1>0, <1>1, <1>3, WireSame
  <2> QED BY <1>1, <1>2, <1>3, <2>1 DEF Quiet
<1>4. ASSUME NEW n \in 1..Len(Wire), Without(Wire, Wire', n), Wire[n].type = "CANC",
             Answers' = Answers, resting' = resting
      PROVE  WireInv' /\ Quiet
  <2>1. PICK mid, type : mid = Wire[n].id /\ type = Wire[n].type OBVIOUS
  <2>2. /\ \A id : id # mid => (id \in DOMAIN resting' <=> id \in DOMAIN resting)
        /\ DOMAIN resting' = DOMAIN resting /\ type # "ADD"
    BY <1>4, <2>1
  <2>3. WireInv' /\ Live' = Live BY <1>0, <1>1, <1>4, <2>1, <2>2, WireLeave
  <2> QED BY <1>1, <1>2, <1>4, <2>3 DEF Quiet
<1>5. CASE Without(Wire, Wire', 1) /\ Arrives(Wire[1])
  <2>1. PICK mid, type : mid = Wire[1].id /\ type = Wire[1].type OBVIOUS
  <2>2. 1 \in 1..Len(Wire) BY <1>5 DEF Without
  <2>3. mid < curr_id BY <2>1, <2>2 DEF WireInv
  <2>4. CASE /\ type = "ADD" /\ resting' = resting
             /\ GrownBy(Answers, Answers', <<Fill(mid, Wire[1].sz, 0)>>)
    <3>1. /\ \A id : id # mid => (id \in DOMAIN resting' <=> id \in DOMAIN resting)
          /\ DOMAIN resting' = DOMAIN resting
      BY <2>4
    <3>2. WireInv' /\ Live' = Live \ {mid} /\ mid \in Live
      BY <1>0, <1>1, <1>5, <2>1, <2>4, <3>1, WireLeave
    <3> DEFINE m == Fill(mid, Wire[1].sz, 0)
    <3>3. m.id = mid /\ Event(m) /\ Ends(m) /\ ~ NotFound(m) BY ReportKinds
    <3>4. GrownBy(Answers, Answers', <<m>>) BY <2>4
    <3> HIDE DEF m
    <3>5. Published(<<m>>) BY <1>1, <1>2, <2>3, <3>2, <3>3, <3>4, PublishedOne
    <3> QED BY <3>2, <3>5
  <2>5. CASE /\ type = "ADD" /\ Answers' = Answers /\ DOMAIN resting' = DOMAIN resting \cup {mid}
    <3>1. /\ \A id : id # mid => (id \in DOMAIN resting' <=> id \in DOMAIN resting)
          /\ mid \in DOMAIN resting'
      BY <2>5
    <3>2. WireInv' /\ Live' = Live BY <1>0, <1>1, <1>5, <2>1, <2>5, <3>1, WireLeave
    <3> QED BY <1>1, <1>2, <2>5, <3>2 DEF Quiet
  <2>6. CASE /\ type = "CANC" /\ mid \in DOMAIN resting /\ resting' = Remove(mid)
             /\ GrownBy(Answers, Answers', <<CancAck(mid)>>)
    <3>0. DOMAIN resting' = DOMAIN resting \ {mid} BY <2>6 DEF Remove
    <3>1. /\ \A id : id # mid => (id \in DOMAIN resting' <=> id \in DOMAIN resting)
          /\ mid \notin DOMAIN resting'
      BY <3>0
    <3>2. WireInv' /\ Live' = Live \ {mid} /\ mid \in Live
      BY <1>0, <1>1, <1>5, <2>1, <2>6, <3>1, WireLeave
    <3> DEFINE m == CancAck(mid)
    <3>3. m.id = mid /\ Event(m) /\ Ends(m) /\ ~ NotFound(m) BY ReportKinds
    <3>4. GrownBy(Answers, Answers', <<m>>) BY <2>6
    <3> HIDE DEF m
    <3>5. Published(<<m>>) BY <1>1, <1>2, <2>3, <3>2, <3>3, <3>4, PublishedOne
    <3> QED BY <3>2, <3>5
  <2>7. CASE /\ type = "CANC" /\ mid \notin DOMAIN resting /\ resting' = resting
             /\ GrownBy(Answers, Answers', <<CancReject(mid, "NOTFOUND")>>)
    <3>1. /\ \A id : id # mid => (id \in DOMAIN resting' <=> id \in DOMAIN resting)
          /\ DOMAIN resting' = DOMAIN resting
      BY <2>7
    <3>2. WireInv' /\ Live' = Live /\ mid \notin Live
      BY <1>0, <1>1, <1>5, <2>1, <2>7, <3>1, WireLeave
    <3> DEFINE m == CancReject(mid, "NOTFOUND")
    <3>3. m.id = mid /\ ~ Event(m) /\ ~ Ends(m) /\ NotFound(m) BY ReportKinds
    <3>4. GrownBy(Answers, Answers', <<m>>) BY <2>7
    <3> HIDE DEF m
    <3>5. Published(<<m>>) BY <1>1, <1>2, <2>3, <3>2, <3>3, <3>4, PublishedOne
    <3> QED BY <3>2, <3>5
  <2> QED BY <1>5, <2>1, <2>4, <2>5, <2>6, <2>7 DEF Arrives
<1> QED BY <1>1, <1>3, <1>4, <1>5 DEF BookView

\* The market's steps.
LEMMA MarketCases ==
    ASSUME TypeInv, TypeOK', WireInv, Market
    PROVE  WireInv' /\ (Quiet \/ \E m : Published(<<m>>))
<1>0. TypeOK BY DEF TypeInv
<1>1. /\ MarketView /\ clientIn' = clientIn /\ orders' = orders /\ curr_id' = curr_id /\ slot' = slot /\ Wire' = Wire
  BY MarketType DEF somVars, lightVars
<1>2. SlotsKept /\ OwnersKept BY <1>1 DEF SlotsKept, OwnersKept
<1>3. CASE resting' = resting /\ Answers' = Answers
  <2>1. WireInv' /\ Live' = Live BY <1>0, <1>1, <1>3, WireSame
  <2> QED BY <1>1, <1>2, <1>3, <2>1 DEF Quiet
<1>4. ASSUME NEW id \in DOMAIN resting, NEW n \in 1..resting[id],
             GrownBy(Answers, Answers', <<Fill(id, n, resting[id] - n)>>),
             resting' = IF n = resting[id] THEN Remove(id) ELSE [resting EXCEPT ![id] = @ - n]
      PROVE  WireInv' /\ \E m : Published(<<m>>)
  <2>0. resting[id] \in Nat /\ id < curr_id
    BY <1>0, OrderAssumption DEF TypeOK, VenueTypeOK, Size, WireInv
  <2>1. DOMAIN resting' = IF n = resting[id] THEN DOMAIN resting \ {id} ELSE DOMAIN resting
    BY <1>4 DEF Remove
  <2>2. WireInv' /\ Live' = Live \ (DOMAIN resting \ DOMAIN resting') /\ DOMAIN resting \subseteq Live
    BY <1>0, <1>1, <2>1, WireSame
  <2> DEFINE m == Fill(id, n, resting[id] - n)
  <2>3. m.id = id /\ Event(m) /\ (Ends(m) <=> resting[id] - n = 0) /\ ~ NotFound(m) BY ReportKinds
  <2>4. GrownBy(Answers, Answers', <<m>>) BY <1>4
  <2> HIDE DEF m
  <2>5. Ends(m) <=> n = resting[id] BY <2>0, <2>3
  <2>6. (Ends(m) /\ Live' = Live \ {id}) \/ (~ Ends(m) /\ Live' = Live) BY <2>1, <2>2, <2>5
  <2>7. id \in Live BY <2>2
  <2>8. Published(<<m>>) BY <1>1, <1>2, <2>0, <2>3, <2>4, <2>6, <2>7, PublishedOne
  <2> QED BY <2>2, <2>8
<1> QED BY <1>1, <1>3, <1>4 DEF MarketView

\* The end of a clear.
LEMMA ClearEndCases ==
    ASSUME TypeInv, TypeOK', WireInv, ClearEnd
    PROVE  WireInv' /\ \E s : Published(s) /\ \A i \in 1..Len(s) : s[i].type = "CANCACK"
<1>0. TypeOK BY DEF TypeInv
<1>1. /\ clientIn' = clientIn /\ orders' = orders /\ curr_id' = curr_id /\ slot' = slot /\ Wire' = Wire
      /\ DOMAIN resting' = {}
  BY ClearEndType DEF somVars, lightVars
<1>2. SlotsKept /\ OwnersKept BY <1>1 DEF SlotsKept, OwnersKept
<1>3. PICK s \in Seq(Report) :
         /\ GrownBy(Answers, Answers', s) /\ Len(s) \in Nat
         /\ \A i \in 1..Len(s) : s[i].id \in DOMAIN resting /\ s[i] = CancAck(s[i].id)
         /\ \A i, j \in 1..Len(s) : s[i].id = s[j].id => i = j
         /\ \A id \in DOMAIN resting : \E i \in 1..Len(s) : s[i].id = id
  BY ClearEndType
<1>4. WireInv' /\ Live' = Live \ DOMAIN resting /\ DOMAIN resting \subseteq Live
  BY <1>0, <1>1, WireSame
<1>5. ASSUME NEW i \in 1..Len(s)
      PROVE  Event(s[i]) /\ Ends(s[i]) /\ ~ NotFound(s[i]) /\ s[i].type = "CANCACK"
  <2>1. PICK id : id = s[i].id OBVIOUS
  <2>2. s[i] = CancAck(id) BY <1>3, <2>1
  <2> QED BY <2>2, ReportKinds
<1>6. \A i \in 1..Len(s) :
          /\ s[i].id < curr_id
          /\ Event(s[i]) => s[i].id \in Live
          /\ Ends(s[i]) \/ NotFound(s[i]) => s[i].id \notin Live'
  BY <1>3, <1>4 DEF WireInv
<1>7. \A id \in Live \ Live' : \E i \in 1..Len(s) : s[i].id = id /\ Ends(s[i]) BY <1>3, <1>4, <1>5
<1>8. Published(s) BY <1>1, <1>2, <1>3, <1>4, <1>6, <1>7 DEF Published
<1> QED BY <1>4, <1>5, <1>8

\* The inductive invariant of the flow.
PathInv == TypeInv /\ WireInv /\ FlowInv

\* Every step keeps the types, the wire and the flow.
LEMMA PathStep ==
    ASSUME PathInv, [Next]_vars
    PROVE  PathInv'
<1>0. TypeInv /\ WireInv /\ FlowInv /\ TypeOK BY DEF PathInv, TypeInv
<1>1. TypeInv' BY <1>0, TypeStep
<1>2. TypeOK' BY <1>1 DEF TypeInv
<1>3. ASSUME NEW l \in Light, NEW sz \in Size, Place(l, sz) PROVE WireInv' /\ FlowInv'
  BY <1>0, <1>2, <1>3, PlaceFlow
<1>4. ASSUME NEW l \in Light, Cancel(l) \/ ClearLight(l) PROVE WireInv' /\ FlowInv'
  BY <1>0, <1>2, <1>4, CancelFlow
<1>5. ASSUME NEW l \in Light, Report2Light(l) PROVE WireInv' /\ FlowInv'
  BY <1>0, <1>2, <1>5, ReportFlow
<1>6. ASSUME Report2SOM PROVE WireInv' /\ FlowInv'
  BY <1>0, <1>2, <1>6, SOMFlow
<1>7. ASSUME Book \/ Market PROVE WireInv' /\ FlowInv'
  <2>1. WireInv' /\ (Quiet \/ \E m : Published(<<m>>)) BY <1>0, <1>2, <1>7, BookCases, MarketCases
  <2> QED BY <1>0, <2>1, QuietFlow, PublishedFlow
<1>8. ASSUME ClearEnd PROVE WireInv' /\ FlowInv'
  BY <1>0, <1>2, <1>8, ClearEndCases, PublishedFlow
<1>9. ASSUME Console PROVE WireInv' /\ FlowInv'
  BY <1>0, <1>2, <1>9, ConsoleFlow
<1>10. CASE UNCHANGED vars
  <2>1. /\ obIn' = obIn /\ somIn' = somIn /\ clientIn' = clientIn /\ slot' = slot /\ pub_q' = pub_q /\ del_q' = del_q
        /\ orders' = orders /\ curr_id' = curr_id /\ resting' = resting
    BY <1>10 DEF vars, mailVars, somVars, venueVars, lightVars
  <2>2. Wire' = Wire /\ Answers' = Answers BY <2>1 DEF Wire, Answers
  <2>3. WireInv' /\ Live' = Live BY <1>0, <1>2, <2>1, <2>2, WireSame
  <2>4. Quiet BY <2>1, <2>2, <2>3 DEF Quiet, OwnersKept, SlotsKept
  <2> QED BY <1>0, <1>1, <2>3, <2>4, QuietFlow DEF PathInv
<1>11. WireInv' /\ FlowInv'
  <2>1. CASE UNCHANGED vars BY <1>10, <2>1 DEF PathInv
  <2> QED BY <1>3, <1>4, <1>5, <1>6, <1>7, <1>8, <1>9, <2>1 DEF Next
<1> QED BY <1>1, <1>11 DEF PathInv

\* Nothing is on its way at first.
LEMMA PathInit ==
    ASSUME Init
    PROVE  PathInv
<1>1. TypeInv /\ Wire = <<>> /\ Answers = <<>> /\ Len(Wire) = 0 /\ Len(Answers) = 0 BY TypeInit
<1>2. /\ clientIn = [l \in Light |-> <<>>] /\ slot = [l \in Light |-> Empty]
      /\ orders = [id \in {} |-> 0] /\ resting = [id \in {} |-> 0] /\ curr_id = 1
  BY DEF Init, MailInit, SOMInit, VenueInit, LightInit
<1>3. /\ DOMAIN orders = {} /\ DOMAIN resting = {}
      /\ \A l \in Light : Len(clientIn[l]) = 0 /\ slot[l].id = 0
  BY <1>2 DEF Empty
<1>4. Live = {}
  <2>1. LiveIs BY <1>1, LiveDef DEF TypeInv
  <2> QED BY <1>1, <1>3, <2>1 DEF LiveIs, OnTheWire
<1>5. WireInv BY <1>1, <1>3 DEF WireInv
<1>6. FlowInv
  BY <1>1, <1>3, <1>4
     DEF FlowInv, IdsUsed, LiveOwned, AnswerOwned, MailOwned, AnswerLast, MailLast, MailGone, SlotWaits
<1> QED BY <1>1, <1>5, <1>6 DEF PathInv

\* No fill is lost: a fill on its way to the SOM finds its order there, and no
\* ack that erases the order is ahead of it (fill_handler, canc_ack_handler).
THEOREM FillsFindOrderCorrect == Spec => []FillsFindOrder
<1>1. Init => PathInv BY PathInit
<1>2. PathInv /\ [Next]_vars => PathInv' BY PathStep
<1>3. PathInv => FillsFindOrder
  <2> SUFFICES ASSUME PathInv, NEW i \in DOMAIN Answers, Answers[i].type = "FILL"
               PROVE  /\ Known(Answers[i].id)
                      /\ \A j \in 1..i-1 : ~ (Answers[j].type = "CANCACK" /\ Answers[j].id = Answers[i].id)
    BY DEF FillsFindOrder
  <2>0. TypeOK /\ FlowInv BY DEF PathInv, TypeInv
  <2>1. DOMAIN Answers = 1..Len(Answers) /\ Len(Answers) \in Nat BY <2>0, Views
  <2>2. i \in 1..Len(Answers) /\ Event(Answers[i]) BY <2>1 DEF Event
  <2>3. Known(Answers[i].id) BY <2>0, <2>2 DEF FlowInv, AnswerOwned
  <2>4. ASSUME NEW j \in 1..i-1, Answers[j].type = "CANCACK", Answers[j].id = Answers[i].id PROVE FALSE
    <3>1. j \in 1..Len(Answers) /\ j < i BY <2>1, <2>2
    <3>2. Ends(Answers[j]) BY <2>4 DEF Ends, Event
    <3> QED BY <2>0, <2>2, <2>4, <3>1, <3>2 DEF FlowInv, AnswerLast
  <2> QED BY <2>3, <2>4
<1> QED BY <1>1, <1>2, <1>3, PTL DEF Spec

-----------------------------------------------------------------------------
(* What is left of an order: the SOM's count is that of the book and of the *)
(* fills on their way.                                                      *)

\* The sequences of reports, and the sizes, as the sums need them.
Counted ==
    /\ Answers \in Seq(Msg) /\ Len(Answers) \in Nat
    /\ \A l \in Light : clientIn[l] \in Seq(Msg) /\ Len(clientIn[l]) \in Nat
    /\ \A id \in DOMAIN orders : orders[id].stbf \in Nat

\* The types give them.
LEMMA CountedTypes == TypeOK => Counted
<1> SUFFICES ASSUME TypeOK PROVE Counted
  OBVIOUS
<1>1. \A id \in DOMAIN orders : orders[id].stbf \in Nat
  BY OrderAssumption DEF TypeOK, SOMTypeOK, Order
<1> QED BY <1>1, Views DEF Counted

\* The size of an order at the venue, without the choice in VenueSize.
SizeIs ==
    /\ \A id \in DOMAIN resting : VenueSize(id) = resting[id] /\ VenueSize(id) \in Nat
    /\ \A i \in 1..Len(Wire) : Wire[i].type = "ADD" =>
            VenueSize(Wire[i].id) = Wire[i].sz /\ Wire[i].sz \in Nat

\* An order is on the wire once, so that there is nothing to choose.
LEMMA SizeDef == TypeOK /\ WireInv => SizeIs
<1> SUFFICES ASSUME TypeOK, WireInv PROVE SizeIs
  OBVIOUS
<1>1. DOMAIN Wire = 1..Len(Wire) /\ Len(Wire) \in Nat BY Views
<1>2. \A id \in DOMAIN resting : VenueSize(id) = resting[id] /\ VenueSize(id) \in Nat
  BY OrderAssumption DEF VenueSize, TypeOK, VenueTypeOK, Size
<1>3. ASSUME NEW i \in 1..Len(Wire), Wire[i].type = "ADD"
      PROVE  VenueSize(Wire[i].id) = Wire[i].sz /\ Wire[i].sz \in Nat
  <2>1. PICK id : id = Wire[i].id OBVIOUS
  <2>2. i \in OnWire(id) BY <1>1, <1>3, <2>1 DEF OnWire
  <2>3. \A j \in OnWire(id) : j = i
    <3> SUFFICES ASSUME NEW j \in OnWire(id) PROVE j = i
      OBVIOUS
    <3>1. j \in 1..Len(Wire) /\ Wire[j].type = "ADD" /\ Wire[j].id = Wire[i].id
      BY <1>1, <2>1 DEF OnWire
    <3>2. ~ (i < j) /\ ~ (j < i) BY <1>3, <3>1 DEF WireInv
    <3> QED BY <1>1, <3>1, <3>2
  <2>4. (CHOOSE j \in OnWire(id) : TRUE) = i BY <2>2, <2>3
  <2>5. id \notin DOMAIN resting BY <1>3, <2>1 DEF WireInv
  <2>6. VenueSize(id) = Wire[i].sz BY <2>4, <2>5 DEF VenueSize
  <2>7. Wire[i] \in ObMsg BY Views
  <2>8. Wire[i].sz \in Nat BY <2>7, OrderAssumption DEF ObMsg
  <2> QED BY <2>1, <2>6, <2>8
<1> QED BY <1>2, <1>3 DEF SizeIs

\* What the SOM takes to be left is what is left plus the fills it will hear
\* of, and each of those tells what is left after it.
LiveCounts == \A id \in Live : orders[id].stbf = VenueSize(id) + FillSize(Answers, {id})
FillsCount ==
    \A id \in Id : \A i \in 1..Len(Answers) : Answers[i].type = "FILL" /\ Answers[i].id = id =>
        Answers[i].stbf = orders[id].stbf - Filled(Answers, {id}, i)
SizeInv == LiveCounts /\ FillsCount

\* The SOM's counts stay, and so do the sizes at the venue.
CountsKept ==
    \A id \in DOMAIN orders : id \in DOMAIN orders' => orders'[id].stbf = orders[id].stbf
VenueKept == \A id \in Live' : VenueSize(id)' = VenueSize(id)

\* Nothing about sizes changes, or reports that are no fills are published.
LEMMA QuietSizes ==
    ASSUME TypeOK, TypeOK', FlowInv, FlowInv', SizeInv, CountsKept, VenueKept, Live' \subseteq Live,
           NEW s, GrownBy(Answers, Answers', s), Len(s) \in Nat,
           \A i \in 1..Len(s) : s[i].type # "FILL"
    PROVE  SizeInv'
<1>t. Counted /\ Counted'
  <2>1. TypeOK' => Counted' BY CountedTypes, PTL
  <2> QED BY <2>1, CountedTypes
<1>k. /\ \A id \in Live : id \in DOMAIN orders
      /\ \A i \in 1..Len(Answers) : Answers[i].type = "FILL" => Answers[i].id \in DOMAIN orders
      /\ \A id \in Live' : id \in DOMAIN orders'
      /\ \A i \in 1..Len(Answers') : Answers'[i].type = "FILL" => Answers'[i].id \in DOMAIN orders'
  BY DEF FlowInv, LiveOwned, AnswerOwned, Event, Known
<1>g. /\ \A i \in 1..Len(Answers') :
            \/ i \in 1..Len(Answers) /\ Answers'[i] = Answers[i]
            \/ i > Len(Answers) /\ i - Len(Answers) \in 1..Len(s) /\ Answers'[i] = s[i - Len(Answers)]
  BY <1>t, GrownElement DEF Counted
<1>1. ASSUME NEW S
      PROVE  /\ FillSize(Answers', S) = FillSize(Answers, S)
             /\ \A i \in 0..Len(Answers) : Filled(Answers', S, i) = Filled(Answers, S, i)
  <2>1. \A i \in 1..Len(s) : Weight(s[i], S) = 0 BY DEF Weight
  <2> QED BY <1>t, <2>1, FillSizeQuiet DEF Counted
<1>2. ASSUME NEW id \in Live' PROVE orders'[id].stbf = VenueSize(id)' + FillSize(Answers', {id})
  <2>1. orders[id].stbf = VenueSize(id) + FillSize(Answers, {id}) BY DEF SizeInv, LiveCounts
  <2>2. orders'[id].stbf = orders[id].stbf BY <1>k DEF CountsKept
  <2>3. VenueSize(id)' = VenueSize(id) BY DEF VenueKept
  <2> QED BY <1>1, <2>1, <2>2, <2>3
<1>3. ASSUME NEW id \in Id, NEW i \in 1..Len(Answers'), Answers'[i].type = "FILL", Answers'[i].id = id
      PROVE  Answers'[i].stbf = orders'[id].stbf - Filled(Answers', {id}, i)
  <2>1. i \in 1..Len(Answers) /\ Answers'[i] = Answers[i] BY <1>g, <1>3
  <2>2. Answers[i].stbf = orders[id].stbf - Filled(Answers, {id}, i) BY <1>3, <2>1 DEF SizeInv, FillsCount
  <2>3. orders'[id].stbf = orders[id].stbf BY <1>k, <1>3, <2>1 DEF CountsKept
  <2>4. i \in 0..Len(Answers) BY <1>t, <2>1 DEF Counted
  <2>5. Filled(Answers', {id}, i) = Filled(Answers, {id}, i) BY <1>1, <2>4
  <2> QED BY <2>1, <2>2, <2>3, <2>5
<1>4. LiveCounts' BY <1>2 DEF LiveCounts
<1>5. FillsCount' BY <1>3 DEF FillsCount
<1> QED BY <1>4, <1>5 DEF SizeInv

\* What is at the venue has a size.
LEMMA VenueNat ==
    ASSUME TypeOK, WireInv, NEW id \in Live
    PROVE  VenueSize(id) \in Nat
<1>1. LiveIs /\ SizeIs BY LiveDef, SizeDef
<1>2. CASE id \in DOMAIN resting BY <1>1, <1>2 DEF SizeIs
<1>3. CASE OnTheWire(id)
  <2>1. PICK i \in 1..Len(Wire) : Wire[i].type = "ADD" /\ Wire[i].id = id BY <1>3 DEF OnTheWire
  <2> QED BY <1>1, <2>1 DEF SizeIs
<1> QED BY <1>1, <1>2, <1>3 DEF LiveIs

\* The SOM reads a report that is no fill.
LEMMA PassedSizes ==
    ASSUME TypeOK, TypeOK', FlowInv, FlowInv', SizeInv, CountsKept, VenueKept, Live' \subseteq Live,
           Without(Answers, Answers', 1), Answers[1].type # "FILL"
    PROVE  SizeInv'
<1>t. Counted /\ Counted'
  <2>1. TypeOK' => Counted' BY CountedTypes, PTL
  <2> QED BY <2>1, CountedTypes
<1>k. /\ \A id \in Live : id \in DOMAIN orders
      /\ \A i \in 1..Len(Answers) : Answers[i].type = "FILL" => Answers[i].id \in DOMAIN orders
      /\ \A id \in Live' : id \in DOMAIN orders'
      /\ \A i \in 1..Len(Answers') : Answers'[i].type = "FILL" => Answers'[i].id \in DOMAIN orders'
  BY DEF FlowInv, LiveOwned, AnswerOwned, Event, Known
<1>g. \A i \in 1..Len(Answers') : i + 1 \in 1..Len(Answers) /\ Answers'[i] = Answers[i + 1]
  BY AnswersTail
<1>1. ASSUME NEW S
      PROVE  /\ FillSize(Answers', S) = FillSize(Answers, S)
             /\ \A i \in 0..Len(Answers') : Filled(Answers', S, i) = Filled(Answers, S, i + 1)
  <2>1. Weight(Answers[1], S) = 0 BY DEF Weight
  <2>2. /\ FillSize(Answers, S) = 0 + FillSize(Answers', S)
        /\ \A i \in 0..Len(Answers') : Filled(Answers', S, i) = Filled(Answers, S, i + 1) - 0
    BY <1>t, <2>1, FillSizeTail DEF Counted
  <2>3. FillSize(Answers', S) \in Nat BY <1>t, FilledFacts DEF Counted
  <2>4. ASSUME NEW i \in 0..Len(Answers') PROVE i + 1 \in 0..Len(Answers)
    BY <1>t DEF Without, Counted
  <2>5. ASSUME NEW i \in 0..Len(Answers') PROVE Filled(Answers, S, i + 1) \in Nat
    BY <1>t, <2>4, FilledFacts DEF Counted
  <2> QED BY <2>2, <2>3, <2>5
<1>2. ASSUME NEW id \in Live' PROVE orders'[id].stbf = VenueSize(id)' + FillSize(Answers', {id})
  <2>1. orders[id].stbf = VenueSize(id) + FillSize(Answers, {id}) BY DEF SizeInv, LiveCounts
  <2>2. orders'[id].stbf = orders[id].stbf BY <1>k DEF CountsKept
  <2>3. VenueSize(id)' = VenueSize(id) BY DEF VenueKept
  <2> QED BY <1>1, <2>1, <2>2, <2>3
<1>3. ASSUME NEW id \in Id, NEW i \in 1..Len(Answers'), Answers'[i].type = "FILL", Answers'[i].id = id
      PROVE  Answers'[i].stbf = orders'[id].stbf - Filled(Answers', {id}, i)
  <2>1. i + 1 \in 1..Len(Answers) /\ Answers'[i] = Answers[i + 1] BY <1>g
  <2>2. Answers[i + 1].stbf = orders[id].stbf - Filled(Answers, {id}, i + 1)
    BY <1>3, <2>1 DEF SizeInv, FillsCount
  <2>3. orders'[id].stbf = orders[id].stbf BY <1>k, <1>3, <2>1 DEF CountsKept
  <2>4. i \in 0..Len(Answers') BY <1>t DEF Counted
  <2>5. Filled(Answers', {id}, i) = Filled(Answers, {id}, i + 1) BY <1>1, <2>4
  <2> QED BY <2>1, <2>2, <2>3, <2>5
<1>4. LiveCounts' BY <1>2 DEF LiveCounts
<1>5. FillsCount' BY <1>3 DEF FillsCount
<1> QED BY <1>4, <1>5 DEF SizeInv

\* The SOM reads a fill, which tells it what is left.
LEMMA FillReadSizes ==
    ASSUME TypeOK, TypeOK', FlowInv, FlowInv', SizeInv, VenueKept, Live' = Live,
           WireInv, NEW m, m = Answers[1], m.type = "FILL", Without(Answers, Answers', 1),
           DOMAIN orders' = DOMAIN orders, orders'[m.id].stbf = m.stbf,
           \A id \in DOMAIN orders : id # m.id => orders'[id] = orders[id]
    PROVE  SizeInv' /\ orders'[m.id].stbf = orders[m.id].stbf - m.sz
<1>t. Counted /\ Counted'
  <2>1. TypeOK' => Counted' BY CountedTypes, PTL
  <2> QED BY <2>1, CountedTypes
<1>k. /\ \A id \in Live : id \in DOMAIN orders
      /\ \A i \in 1..Len(Answers) : Answers[i].type = "FILL" => Answers[i].id \in DOMAIN orders
  BY DEF FlowInv, LiveOwned, AnswerOwned, Event, Known
<1>g. /\ 1 \in 1..Len(Answers)
      /\ \A i \in 1..Len(Answers') : i + 1 \in 1..Len(Answers) /\ Answers'[i] = Answers[i + 1]
  BY AnswersTail
<1>m. m.sz \in Nat /\ m.id \in Id /\ m.id \in DOMAIN orders /\ orders[m.id].stbf \in Nat
  <2>1. m \in Msg BY <1>g, FlowTypes
  <2> QED BY <1>g, <1>k, <1>t, <2>1, MsgFacts DEF Counted
<1>1. ASSUME NEW S
      PROVE  /\ FillSize(Answers, S) = Weight(m, S) + FillSize(Answers', S)
             /\ \A i \in 0..Len(Answers') : Filled(Answers', S, i) = Filled(Answers, S, i + 1) - Weight(m, S)
             /\ FillSize(Answers', S) \in Nat
             /\ \A i \in 0..Len(Answers') : Filled(Answers, S, i + 1) \in Nat
  <2>2. /\ FillSize(Answers, S) = Weight(m, S) + FillSize(Answers', S)
        /\ \A i \in 0..Len(Answers') : Filled(Answers', S, i) = Filled(Answers, S, i + 1) - Weight(m, S)
    BY <1>t, FillSizeTail DEF Counted
  <2>3. FillSize(Answers', S) \in Nat BY <1>t, FilledFacts DEF Counted
  <2>4. ASSUME NEW i \in 0..Len(Answers') PROVE i + 1 \in 0..Len(Answers)
    BY <1>t DEF Without, Counted
  <2>5. ASSUME NEW i \in 0..Len(Answers') PROVE Filled(Answers, S, i + 1) \in Nat
    BY <1>t, <2>4, FilledFacts DEF Counted
  <2> QED BY <2>2, <2>3, <2>5
<1>w. ASSUME NEW id PROVE Weight(m, {id}) = IF id = m.id THEN m.sz ELSE 0
  BY DEF Weight
<1>2. orders'[m.id].stbf = orders[m.id].stbf - m.sz
  <2>1. m.stbf = orders[m.id].stbf - Filled(Answers, {m.id}, 1)
    BY <1>g, <1>m DEF SizeInv, FillsCount
  <2>2. /\ Filled(Answers, {m.id}, 1) = Filled(Answers, {m.id}, 1 - 1) + Weight(m, {m.id})
        /\ Filled(Answers, {m.id}, 0) = 0
    BY <1>g, <1>t, FilledFacts DEF Counted
  <2>3. Weight(m, {m.id}) = m.sz /\ 1 - 1 = 0 BY <1>w
  <2>4. Filled(Answers, {m.id}, 1) = 0 + m.sz BY <2>2, <2>3
  <2> QED BY <1>m, <2>1, <2>4
<1>3. ASSUME NEW id \in DOMAIN orders PROVE orders'[id].stbf = orders[id].stbf - Weight(m, {id})
  <2>1. CASE id = m.id BY <1>2, <1>w, <2>1
  <2>2. CASE id # m.id
    <3>1. orders'[id].stbf = orders[id].stbf /\ Weight(m, {id}) = 0 BY <1>w, <2>2
    <3>2. orders[id].stbf \in Nat BY <1>t DEF Counted
    <3> QED BY <3>1, <3>2
  <2> QED BY <2>1, <2>2
<1>n. \A id : Weight(m, {id}) \in Nat BY <1>m, <1>w
<1>4. ASSUME NEW id \in Live' PROVE orders'[id].stbf = VenueSize(id)' + FillSize(Answers', {id})
  <2>1. orders[id].stbf = VenueSize(id) + FillSize(Answers, {id}) BY DEF SizeInv, LiveCounts
  <2>2. id \in DOMAIN orders BY <1>k
  <2>3. VenueSize(id)' = VenueSize(id) BY DEF VenueKept
  <2>4. VenueSize(id) \in Nat BY VenueNat
  <2>5. Weight(m, {id}) \in Nat /\ FillSize(Answers', {id}) \in Nat BY <1>1, <1>n
  <2>6. FillSize(Answers, {id}) = Weight(m, {id}) + FillSize(Answers', {id}) BY <1>1
  <2>7. orders'[id].stbf = orders[id].stbf - Weight(m, {id}) BY <1>3, <2>2
  <2> QED BY <2>1, <2>3, <2>4, <2>5, <2>6, <2>7
<1>5. ASSUME NEW id \in Id, NEW i \in 1..Len(Answers'), Answers'[i].type = "FILL", Answers'[i].id = id
      PROVE  Answers'[i].stbf = orders'[id].stbf - Filled(Answers', {id}, i)
  <2>1. i + 1 \in 1..Len(Answers) /\ Answers'[i] = Answers[i + 1] BY <1>g
  <2>2. Answers[i + 1].stbf = orders[id].stbf - Filled(Answers, {id}, i + 1)
    BY <1>5, <2>1 DEF SizeInv, FillsCount
  <2>3. orders'[id].stbf = orders[id].stbf - Weight(m, {id}) /\ orders[id].stbf \in Nat
    BY <1>3, <1>k, <1>t, <1>5, <2>1 DEF Counted
  <2>4. i \in 0..Len(Answers') BY <1>t DEF Counted
  <2>5. Filled(Answers', {id}, i) = Filled(Answers, {id}, i + 1) - Weight(m, {id}) BY <1>1, <2>4
  <2>6. Filled(Answers, {id}, i + 1) \in Nat BY <1>1, <2>4
  <2>7. Weight(m, {id}) \in Nat BY <1>n
  <2> QED BY <2>1, <2>2, <2>3, <2>5, <2>6, <2>7
<1>6. LiveCounts' BY <1>4 DEF LiveCounts
<1>7. FillsCount' BY <1>5 DEF FillsCount
<1> QED BY <1>2, <1>6, <1>7 DEF SizeInv

\* The order was where it is now, and as large.
WasThere(id) ==
    /\ id \in DOMAIN resting' => id \in DOMAIN resting /\ resting'[id] = resting[id]
    /\ \A i \in 1..Len(Wire') : Wire'[i].type = "ADD" /\ Wire'[i].id = id =>
            \E j \in 1..Len(Wire) : Wire[j] = Wire'[i]

\* It has the size it had then.
LEMMA VenueSame ==
    ASSUME TypeOK, TypeOK', WireInv, WireInv', NEW id \in Live', WasThere(id)
    PROVE  VenueSize(id)' = VenueSize(id)
<1>1. LiveIs' /\ SizeIs /\ SizeIs'
  <2>1. TypeOK' => LiveIs' BY LiveDef, PTL
  <2>2. TypeOK' /\ WireInv' => SizeIs' BY SizeDef, PTL
  <2> QED BY <2>1, <2>2, SizeDef
<1>2. CASE id \in DOMAIN resting'
  <2>1. id \in DOMAIN resting /\ resting'[id] = resting[id] BY <1>2 DEF WasThere
  <2> QED BY <1>1, <1>2, <2>1 DEF SizeIs
<1>3. CASE OnTheWire(id)'
  <2>1. PICK i \in 1..Len(Wire') : Wire'[i].type = "ADD" /\ Wire'[i].id = id BY <1>3 DEF OnTheWire
  <2>2. PICK j \in 1..Len(Wire) : Wire[j] = Wire'[i] BY <2>1 DEF WasThere
  <2>3. VenueSize(id)' = Wire'[i].sz
    <3>1. VenueSize(Wire[i].id)' = Wire'[i].sz BY <1>1, <2>1 DEF SizeIs
    <3>2. Wire[i].id' = id BY <2>1
    <3> QED BY <3>1, <3>2
  <2>4. VenueSize(id) = Wire[j].sz BY <1>1, <2>1, <2>2 DEF SizeIs
  <2> QED BY <2>2, <2>3, <2>4
<1> QED BY <1>1, <1>2, <1>3 DEF LiveIs

\* An order goes on the wire.
LEMMA ForwardSizes ==
    ASSUME TypeOK, TypeOK', FlowInv, FlowInv', SizeInv, CountsKept, Answers' = Answers,
           curr_id \notin Live, Live' = Live \cup {curr_id},
           \A id \in Live : VenueSize(id)' = VenueSize(id),
           NEW sz, NEW n, n = curr_id, sz \in Nat, VenueSize(n)' = sz, orders'[n].stbf = sz
    PROVE  SizeInv'
<1>t. Counted BY CountedTypes
<1>k. /\ \A id \in Live : id \in DOMAIN orders
      /\ \A i \in 1..Len(Answers) : Answers[i].type = "FILL" => Answers[i].id \in DOMAIN orders
      /\ \A id \in Live' : id \in DOMAIN orders'
      /\ \A i \in 1..Len(Answers') : Answers'[i].type = "FILL" => Answers'[i].id \in DOMAIN orders'
  BY DEF FlowInv, LiveOwned, AnswerOwned, Event, Known
<1>1. FillSize(Answers, {n}) = 0
  <2>1. \A i \in 1..Len(Answers) : Answers[i].id < n BY DEF FlowInv, IdsUsed
  <2>2. \A i \in 1..Len(Answers) : Answers[i].id \in Nat /\ n \in Nat BY FlowTypes
  <2>3. \A i \in 1..Len(Answers) : Answers[i].id \notin {n} BY <2>1, <2>2
  <2> QED BY <1>t, <2>3, FillSizeNone DEF Counted
<1>2. ASSUME NEW id \in Live' PROVE orders'[id].stbf = VenueSize(id)' + FillSize(Answers', {id})
  <2>1. CASE id = n BY <1>1, <2>1
  <2>2. CASE id \in Live
    <3>1. orders[id].stbf = VenueSize(id) + FillSize(Answers, {id}) BY <2>2 DEF SizeInv, LiveCounts
    <3>2. orders'[id].stbf = orders[id].stbf BY <1>k, <2>2 DEF CountsKept
    <3> QED BY <2>2, <3>1, <3>2
  <2> QED BY <2>1, <2>2
<1>3. ASSUME NEW id \in Id, NEW i \in 1..Len(Answers'), Answers'[i].type = "FILL", Answers'[i].id = id
      PROVE  Answers'[i].stbf = orders'[id].stbf - Filled(Answers', {id}, i)
  <2>1. Answers[i].stbf = orders[id].stbf - Filled(Answers, {id}, i) BY <1>3 DEF SizeInv, FillsCount
  <2>2. orders'[id].stbf = orders[id].stbf BY <1>k, <1>3 DEF CountsKept
  <2> QED BY <2>1, <2>2
<1>4. LiveCounts' BY <1>2 DEF LiveCounts
<1>5. FillsCount' BY <1>3 DEF FillsCount
<1> QED BY <1>4, <1>5 DEF SizeInv

\* The book fills n of an order and leaves r of it.
LEMMA FillSizes ==
    ASSUME TypeOK, TypeOK', FlowInv, SizeInv, orders' = orders, Live' \subseteq Live,
           NEW x \in Live, NEW n \in Nat, NEW r \in Nat, VenueSize(x) = n + r,
           x \in Live' => VenueSize(x)' = r,
           \A id \in Live' : id # x => VenueSize(id)' = VenueSize(id),
           NEW m, m.type = "FILL", m.id = x, m.sz = n, m.stbf = r, GrownBy(Answers, Answers', <<m>>)
    PROVE  SizeInv'
<1>t. Counted /\ Counted'
  <2>1. TypeOK' => Counted' BY CountedTypes, PTL
  <2> QED BY <2>1, CountedTypes
<1>g. /\ Len(Answers') = Len(Answers) + 1
      /\ \A i \in 1..Len(Answers') : \/ i \in 1..Len(Answers) /\ Answers'[i] = Answers[i]
                                     \/ i = Len(Answers') /\ Answers'[i] = m
  BY <1>t, GrownByOne DEF Counted
<1>1. ASSUME NEW S
      PROVE  /\ FillSize(Answers', S) = FillSize(Answers, S) + Weight(m, S)
             /\ \A i \in 0..Len(Answers) : Filled(Answers', S, i) = Filled(Answers, S, i)
             /\ Filled(Answers', S, Len(Answers')) = FillSize(Answers, S) + Weight(m, S)
             /\ FillSize(Answers, S) \in Nat
  BY <1>t, FillSizeGrown, FilledFacts DEF Counted
<1>w. ASSUME NEW id PROVE Weight(m, {id}) = IF id = x THEN n ELSE 0
  BY DEF Weight
<1>2. ASSUME NEW id \in Live' PROVE orders'[id].stbf = VenueSize(id)' + FillSize(Answers', {id})
  <2>1. orders[id].stbf = VenueSize(id) + FillSize(Answers, {id}) BY DEF SizeInv, LiveCounts
  <2>2. /\ FillSize(Answers', {id}) = FillSize(Answers, {id}) + Weight(m, {id})
        /\ FillSize(Answers, {id}) \in Nat
    BY <1>1
  <2>3. CASE id = x
    <3>1. Weight(m, {id}) = n /\ VenueSize(id)' = r /\ VenueSize(id) = n + r BY <1>w, <2>3
    <3> QED BY <2>1, <2>2, <3>1
  <2>4. CASE id # x
    <3>1. Weight(m, {id}) = 0 /\ VenueSize(id)' = VenueSize(id) BY <1>w, <2>4
    <3> QED BY <2>1, <2>2, <3>1
  <2> QED BY <2>3, <2>4
<1>3. ASSUME NEW id \in Id, NEW i \in 1..Len(Answers'), Answers'[i].type = "FILL", Answers'[i].id = id
      PROVE  Answers'[i].stbf = orders'[id].stbf - Filled(Answers', {id}, i)
  <2>1. CASE i \in 1..Len(Answers) /\ Answers'[i] = Answers[i]
    <3>1. Answers[i].stbf = orders[id].stbf - Filled(Answers, {id}, i) BY <1>3, <2>1 DEF SizeInv, FillsCount
    <3>2. i \in 0..Len(Answers) BY <1>t, <2>1 DEF Counted
    <3>3. Filled(Answers', {id}, i) = Filled(Answers, {id}, i) BY <1>1, <3>2
    <3> QED BY <2>1, <3>1, <3>3
  <2>2. CASE i = Len(Answers') /\ Answers'[i] = m
    <3>1. id = x BY <1>3, <2>2
    <3>2. orders[id].stbf = n + r + FillSize(Answers, {id}) BY <3>1 DEF SizeInv, LiveCounts
    <3>3. Filled(Answers', {id}, i) = FillSize(Answers, {id}) + n BY <1>1, <1>w, <2>2, <3>1
    <3>4. FillSize(Answers, {id}) \in Nat BY <1>1
    <3> QED BY <2>2, <3>2, <3>3, <3>4
  <2> QED BY <1>g, <2>1, <2>2
<1>4. LiveCounts' BY <1>2 DEF LiveCounts
<1>5. FillsCount' BY <1>3 DEF FillsCount
<1> QED BY <1>4, <1>5 DEF SizeInv

\* Everything at the venue was there before, as large.
LEMMA VenueStays ==
    ASSUME TypeOK, TypeOK', WireInv, WireInv',
           \A id \in DOMAIN resting' : id \in DOMAIN resting /\ resting'[id] = resting[id],
           \/ Wire' = Wire
           \/ \E n : Without(Wire, Wire', n)
           \/ \E s : GrownBy(Wire, Wire', s) /\ Len(s) \in Nat /\ \A i \in 1..Len(s) : s[i].type = "CANC"
    PROVE  VenueKept
<1>t. Len(Wire) \in Nat BY Views
<1>1. ASSUME NEW i \in 1..Len(Wire'), Wire'[i].type = "ADD" PROVE \E j \in 1..Len(Wire) : Wire[j] = Wire'[i]
  <2>1. CASE Wire' = Wire BY <2>1
  <2>2. ASSUME NEW n, Without(Wire, Wire', n) PROVE \E j \in 1..Len(Wire) : Wire[j] = Wire'[i]
    <3>1. \/ i \in 1..Len(Wire) /\ Wire'[i] = Wire[i]
          \/ i + 1 \in 1..Len(Wire) /\ Wire'[i] = Wire[i + 1]
      BY <1>t, <2>2, WithoutElement
    <3> QED BY <3>1
  <2>3. ASSUME NEW s, GrownBy(Wire, Wire', s), Len(s) \in Nat, \A k \in 1..Len(s) : s[k].type = "CANC"
        PROVE  \E j \in 1..Len(Wire) : Wire[j] = Wire'[i]
    <3>1. \/ i \in 1..Len(Wire) /\ Wire'[i] = Wire[i]
          \/ i - Len(Wire) \in 1..Len(s) /\ Wire'[i] = s[i - Len(Wire)]
      BY <1>t, <2>3, GrownElement
    <3> QED BY <1>1, <2>3, <3>1
  <2> QED BY <2>1, <2>2, <2>3
<1>2. ASSUME NEW id \in Live' PROVE VenueSize(id)' = VenueSize(id)
  <2>1. WasThere(id) BY <1>1 DEF WasThere
  <2> QED BY <2>1, VenueSame
<1> QED BY <1>2 DEF VenueKept

\* A step that leaves the SOM's counts and the reports alone.
LEMMA StillSizes ==
    ASSUME PathInv, PathInv', SizeInv, CountsKept, Answers' = Answers, Live' \subseteq Live, VenueKept
    PROVE  SizeInv'
<1>0. TypeOK /\ TypeOK' /\ FlowInv /\ FlowInv' BY DEF PathInv, TypeInv
<1> DEFINE s == <<>>
<1>1. Len(s) = 0 OBVIOUS
<1> HIDE DEF s
<1>2. GrownBy(Answers, Answers', s) /\ Len(s) \in Nat /\ \A i \in 1..Len(s) : s[i].type # "FILL"
  <2>1. Len(Answers) \in Nat BY <1>0, FlowTypes
  <2> QED BY <1>1, <2>1 DEF GrownBy
<1> QED BY <1>0, <1>2, QuietSizes

\* A light places an order.
LEMMA PlaceSizes ==
    ASSUME PathInv, PathInv', SizeInv, NEW l \in Light, NEW sz \in Size, Place(l, sz)
    PROVE  SizeInv'
<1>0. TypeInv /\ TypeOK /\ TypeOK' /\ WireInv /\ WireInv' /\ FlowInv /\ FlowInv' BY DEF PathInv, TypeInv
<1>1. /\ Answers' = Answers
      /\ \/ ToClient(l, Reject(curr_id)) /\ Wire' = Wire /\ orders' = orders /\ curr_id' = curr_id
         \/ ToClient(l, Reject(curr_id)) /\ Wire' = Wire /\ Record(l, sz)
         \/ clientIn' = clientIn /\ GrownBy(Wire, Wire', <<AddOrder(curr_id, sz)>>) /\ Record(l, sz)
  BY <1>0, PlaceType
<1>2. resting' = resting BY DEF Place, venueVars
<1>3. curr_id \in Id BY <1>0, SlotView
<1>4. curr_id \notin DOMAIN orders
  <2>1. \A id \in DOMAIN orders : id < curr_id BY <1>0 DEF FlowInv, IdsUsed
  <2>2. curr_id \in Nat BY <1>0, FlowTypes
  <2> QED BY <2>1, <2>2
<1>5. /\ CountsKept
      /\ Record(l, sz) => orders'[curr_id].stbf = sz /\ curr_id' = curr_id + 1
  <2>1. CASE orders' = orders /\ ~ Record(l, sz) BY <2>1 DEF CountsKept
  <2>2. CASE Record(l, sz)
    <3>1. /\ \A id \in DOMAIN orders \ {curr_id} : orders'[id] = orders[id]
          /\ orders'[curr_id] = [client |-> l, sz |-> sz, stbf |-> sz, filled |-> FALSE]
          /\ curr_id' = curr_id + 1
      BY <1>0, <1>3, <2>2, RecordType
    <3>2. \A id \in DOMAIN orders : orders'[id] = orders[id] BY <1>4, <3>1
    <3> QED BY <3>1, <3>2 DEF CountsKept
  <2> QED BY <1>1, <2>1, <2>2
<1>6. CASE Wire' = Wire /\ curr_id' \in {curr_id, curr_id + 1}
  <2>1. Live' = Live BY <1>0, <1>2, <1>6, WireSame
  <2>2. VenueKept BY <1>0, <1>2, <1>6, VenueStays
  <2> QED BY <1>1, <1>5, <2>1, <2>2, StillSizes
<1>7. CASE GrownBy(Wire, Wire', <<AddOrder(curr_id, sz)>>) /\ Record(l, sz)
  <2>1. Live' = Live \cup {curr_id} /\ curr_id \notin Live
    BY <1>0, <1>2, <1>3, <1>5, <1>7, WireAdd
  <2>2. PICK n : n = curr_id OBVIOUS
  <2> DEFINE m == AddOrder(n, sz)
  <2>3. m.type = "ADD" /\ m.id = n /\ m.sz = sz BY DEF AddOrder
  <2>4. GrownBy(Wire, Wire', <<m>>) BY <1>7, <2>2
  <2> HIDE DEF m
  <2>5. Len(Wire) \in Nat BY <1>0, Views
  <2>6. /\ Len(Wire') \in 1..Len(Wire') /\ Wire'[Len(Wire')] = m
        /\ \A i \in 1..Len(Wire') : \/ i \in 1..Len(Wire) /\ Wire'[i] = Wire[i]
                                    \/ i = Len(Wire') /\ Wire'[i] = m
    BY <2>4, <2>5, GrownByOne
  <2>7. ASSUME NEW id \in Live PROVE VenueSize(id)' = VenueSize(id)
    <3>1. id # n BY <2>1, <2>2
    <3>2. WasThere(id) BY <1>2, <2>3, <2>6, <3>1 DEF WasThere
    <3>3. id \in Live' BY <2>1
    <3> QED BY <1>0, <3>2, <3>3, VenueSame
  <2>8. VenueSize(n)' = sz /\ sz \in Nat
    <3>1. SizeIs'
      <4>1. TypeOK' /\ WireInv' => SizeIs' BY SizeDef, PTL
      <4> QED BY <1>0, <4>1
    <3>2. PICK k : k = Len(Wire') OBVIOUS
    <3>3. k \in 1..Len(Wire') /\ Wire'[k] = m BY <2>6, <3>2
    <3>4. VenueSize(Wire[k].id)' = Wire'[k].sz BY <2>3, <3>1, <3>3 DEF SizeIs
    <3>5. Wire[k].id' = n BY <2>3, <3>3
    <3>6. VenueSize(n)' = sz BY <2>3, <3>3, <3>4, <3>5
    <3>7. sz \in Nat BY OrderAssumption DEF Size
    <3> QED BY <3>6, <3>7
  <2>9. orders'[n].stbf = sz BY <1>5, <1>7, <2>2
  <2> QED BY <1>0, <1>1, <1>5, <2>1, <2>2, <2>7, <2>8, <2>9, ForwardSizes
<1> QED BY <1>1, <1>5, <1>6, <1>7

\* A cancel, of a light, of OB::clear or of the console, and a light's report.
LEMMA OtherSizes ==
    ASSUME PathInv, PathInv', SizeInv,
           \/ Console
           \/ \E l \in Light : Cancel(l) \/ ClearLight(l) \/ Report2Light(l)
           \/ UNCHANGED vars
    PROVE  SizeInv'
<1>0. TypeInv /\ TypeOK /\ TypeOK' /\ WireInv /\ WireInv' /\ FlowInv /\ FlowInv' BY DEF PathInv, TypeInv
<1>1. /\ Answers' = Answers /\ orders' = orders /\ resting' = resting /\ curr_id' = curr_id
      /\ \/ Wire' = Wire
         \/ \E s : /\ GrownBy(Wire, Wire', s) /\ Len(s) \in Nat
                   /\ \A i \in 1..Len(s) : s[i].type = "CANC" /\ s[i].id < curr_id
  <2>1. ASSUME NEW id \in Id, NEW t \in BOOLEAN, canc_handler(id, t), del_q' = del_q, pub_q' = pub_q
        PROVE  /\ Answers' = Answers /\ orders' = orders /\ curr_id' = curr_id
               /\ \/ Wire' = Wire
                  \/ \E s : /\ GrownBy(Wire, Wire', s) /\ Len(s) \in Nat
                            /\ \A i \in 1..Len(s) : s[i].type = "CANC" /\ s[i].id < curr_id
    <3>1. orders' = orders /\ curr_id' = curr_id BY <1>0, <2>1, CancHandlerType
    <3>2. /\ Answers' = Answers
          /\ Wire' = Wire \/ (Known(id) /\ GrownBy(Wire, Wire', <<CancelOrder(id, t)>>))
      BY <1>0, <2>1, CancView
    <3> DEFINE s == <<CancelOrder(id, t)>>
    <3>3. Len(s) = 1 /\ s[1].type = "CANC" /\ s[1].id = id BY DEF CancelOrder
    <3>4. Known(id) => id < curr_id BY <1>0 DEF FlowInv, IdsUsed, Known
    <3>5. Wire' = Wire \/ (Known(id) /\ GrownBy(Wire, Wire', s)) BY <3>2
    <3> HIDE DEF s
    <3>6. Known(id) => Len(s) \in Nat /\ \A i \in 1..Len(s) : s[i].type = "CANC" /\ s[i].id < curr_id
      BY <3>3, <3>4
    <3> QED BY <3>1, <3>2, <3>5, <3>6
  <2>2. CASE UNCHANGED vars
    <3>1. /\ obIn' = obIn /\ somIn' = somIn /\ pub_q' = pub_q /\ del_q' = del_q
          /\ orders' = orders /\ curr_id' = curr_id /\ resting' = resting
      BY <2>2 DEF vars, mailVars, somVars, venueVars
    <3> QED BY <3>1 DEF Wire, Answers
  <2>3. CASE Console
    <3>1. /\ resting' = resting /\ del_q' = del_q /\ pub_q' = pub_q
          /\ orders' = orders /\ curr_id' = curr_id /\ somIn' = somIn
          /\ \/ \E id \in Id : canc_handler(id, FALSE)
             \/ \E s \in Seq(ObMsg) :
                   /\ GrownBy(Wire, Wire', s) /\ Len(s) \in Nat
                   /\ \A i \in 1..Len(s) : s[i].type = "CANC" /\ Known(s[i].id)
      BY <1>0, <2>3, ConsoleType
    <3>2. Answers' = Answers BY <3>1 DEF Answers
    <3>3. \A id \in DOMAIN orders : id < curr_id BY <1>0 DEF FlowInv, IdsUsed
    <3>4. CASE \E id \in Id : canc_handler(id, FALSE) BY <2>1, <3>1, <3>4
    <3> QED BY <3>1, <3>2, <3>3, <3>4 DEF Known
  <2>4. ASSUME NEW l \in Light, Cancel(l) \/ ClearLight(l)
        PROVE  /\ Answers' = Answers /\ orders' = orders /\ resting' = resting /\ curr_id' = curr_id
               /\ \/ Wire' = Wire
                  \/ \E s : /\ GrownBy(Wire, Wire', s) /\ Len(s) \in Nat
                            /\ \A i \in 1..Len(s) : s[i].type = "CANC" /\ s[i].id < curr_id
    <3>1. /\ resting' = resting /\ del_q' = del_q /\ pub_q' = pub_q
          /\ cancel_order(l) \/ UNCHANGED <<lightVars, somVars, mailVars, aborted>>
      BY <1>0, <2>4, CancelType
    <3>2. CASE cancel_order(l)
      <4>1. slot[l].id \in Id /\ canc_handler(slot[l].id, TRUE) BY <1>0, <3>2, CancelOrderType
      <4> QED BY <2>1, <3>1, <4>1
    <3>3. CASE UNCHANGED <<lightVars, somVars, mailVars, aborted>>
      <4>1. obIn' = obIn /\ somIn' = somIn /\ orders' = orders /\ curr_id' = curr_id
        BY <3>3 DEF somVars, mailVars
      <4> QED BY <3>1, <4>1 DEF Wire, Answers
    <3> QED BY <3>1, <3>2, <3>3
  <2>5. ASSUME NEW l \in Light, Report2Light(l)
        PROVE  Answers' = Answers /\ orders' = orders /\ resting' = resting /\ curr_id' = curr_id /\ Wire' = Wire
    BY <1>0, <2>5, ReportType DEF somVars, venueVars
  <2> QED BY <2>2, <2>3, <2>4, <2>5
<1>2. Live' = Live BY <1>0, <1>1, WireSame, WireCancel
<1>3. VenueKept BY <1>0, <1>1, VenueStays
<1>4. CountsKept BY <1>1 DEF CountsKept
<1> QED BY <1>1, <1>2, <1>3, <1>4, StillSizes

\* What fill_handler does to the order of the fill.
LEMMA FillOrder ==
    ASSUME TypeOK, NEW m, m.id \in DOMAIN orders, m.stbf \in 0..MaxSize,
           orders' = [orders EXCEPT ![m.id].filled = (m.stbf = 0) \/ @, ![m.id].stbf = m.stbf]
    PROVE  /\ DOMAIN orders' = DOMAIN orders
           /\ orders'[m.id].stbf = m.stbf /\ orders'[m.id].client = orders[m.id].client
           /\ orders'[m.id].filled <=> m.stbf = 0 \/ orders[m.id].filled
           /\ \A id \in DOMAIN orders : id # m.id => orders'[id] = orders[id]
<1>1. orders[m.id] \in [client : Light, sz : Size, stbf : 0..MaxSize, filled : BOOLEAN]
  BY DEF TypeOK, SOMTypeOK, Order
<1>2. orders'[m.id] = [orders[m.id] EXCEPT !.filled = (m.stbf = 0) \/ @, !.stbf = m.stbf] OBVIOUS
<1>3. orders'[m.id].stbf = m.stbf /\ orders'[m.id].client = orders[m.id].client BY <1>1, <1>2
<1>4. orders'[m.id].filled <=> m.stbf = 0 \/ orders[m.id].filled BY <1>1, <1>2
<1> QED BY <1>3, <1>4

\* The SOM reads a report: a fill of a known order, an ack that erases the
\* order, or a reject that changes nothing.
LEMMA SOMOrders ==
    ASSUME PathInv, Report2SOM
    PROVE  LET m == Answers[1] IN
           /\ 1 \in 1..Len(Answers) /\ Without(Answers, Answers', 1) /\ m \in Msg
           /\ \/ /\ m.type = "FILL" /\ m.id \in DOMAIN orders
                 /\ orders' = [orders EXCEPT ![m.id].filled = (m.stbf = 0) \/ @, ![m.id].stbf = m.stbf]
                 /\ pos' = pos + Sign(orders[m.id].client) * m.sz
                 /\ ToClient(orders[m.id].client, m)
              \/ /\ m.type = "CANCACK" /\ m.id \in DOMAIN orders
                 /\ orders' = Erase(m.id) /\ pos' = pos
                 /\ ToClient(orders[m.id].client, m)
              \/ /\ m.type = "CANCREJ" /\ orders' = orders /\ pos' = pos
                 /\ \/ m.id \notin DOMAIN orders /\ clientIn' = clientIn
                    \/ /\ m.id \in DOMAIN orders
                       /\ ToClient(orders[m.id].client,
                                   IF orders[m.id].filled THEN CancReject(m.id, "FILLEDALREADY") ELSE m)
<1>0. TypeInv /\ TypeOK /\ FlowInv BY DEF PathInv, TypeInv
<1>1. /\ Without(Answers, Answers', 1) /\ Head(somIn) = Answers[1] /\ Head(somIn) \in Report
  BY <1>0, SOMType
<1>2. SOMReport BY DEF Report2SOM
<1>3. 1 \in 1..Len(Answers) BY <1>1 DEF Without
<1> DEFINE m == Head(somIn)
<1>4. m \in Msg BY <1>1 DEF Msg
<1>5. Event(m) => m.id \in DOMAIN orders BY <1>0, <1>1, <1>3 DEF FlowInv, AnswerOwned, Known
<1>6. CASE fill_handler
  <2>1. m.type = "FILL" /\ m.id \in DOMAIN orders BY <1>5, <1>6 DEF fill_handler, Event
  <2>2. /\ orders' = [orders EXCEPT ![m.id].filled = (m.stbf = 0) \/ @, ![m.id].stbf = m.stbf]
        /\ pos' = pos + Sign(orders[m.id].client) * m.sz
        /\ ToClient(orders[m.id].client, m)
    BY <1>6, <2>1 DEF fill_handler, Known
  <2> QED BY <1>1, <1>3, <1>4, <2>1, <2>2
<1>7. CASE canc_ack_handler
  <2>1. m.type = "CANCACK" /\ m.id \in DOMAIN orders BY <1>5, <1>7 DEF canc_ack_handler, Event
  <2>2. orders' = Erase(m.id) /\ pos' = pos /\ ToClient(orders[m.id].client, m)
    BY <1>7, <2>1 DEF canc_ack_handler, Known
  <2> QED BY <1>1, <1>3, <1>4, <2>1, <2>2
<1>8. CASE canc_rej_handler
  <2>1. m.type = "CANCREJ" /\ orders' = orders /\ pos' = pos BY <1>8 DEF canc_rej_handler, somVars
  <2>2. \/ m.id \notin DOMAIN orders /\ clientIn' = clientIn
        \/ /\ m.id \in DOMAIN orders
           /\ ToClient(orders[m.id].client,
                       IF orders[m.id].filled THEN CancReject(m.id, "FILLEDALREADY") ELSE m)
    BY <1>8 DEF canc_rej_handler, Known
  <2> QED BY <1>1, <1>3, <1>4, <2>1, <2>2
<1> QED BY <1>2, <1>6, <1>7, <1>8 DEF SOMReport

\* The SOM reads a report.
LEMMA SOMSizes ==
    ASSUME PathInv, PathInv', SizeInv, Report2SOM
    PROVE  SizeInv'
<1>0. TypeInv /\ TypeOK /\ TypeOK' /\ WireInv /\ WireInv' /\ FlowInv /\ FlowInv' BY DEF PathInv, TypeInv
<1>1. Wire' = Wire /\ resting' = resting /\ curr_id' = curr_id BY <1>0, SOMType DEF venueVars
<1>2. Live' = Live BY <1>0, <1>1, WireSame
<1>3. VenueKept BY <1>0, <1>1, VenueStays
<1>4. PICK m : m = Answers[1] OBVIOUS
<1>5. 1 \in 1..Len(Answers) /\ Without(Answers, Answers', 1) /\ m \in Msg BY <1>4, SOMOrders
<1>6. CASE /\ m.type = "FILL" /\ m.id \in DOMAIN orders
           /\ orders' = [orders EXCEPT ![m.id].filled = (m.stbf = 0) \/ @, ![m.id].stbf = m.stbf]
  <2>1. m.stbf \in 0..MaxSize BY <1>5, <1>6 DEF Msg, Report, Rejection
  <2>2. /\ DOMAIN orders' = DOMAIN orders /\ orders'[m.id].stbf = m.stbf
        /\ \A id \in DOMAIN orders : id # m.id => orders'[id] = orders[id]
    BY <1>0, <1>6, <2>1, FillOrder
  <2> QED BY <1>0, <1>2, <1>3, <1>4, <1>5, <1>6, <2>2, FillReadSizes
<1>7. CASE m.type # "FILL" /\ (orders' = orders \/ orders' = Erase(m.id))
  <2>1. CountsKept BY <1>7 DEF CountsKept, Erase
  <2> QED BY <1>0, <1>2, <1>3, <1>4, <1>5, <1>7, <2>1, PassedSizes
<1> QED BY <1>4, <1>6, <1>7, SOMOrders

\* The book's steps.
LEMMA BookSizes ==
    ASSUME PathInv, PathInv', SizeInv, Book
    PROVE  SizeInv'
<1>0. TypeInv /\ TypeOK /\ TypeOK' /\ WireInv /\ WireInv' /\ FlowInv /\ FlowInv' BY DEF PathInv, TypeInv
<1>1. BookView /\ orders' = orders /\ curr_id' = curr_id BY <1>0, BookType DEF somVars
<1>2. CountsKept BY <1>1 DEF CountsKept
<1>s. SizeIs /\ SizeIs' /\ LiveIs /\ LiveIs'
  <2>1. TypeOK' /\ WireInv' => SizeIs' BY SizeDef, PTL
  <2>2. TypeOK' => LiveIs' BY LiveDef, PTL
  <2> QED BY <1>0, <2>1, <2>2, SizeDef, LiveDef
<1>3. CASE Wire' = Wire /\ Answers' = Answers /\ resting' = resting
  <2>1. Live' = Live BY <1>0, <1>1, <1>3, WireSame
  <2>2. VenueKept BY <1>0, <1>3, VenueStays
  <2> QED BY <1>2, <1>3, <2>1, <2>2, StillSizes
<1>4. ASSUME NEW n \in 1..Len(Wire), Without(Wire, Wire', n), Wire[n].type = "CANC",
             Answers' = Answers, resting' = resting
      PROVE  SizeInv'
  <2>1. PICK mid, type : mid = Wire[n].id /\ type = Wire[n].type OBVIOUS
  <2>2. /\ \A id : id # mid => (id \in DOMAIN resting' <=> id \in DOMAIN resting)
        /\ DOMAIN resting' = DOMAIN resting /\ type # "ADD"
    BY <1>4, <2>1
  <2>3. Live' = Live BY <1>0, <1>1, <1>4, <2>1, <2>2, WireLeave
  <2>4. VenueKept BY <1>0, <1>4, VenueStays
  <2> QED BY <1>2, <1>4, <2>3, <2>4, StillSizes
<1>5. CASE Without(Wire, Wire', 1) /\ Arrives(Wire[1])
  <2>1. PICK mid, type, sz : mid = Wire[1].id /\ type = Wire[1].type /\ sz = Wire[1].sz OBVIOUS
  <2>2. 1 \in 1..Len(Wire) BY <1>5 DEF Without
  <2>3. type = "ADD" => VenueSize(mid) = sz /\ sz \in Nat BY <1>s, <2>1, <2>2 DEF SizeIs
  <2>4. CASE /\ type = "ADD" /\ resting' = resting
             /\ GrownBy(Answers, Answers', <<Fill(mid, sz, 0)>>)
    <3>1. /\ \A id : id # mid => (id \in DOMAIN resting' <=> id \in DOMAIN resting)
          /\ DOMAIN resting' = DOMAIN resting
      BY <2>4
    <3>2. Live' = Live \ {mid} /\ mid \in Live BY <1>0, <1>1, <1>5, <2>1, <2>4, <3>1, WireLeave
    <3>3. VenueKept BY <1>0, <1>5, <2>4, VenueStays
    <3> DEFINE m == Fill(mid, sz, 0)
    <3>4. m.id = mid /\ m.type = "FILL" /\ m.sz = sz /\ m.stbf = 0 BY ReportKinds
    <3>5. GrownBy(Answers, Answers', <<m>>) BY <2>4
    <3> HIDE DEF m
    <3>6. /\ VenueSize(mid) = sz + 0 /\ sz \in Nat /\ 0 \in Nat /\ mid \notin Live' /\ Live' \subseteq Live
          /\ \A id \in Live' : VenueSize(id)' = VenueSize(id)
      BY <2>3, <2>4, <3>2, <3>3 DEF VenueKept
    <3> QED BY <1>0, <1>1, <3>2, <3>4, <3>5, <3>6, FillSizes
  <2>5. CASE /\ type = "ADD" /\ Answers' = Answers
             /\ DOMAIN resting' = DOMAIN resting \cup {mid}
             /\ resting'[mid] = sz /\ \A i \in DOMAIN resting \ {mid} : resting'[i] = resting[i]
    <3>1. /\ \A id : id # mid => (id \in DOMAIN resting' <=> id \in DOMAIN resting)
          /\ mid \in DOMAIN resting'
      BY <2>5
    <3>2. Live' = Live BY <1>0, <1>1, <1>5, <2>1, <2>5, <3>1, WireLeave
    <3>3. VenueSize(mid)' = VenueSize(mid)
      <4>1. VenueSize(mid)' = sz BY <1>s, <2>5, <3>1 DEF SizeIs
      <4> QED BY <2>3, <2>5, <4>1
    <3>4. ASSUME NEW id \in Live', id # mid PROVE VenueSize(id)' = VenueSize(id)
      <4>1. Len(Wire) \in Nat BY <1>0, Views
      <4>2. \A i \in 1..Len(Wire') : \/ i \in 1..Len(Wire) /\ Wire'[i] = Wire[i]
                                     \/ i + 1 \in 1..Len(Wire) /\ Wire'[i] = Wire[i + 1]
        BY <1>5, <4>1, WithoutElement
      <4>3. \A i \in 1..Len(Wire') : \E j \in 1..Len(Wire) : Wire[j] = Wire'[i] BY <4>2
      <4>4. WasThere(id) BY <2>5, <3>4, <4>3 DEF WasThere
      <4> QED BY <1>0, <4>4, VenueSame
    <3>5. VenueKept BY <3>3, <3>4 DEF VenueKept
    <3> QED BY <1>2, <2>5, <3>2, <3>5, StillSizes
  <2>6. ASSUME NEW m, m.type # "FILL", GrownBy(Answers, Answers', <<m>>), Live' \subseteq Live,
               \A id \in DOMAIN resting' : id \in DOMAIN resting /\ resting'[id] = resting[id]
        PROVE  SizeInv'
    <3> DEFINE s == <<m>>
    <3>1. Len(s) = 1 /\ s[1] = m OBVIOUS
    <3>2. GrownBy(Answers, Answers', s) BY <2>6
    <3> HIDE DEF s
    <3>3. Len(s) \in Nat /\ \A i \in 1..Len(s) : s[i].type # "FILL" BY <2>6, <3>1
    <3>4. VenueKept BY <1>0, <1>5, <2>6, VenueStays
    <3> QED BY <1>0, <1>2, <2>6, <3>2, <3>3, <3>4, QuietSizes
  <2>7. CASE /\ type = "CANC" /\ mid \in DOMAIN resting /\ resting' = Remove(mid)
             /\ GrownBy(Answers, Answers', <<CancAck(mid)>>)
    <3>0. DOMAIN resting' = DOMAIN resting \ {mid} /\ \A id \in DOMAIN resting' : resting'[id] = resting[id]
      BY <2>7 DEF Remove
    <3>1. /\ \A id : id # mid => (id \in DOMAIN resting' <=> id \in DOMAIN resting)
          /\ mid \notin DOMAIN resting'
      BY <3>0
    <3>2. Live' = Live \ {mid} BY <1>0, <1>1, <1>5, <2>1, <2>7, <3>1, WireLeave
    <3>3. CancAck(mid).type # "FILL" BY DEF CancAck
    <3> QED BY <2>6, <2>7, <3>0, <3>2, <3>3
  <2>8. CASE /\ type = "CANC" /\ mid \notin DOMAIN resting /\ resting' = resting
             /\ GrownBy(Answers, Answers', <<CancReject(mid, "NOTFOUND")>>)
    <3>1. /\ \A id : id # mid => (id \in DOMAIN resting' <=> id \in DOMAIN resting)
          /\ DOMAIN resting' = DOMAIN resting
      BY <2>8
    <3>2. Live' = Live BY <1>0, <1>1, <1>5, <2>1, <2>8, <3>1, WireLeave
    <3>3. CancReject(mid, "NOTFOUND").type # "FILL" BY DEF CancReject
    <3> QED BY <2>6, <2>8, <3>2, <3>3
  <2> QED BY <1>5, <2>1, <2>4, <2>5, <2>7, <2>8 DEF Arrives
<1> QED BY <1>1, <1>3, <1>4, <1>5 DEF BookView

\* The market's steps.
LEMMA MarketSizes ==
    ASSUME PathInv, PathInv', SizeInv, Market
    PROVE  SizeInv'
<1>0. TypeInv /\ TypeOK /\ TypeOK' /\ WireInv /\ WireInv' /\ FlowInv /\ FlowInv' BY DEF PathInv, TypeInv
<1>1. MarketView /\ orders' = orders /\ curr_id' = curr_id /\ Wire' = Wire BY <1>0, MarketType DEF somVars
<1>2. CountsKept BY <1>1 DEF CountsKept
<1>s. SizeIs /\ SizeIs'
  <2>1. TypeOK' /\ WireInv' => SizeIs' BY SizeDef, PTL
  <2> QED BY <1>0, <2>1, SizeDef
<1>3. CASE resting' = resting /\ Answers' = Answers
  <2>1. Live' = Live BY <1>0, <1>1, <1>3, WireSame
  <2>2. VenueKept BY <1>0, <1>1, <1>3, VenueStays
  <2> QED BY <1>2, <1>3, <2>1, <2>2, StillSizes
<1>4. ASSUME NEW id \in DOMAIN resting, NEW n \in 1..resting[id],
             GrownBy(Answers, Answers', <<Fill(id, n, resting[id] - n)>>),
             resting' = IF n = resting[id] THEN Remove(id) ELSE [resting EXCEPT ![id] = @ - n]
      PROVE  SizeInv'
  <2>0. resting[id] \in Nat BY <1>0, OrderAssumption DEF TypeOK, VenueTypeOK, Size
  <2>1. PICK r : r = resting[id] - n OBVIOUS
  <2>2. n \in Nat /\ r \in Nat /\ resting[id] = n + r /\ (n = resting[id] <=> r = 0) BY <2>0, <2>1
  <2>3. /\ DOMAIN resting' = IF r = 0 THEN DOMAIN resting \ {id} ELSE DOMAIN resting
        /\ r # 0 => resting'[id] = r
        /\ \A k \in DOMAIN resting' : k # id => resting'[k] = resting[k]
    BY <1>4, <2>1, <2>2 DEF Remove
  <2>4. DOMAIN resting' \subseteq DOMAIN resting BY <2>3
  <2>5. Live' = Live \ (DOMAIN resting \ DOMAIN resting') /\ DOMAIN resting \subseteq Live
    BY <1>0, <1>1, <2>4, WireSame
  <2>6. VenueSize(id) = n + r BY <1>s, <2>2 DEF SizeIs
  <2>7. id \in Live' => VenueSize(id)' = r
    <3>1. id \in Live' => id \in DOMAIN resting' BY <2>5
    <3>2. id \in DOMAIN resting' => resting'[id] = r BY <2>3
    <3>3. id \in DOMAIN resting' => VenueSize(id)' = resting'[id] BY <1>s DEF SizeIs
    <3> QED BY <3>1, <3>2, <3>3
  <2>8. ASSUME NEW k \in Live', k # id PROVE VenueSize(k)' = VenueSize(k)
    <3>1. WasThere(k) BY <1>1, <2>3, <2>4, <2>8 DEF WasThere
    <3> QED BY <1>0, <3>1, VenueSame
  <2> DEFINE m == Fill(id, n, r)
  <2>9. m.id = id /\ m.type = "FILL" /\ m.sz = n /\ m.stbf = r BY ReportKinds
  <2>10. GrownBy(Answers, Answers', <<m>>) BY <1>4, <2>1
  <2> HIDE DEF m
  <2>11. id \in Live /\ Live' \subseteq Live BY <2>5
  <2> QED BY <1>0, <1>1, <2>2, <2>6, <2>7, <2>8, <2>9, <2>10, <2>11, FillSizes
<1> QED BY <1>1, <1>3, <1>4 DEF MarketView

\* The end of a clear.
LEMMA ClearEndSizes ==
    ASSUME PathInv, PathInv', SizeInv, ClearEnd
    PROVE  SizeInv'
<1>0. TypeInv /\ TypeOK /\ TypeOK' /\ WireInv /\ WireInv' /\ FlowInv /\ FlowInv' BY DEF PathInv, TypeInv
<1>1. /\ orders' = orders /\ curr_id' = curr_id /\ Wire' = Wire /\ DOMAIN resting' = {}
  BY <1>0, ClearEndType DEF somVars
<1>2. CountsKept BY <1>1 DEF CountsKept
<1>3. PICK s : Published(s) /\ \A i \in 1..Len(s) : s[i].type = "CANCACK" BY <1>0, ClearEndCases
<1>4. GrownBy(Answers, Answers', s) /\ Len(s) \in Nat /\ Live' \subseteq Live BY <1>3 DEF Published
<1>5. \A i \in 1..Len(s) : s[i].type # "FILL" BY <1>3
<1>6. VenueKept BY <1>0, <1>1, VenueStays
<1> QED BY <1>0, <1>2, <1>4, <1>5, <1>6, QuietSizes

\* Every step keeps the counts.
LEMMA SizeStep ==
    ASSUME PathInv, PathInv', SizeInv, [Next]_vars
    PROVE  SizeInv'
<1>1. ASSUME NEW l \in Light, NEW sz \in Size, Place(l, sz) PROVE SizeInv' BY <1>1, PlaceSizes
<1>2. CASE \/ Console
           \/ \E l \in Light : Cancel(l) \/ ClearLight(l) \/ Report2Light(l)
           \/ UNCHANGED vars
  BY <1>2, OtherSizes
<1>3. CASE Report2SOM BY <1>3, SOMSizes
<1>4. CASE Book BY <1>4, BookSizes
<1>5. CASE Market BY <1>5, MarketSizes
<1>6. CASE ClearEnd BY <1>6, ClearEndSizes
<1> QED BY <1>1, <1>2, <1>3, <1>4, <1>5, <1>6 DEF Next

\* Nothing is in flight at first.
LEMMA SizeInit ==
    ASSUME Init
    PROVE  SizeInv
<1>1. Len(Answers) = 0 /\ PathInv BY TypeInit, PathInit
<1>2. DOMAIN orders = {} BY DEF Init, SOMInit
<1>3. Live = {} BY <1>1, <1>2 DEF PathInv, FlowInv, LiveOwned, Known
<1> QED BY <1>1, <1>3 DEF SizeInv, LiveCounts, FillsCount

\* No order fills unseen: one on the wire or in the book is known to the SOM,
\* is the order in its owner's slot, and the SOM counts as unfilled exactly what
\* is left of it plus the fills on their way (order_handler, fill_handler and the
\* venue, whatever is cancelled, cleared or stopped in between).
THEOREM LiveOrderKnownCorrect == Spec => []LiveOrderKnown
<1>1. Init => PathInv /\ SizeInv BY PathInit, SizeInit
<1>2. PathInv /\ SizeInv /\ [Next]_vars => PathInv' /\ SizeInv'
  <2> SUFFICES ASSUME PathInv, SizeInv, [Next]_vars PROVE PathInv' /\ SizeInv'
    OBVIOUS
  <2>1. PathInv' BY PathStep
  <2> QED BY <2>1, SizeStep
<1>3. PathInv /\ SizeInv => LiveOrderKnown
  <2> SUFFICES ASSUME PathInv, SizeInv, NEW id \in Id, AtVenue(id)
               PROVE  /\ Known(id)
                      /\ orders[id].stbf = VenueSize(id) + FillSize(Answers, {id})
                      /\ slot[orders[id].client].id = id
    BY DEF LiveOrderKnown
  <2>1. id \in Live BY DEF Live
  <2>2. Known(id) /\ slot[orders[id].client].id = id BY <2>1 DEF PathInv, FlowInv, LiveOwned
  <2>3. orders[id].stbf = VenueSize(id) + FillSize(Answers, {id}) BY <2>1 DEF SizeInv, LiveCounts
  <2> QED BY <2>2, <2>3
<1> QED BY <1>1, <1>2, <1>3, PTL DEF Spec

-----------------------------------------------------------------------------
(* Sums over the lights *)

\* Lights lists every light once.
LEMMA LightsList ==
    /\ Lights \in [1..Cardinality(Light) -> Light] /\ Cardinality(Light) \in Nat
    /\ DOMAIN Lights = 1..Cardinality(Light)
    /\ \A l \in Light : \E i \in 1..Cardinality(Light) : Lights[i] = l
    /\ \A i, j \in 1..Cardinality(Light) : Lights[i] = Lights[j] => i = j
<1> DEFINE n == Cardinality(Light)
<1> DEFINE P(s) == /\ \A l \in Light : \E i \in DOMAIN s : s[i] = l
                   /\ \A i, j \in DOMAIN s : s[i] = s[j] => i = j
<1>1. n \in Nat /\ ExistsBijection(1..n, Light) BY OrderAssumption, FS_CardinalityType
<1>2. PICK b : b \in Bijection(1..n, Light) BY <1>1 DEF ExistsBijection
<1>3. b \in [1..n -> Light] /\ (\A i, j \in 1..n : b[i] = b[j] => i = j) /\ b \in Surjection(1..n, Light)
  BY <1>2, Fun_BijectionProperties
<1>4. \A l \in Light : \E i \in 1..n : b[i] = l BY <1>3 DEF Surjection
<1>5. b \in [1..n -> Light] /\ P(b) BY <1>3, <1>4
<1>6. Lights = CHOOSE s \in [1..n -> Light] : P(s) BY DEF Lights
<1> HIDE DEF P
<1>7. Lights \in [1..n -> Light] /\ P(Lights) BY <1>5, <1>6
<1>8. DOMAIN Lights = 1..n BY <1>7
<1> QED BY <1>1, <1>7, <1>8 DEF P

\* What f gives the lights, altogether.
OverLights(f) == Sum([i \in DOMAIN Lights |-> f[Lights[i]]])

\* Such a sum is over a sequence of integers.
LEMMA OverLightsSeq ==
    \A f \in [Light -> Int] :
        LET s == [i \in DOMAIN Lights |-> f[Lights[i]]] IN
        /\ s \in Seq(Int) /\ Len(s) = Cardinality(Light) /\ DOMAIN s = 1..Len(s)
        /\ \A i \in 1..Len(s) : s[i] = f[Lights[i]] /\ Lights[i] \in Light
<1> SUFFICES ASSUME NEW f \in [Light -> Int]
             PROVE  LET s == [i \in DOMAIN Lights |-> f[Lights[i]]] IN
                    /\ s \in Seq(Int) /\ Len(s) = Cardinality(Light) /\ DOMAIN s = 1..Len(s)
                    /\ \A i \in 1..Len(s) : s[i] = f[Lights[i]] /\ Lights[i] \in Light
  OBVIOUS
<1> DEFINE n == Cardinality(Light)
<1> DEFINE s == [i \in DOMAIN Lights |-> f[Lights[i]]]
<1>1. n \in Nat /\ DOMAIN Lights = 1..n /\ \A i \in 1..n : Lights[i] \in Light BY LightsList
<1>2. s \in [1..n -> Int] /\ \A i \in 1..n : s[i] = f[Lights[i]] BY <1>1
<1> HIDE DEF s, n
<1>3. s \in Seq(Int)
  <2>1. [1..n -> Int] \in {[1..k -> Int] : k \in Nat} BY <1>1
  <2> QED BY <1>2, <2>1, SeqDef
<1>4. Len(s) = n BY <1>1, <1>2, <1>3
<1>5. DOMAIN s = 1..n BY <1>2
<1> QED BY <1>1, <1>2, <1>3, <1>4, <1>5 DEF s, n

\* One light's share changes.
LEMMA OverLightsUpdate ==
    \A f, g \in [Light -> Int] : \A l \in Light :
        (\A k \in Light : k # l => g[k] = f[k]) => OverLights(g) = OverLights(f) + (g[l] - f[l])
<1> TAKE f, g \in [Light -> Int]
<1> TAKE l \in Light
<1> HAVE \A k \in Light : k # l => g[k] = f[k]
<1> DEFINE s == [i \in DOMAIN Lights |-> f[Lights[i]]]
<1> DEFINE t == [i \in DOMAIN Lights |-> g[Lights[i]]]
<1> DEFINE n == Cardinality(Light)
<1>1. /\ s \in Seq(Int) /\ Len(s) = n /\ t \in Seq(Int) /\ Len(t) = n
      /\ \A i \in 1..n : s[i] = f[Lights[i]] /\ t[i] = g[Lights[i]] /\ Lights[i] \in Light
  BY OverLightsSeq
<1>2. OverLights(f) = Sum(s) /\ OverLights(g) = Sum(t) BY DEF OverLights
<1> HIDE DEF s, t
<1>3. PICK j \in 1..n : Lights[j] = l BY LightsList
<1>4. \A i \in 1..n : i # j => Lights[i] # l BY <1>3, LightsList
<1>5. \A i \in 1..Len(s) : i # j => t[i] = s[i] BY <1>1, <1>4
<1>6. j \in 1..Len(s) /\ Len(s) = Len(t) BY <1>1
<1>7. Sum(t) = Sum(s) + (t[j] - s[j]) BY <1>1, <1>5, <1>6, SumUpdate
<1> QED BY <1>1, <1>2, <1>3, <1>7

\* Nothing for any light is nothing.
LEMMA OverLightsZero ==
    \A f \in [Light -> Int] : (\A l \in Light : f[l] = 0) => OverLights(f) = 0
<1> TAKE f \in [Light -> Int]
<1> HAVE \A l \in Light : f[l] = 0
<1> DEFINE s == [i \in DOMAIN Lights |-> f[Lights[i]]]
<1>1. s \in Seq(Int) /\ \A i \in 1..Len(s) : s[i] = f[Lights[i]] /\ Lights[i] \in Light BY OverLightsSeq
<1>2. OverLights(f) = Sum(s) BY DEF OverLights
<1> HIDE DEF s
<1>3. Len(s) \in Nat /\ 0 \in 0..Len(s) /\ \A i \in 0+1..Len(s) : s[i] = 0 BY <1>1
<1>4. Sum(s) = Part(s)[0] BY <1>1, <1>3, PartFlat
<1> QED BY <1>1, <1>2, <1>4, PartFacts

\* A position counts one way or the other.
LEMMA SignTimes ==
    \A l \in Light : \A a, b \in Int :
        /\ Sign(l) * (a + b) = Sign(l) * a + Sign(l) * b
        /\ Sign(l) * a \in Int /\ Sign(l) \in Int /\ Sign(l) * 0 = 0
<1> TAKE l \in Light
<1> TAKE a, b \in Int
<1>1. CASE Sign(l) = 1 BY <1>1
<1>2. CASE Sign(l) = -1 BY <1>2
<1> QED BY <1>1, <1>2 DEF Sign

\* The fills in each light's mailbox.
MailFills == [l \in Light |-> Sign(l) * FillSize(clientIn[l], Id)]
MailCounts == MailFills \in [Light -> Int] /\ \A l \in Light : FillSize(clientIn[l], Id) \in Nat

\* They have a size.
LEMMA MailCountsTypes == TypeOK => MailCounts
<1> SUFFICES ASSUME TypeOK PROVE MailCounts
  OBVIOUS
<1>1. \A l \in Light : FillSize(clientIn[l], Id) \in Nat
  <2>1. Counted BY CountedTypes
  <2> QED BY <2>1, FilledFacts DEF Counted
<1>2. \A l \in Light : Sign(l) * FillSize(clientIn[l], Id) \in Int BY <1>1, SignTimes
<1> QED BY <1>1, <1>2 DEF MailCounts, MailFills

\* PositionsAgree as a sum over the lights.
PositionsDiffer == pos = pcoord + OverLights(MailFills)

\* That is what it says.
LEMMA PositionsDef == PositionsAgree <=> PositionsDiffer
<1>1. \A i \in DOMAIN Lights : Lights[i] \in Light BY LightsList
<1>2. [i \in DOMAIN Lights |-> Sign(Lights[i]) * FillSize(clientIn[Lights[i]], Id)]
        = [i \in DOMAIN Lights |-> MailFills[Lights[i]]]
  BY <1>1 DEF MailFills
<1> QED BY <1>2 DEF PositionsAgree, PositionsDiffer, OverLights

\* A sum over the lights is an integer.
LEMMA OverLightsInt ==
    \A f \in [Light -> Int] : OverLights(f) \in Int
<1> TAKE f \in [Light -> Int]
<1> DEFINE s == [i \in DOMAIN Lights |-> f[Lights[i]]]
<1>1. s \in Seq(Int) BY OverLightsSeq
<1>2. OverLights(f) = Sum(s) BY DEF OverLights
<1> HIDE DEF s
<1>3. Len(s) \in Nat /\ Len(s) \in 0..Len(s) BY <1>1
<1> QED BY <1>1, <1>2, <1>3, PartFacts

\* The mail of one light changes by d, and so does the difference of the
\* positions.
LEMMA PositionsMove ==
    ASSUME TypeOK, TypeOK', PositionsAgree, NEW l \in Light, NEW d \in Int,
           \A k \in Light : k # l => clientIn'[k] = clientIn[k],
           FillSize(clientIn'[l], Id) = FillSize(clientIn[l], Id) + d,
           pos' - pcoord' = (pos - pcoord) + Sign(l) * d
    PROVE  PositionsAgree'
<1>1. MailCounts /\ MailCounts'
  <2>1. TypeOK' => MailCounts' BY MailCountsTypes, PTL
  <2> QED BY <2>1, MailCountsTypes
<1>2. pos = pcoord + OverLights(MailFills) BY PositionsDef DEF PositionsDiffer
<1>3. MailFills \in [Light -> Int] /\ MailFills' \in [Light -> Int] BY <1>1 DEF MailCounts
<1>4. \A k \in Light : k # l => MailFills'[k] = MailFills[k] BY DEF MailFills
<1>5. MailFills'[l] - MailFills[l] = Sign(l) * d
  <2>1. FillSize(clientIn[l], Id) \in Int BY <1>1 DEF MailCounts
  <2>2. Sign(l) * (FillSize(clientIn[l], Id) + d) = Sign(l) * FillSize(clientIn[l], Id) + Sign(l) * d
    BY <2>1, SignTimes
  <2>3. MailFills'[l] = Sign(l) * FillSize(clientIn[l], Id) + Sign(l) * d BY <2>2 DEF MailFills
  <2>4. MailFills[l] = Sign(l) * FillSize(clientIn[l], Id) BY DEF MailFills
  <2>5. Sign(l) * d \in Int BY SignTimes
  <2> QED BY <1>3, <2>3, <2>4, <2>5
<1>6. OverLights(MailFills') = OverLights(MailFills) + (MailFills'[l] - MailFills[l])
  BY <1>3, <1>4, OverLightsUpdate
<1>7. OverLights(MailFills) \in Int /\ Sign(l) * d \in Int BY <1>3, OverLightsInt, SignTimes
<1>8. pos \in Int /\ pcoord \in Int /\ pos' \in Int /\ pcoord' \in Int
  BY DEF TypeOK, SOMTypeOK, LightTypeOK
<1>9. pos' = pcoord' + OverLights(MailFills') BY <1>2, <1>5, <1>6, <1>7, <1>8
<1>10. PositionsAgree' <=> PositionsDiffer' BY PositionsDef, PTL
<1> QED BY <1>9, <1>10 DEF PositionsDiffer

\* A light gets a message; the SOM's position moves by what it tells.
LEMMA PositionsTold ==
    ASSUME TypeOK, TypeOK', PositionsAgree, NEW l \in Light, NEW m \in Msg, MailTo(l, m),
           pos' = pos + Sign(l) * Weight(m, Id), pcoord' = pcoord
    PROVE  PositionsAgree'
<1>1. Counted /\ Counted'
  <2>1. TypeOK' => Counted' BY CountedTypes, PTL
  <2> QED BY <2>1, CountedTypes
<1>2. GrownBy(clientIn[l], clientIn'[l], <<m>>) /\ \A k \in Light : k # l => clientIn'[k] = clientIn[k]
  BY DEF MailTo
<1>3. FillSize(clientIn'[l], Id) = FillSize(clientIn[l], Id) + Weight(m, Id)
  BY <1>1, <1>2, FillSizeGrown DEF Counted
<1>4. Weight(m, Id) \in Int
  <2>1. m.type = "FILL" => m.sz \in Nat BY MsgFacts
  <2> QED BY <2>1 DEF Weight
<1>5. pos \in Int /\ pcoord \in Int /\ Sign(l) * Weight(m, Id) \in Int
  BY <1>4, SignTimes DEF TypeOK, SOMTypeOK, LightTypeOK
<1>6. pos' - pcoord' = (pos - pcoord) + Sign(l) * Weight(m, Id) BY <1>5
<1> QED BY <1>2, <1>3, <1>4, <1>6, PositionsMove

\* A light takes a message, and adds what it tells to PCoord.
LEMMA PositionsTaken ==
    ASSUME TypeOK, TypeOK', PositionsAgree, NEW l \in Light, NEW m \in Msg, m = clientIn[l][1],
           Without(clientIn[l], clientIn'[l], 1), \A k \in Light : k # l => clientIn'[k] = clientIn[k],
           pcoord' = pcoord + Sign(l) * Weight(m, Id), pos' = pos
    PROVE  PositionsAgree'
<1>1. Counted /\ Counted'
  <2>1. TypeOK' => Counted' BY CountedTypes, PTL
  <2> QED BY <2>1, CountedTypes
<1>2. FillSize(clientIn[l], Id) = Weight(m, Id) + FillSize(clientIn'[l], Id)
  BY <1>1, FillSizeTail DEF Counted
<1>3. Weight(m, Id) \in Int /\ - Weight(m, Id) \in Int /\ FillSize(clientIn'[l], Id) \in Int
  <2>1. m.type = "FILL" => m.sz \in Nat BY MsgFacts
  <2>2. Weight(m, Id) \in Int BY <2>1 DEF Weight
  <2>3. FillSize(clientIn'[l], Id) \in Nat BY <1>1, FilledFacts DEF Counted
  <2> QED BY <2>2, <2>3
<1>4. PICK w \in Int : w = Weight(m, Id) BY <1>3
<1>5. PICK d \in Int : d = -w OBVIOUS
<1>6. FillSize(clientIn'[l], Id) = FillSize(clientIn[l], Id) + d BY <1>2, <1>3, <1>4, <1>5
<1>7. Sign(l) * w \in Int /\ Sign(l) * d = - (Sign(l) * w)
  <2>1. Sign(l) * (w + d) = Sign(l) * w + Sign(l) * d /\ Sign(l) * 0 = 0 BY SignTimes
  <2>2. Sign(l) * w \in Int /\ Sign(l) * d \in Int BY SignTimes
  <2>3. w + d = 0 BY <1>5
  <2> QED BY <2>1, <2>2, <2>3
<1>8. pos \in Int /\ pcoord \in Int BY DEF TypeOK, SOMTypeOK, LightTypeOK
<1>9. pos' - pcoord' = (pos - pcoord) + Sign(l) * d BY <1>4, <1>7, <1>8
<1> QED BY <1>6, <1>9, PositionsMove

\* Nothing of it changes.
LEMMA PositionsStay ==
    ASSUME PositionsAgree, clientIn' = clientIn, pos' = pos, pcoord' = pcoord
    PROVE  PositionsAgree'
<1>1. pos = pcoord + OverLights(MailFills) BY PositionsDef DEF PositionsDiffer
<1>2. MailFills' = MailFills BY DEF MailFills
<1>3. PositionsAgree' <=> PositionsDiffer' BY PositionsDef, PTL
<1> QED BY <1>1, <1>2, <1>3 DEF PositionsDiffer

\* A message that is no fill moves no position.
LEMMA PositionsQuiet ==
    ASSUME TypeOK, TypeOK', PositionsAgree, NEW l \in Light, NEW m \in Msg, m.type # "FILL",
           pos' = pos, pcoord' = pcoord, clientIn' = clientIn \/ ToClient(l, m)
    PROVE  PositionsAgree'
<1>1. CASE clientIn' = clientIn BY <1>1, PositionsStay
<1>2. CASE ToClient(l, m)
  <2>1. MailTo(l, m) BY <1>2, ToClientType DEF MailTo
  <2>2. Weight(m, Id) = 0 BY DEF Weight
  <2>3. pos \in Int /\ Sign(l) * 0 = 0 BY SignTimes DEF TypeOK, SOMTypeOK
  <2>4. pos' = pos + Sign(l) * Weight(m, Id) BY <2>2, <2>3
  <2> QED BY <2>1, <2>4, PositionsTold
<1> QED BY <1>1, <1>2

\* A cancel, of a light or of the console.
LEMMA PositionsCanc ==
    ASSUME TypeOK, TypeOK', PositionsAgree, NEW id \in Id, NEW t \in BOOLEAN, canc_handler(id, t),
           pcoord' = pcoord
    PROVE  PositionsAgree'
<1>1. /\ pos' = pos
      /\ \/ clientIn' = clientIn
         \/ Known(id) /\ ToClient(orders[id].client, CancReject(id, "FILLEDALREADY"))
  BY CancHandlerType
<1>2. CASE clientIn' = clientIn BY <1>1, <1>2, PositionsStay
<1>3. CASE Known(id) /\ ToClient(orders[id].client, CancReject(id, "FILLEDALREADY"))
  <2>1. CancReject(id, "FILLEDALREADY") \in Msg BY MessageTypes
  <2>2. CancReject(id, "FILLEDALREADY").type # "FILL" BY DEF CancReject
  <2>3. orders[id].client \in Light BY <1>3, FlowTypes DEF Known
  <2> QED BY <1>1, <1>3, <2>1, <2>2, <2>3, PositionsQuiet
<1> QED BY <1>1, <1>2, <1>3

\* A light reads a report: only a fill moves PCoord.
LEMMA PositionsReport ==
    ASSUME TypeInv, TypeOK', PositionsAgree, NEW l \in Light, Report2Light(l)
    PROVE  PositionsAgree'
<1>0. TypeOK BY DEF TypeInv
<1>1. UNCHANGED somVars /\ \E t : Receive(l, t) BY ReportType
<1>2. PICK m : m = Head(clientIn[l]) OBVIOUS
<1>3. /\ m \in Msg /\ m = clientIn[l][1]
      /\ Without(clientIn[l], clientIn'[l], 1)
      /\ \A k \in Light : k # l => clientIn'[k] = clientIn[k]
  BY <1>0, <1>1, <1>2, ReceiveType
<1>4. LightReport(l) BY DEF Report2Light
<1>5. m.id \in Id BY <1>3, MsgFacts
<1>6. pos' = pos BY <1>1 DEF somVars
<1>7. pcoord' = pcoord + Sign(l) * Weight(m, Id)
  <2>1. CASE som_fill_handler(l)
    <3>1. m.type = "FILL" /\ pcoord' = pcoord + Sign(l) * m.sz
      BY <1>2, <2>1 DEF som_fill_handler, Receive
    <3>2. Weight(m, Id) = m.sz BY <1>5, <3>1 DEF Weight
    <3> QED BY <3>1, <3>2
  <2>2. CASE som_canc_ack_handler(l) \/ som_cancrej_handler(l) \/ som_reject_handler(l)
    <3>1. m.type # "FILL" BY <1>2, <2>2 DEF som_canc_ack_handler, som_cancrej_handler, som_reject_handler, Receive
    <3>2. pcoord' = pcoord
      BY <2>2 DEF som_canc_ack_handler, som_cancrej_handler, som_reject_handler, Abort
    <3>3. Weight(m, Id) = 0 BY <3>1 DEF Weight
    <3>4. Sign(l) * 0 = 0 /\ pcoord \in Int BY <1>0, SignTimes DEF TypeOK, LightTypeOK
    <3> QED BY <3>2, <3>3, <3>4
  <2> QED BY <1>4, <2>1, <2>2 DEF LightReport
<1> QED BY <1>0, <1>3, <1>6, <1>7, PositionsTaken

\* The SOM reads a report: a fill moves the position and goes to the light.
LEMMA PositionsSOM ==
    ASSUME PathInv, TypeOK', PositionsAgree, Report2SOM
    PROVE  PositionsAgree'
<1>0. TypeInv /\ TypeOK BY DEF PathInv, TypeInv
<1>1. pcoord' = pcoord BY <1>0, SOMType DEF lightVars
<1>2. PICK m : m = Answers[1] OBVIOUS
<1>3. m \in Msg /\ m.id \in Id
  <2>1. m \in Msg BY <1>2, SOMOrders
  <2> QED BY <2>1, MsgFacts
<1>4. \A id \in DOMAIN orders : orders[id].client \in Light BY <1>0, FlowTypes
<1>5. CASE /\ m.type = "FILL" /\ m.id \in DOMAIN orders
           /\ pos' = pos + Sign(orders[m.id].client) * m.sz /\ ToClient(orders[m.id].client, m)
  <2>1. PICK l \in Light : l = orders[m.id].client BY <1>4, <1>5
  <2>2. MailTo(l, m) BY <1>0, <1>3, <1>5, <2>1, ToClientType DEF MailTo
  <2>3. Weight(m, Id) = m.sz BY <1>3, <1>5 DEF Weight
  <2>4. pos' = pos + Sign(l) * Weight(m, Id) BY <1>5, <2>1, <2>3
  <2> QED BY <1>0, <1>1, <1>3, <2>2, <2>4, PositionsTold
<1>6. CASE m.type = "CANCACK" /\ m.id \in DOMAIN orders /\ pos' = pos /\ ToClient(orders[m.id].client, m)
  <2>1. m.type # "FILL" /\ orders[m.id].client \in Light BY <1>4, <1>6
  <2> QED BY <1>0, <1>1, <1>3, <1>6, <2>1, PositionsQuiet
<1>7. CASE /\ m.type = "CANCREJ" /\ pos' = pos
           /\ \/ m.id \notin DOMAIN orders /\ clientIn' = clientIn
              \/ /\ m.id \in DOMAIN orders
                 /\ ToClient(orders[m.id].client,
                             IF orders[m.id].filled THEN CancReject(m.id, "FILLEDALREADY") ELSE m)
  <2>1. CASE clientIn' = clientIn BY <1>1, <1>7, <2>1, PositionsStay
  <2>2. CASE clientIn' # clientIn
    <3> DEFINE n == IF orders[m.id].filled THEN CancReject(m.id, "FILLEDALREADY") ELSE m
    <3>1. n \in Msg /\ n.type # "FILL"
      <4>1. CancReject(m.id, "FILLEDALREADY") \in Msg BY <1>3, MessageTypes
      <4>2. CancReject(m.id, "FILLEDALREADY").type # "FILL" BY DEF CancReject
      <4> QED BY <1>3, <1>7, <4>1, <4>2
    <3>2. m.id \in DOMAIN orders /\ ToClient(orders[m.id].client, n) BY <1>7, <2>2
    <3> HIDE DEF n
    <3>3. orders[m.id].client \in Light BY <1>4, <3>2
    <3> QED BY <1>0, <1>1, <1>7, <3>1, <3>2, <3>3, PositionsQuiet
  <2> QED BY <2>1, <2>2
<1> QED BY <1>2, <1>5, <1>6, <1>7, SOMOrders

\* Every step keeps the positions in agreement.
LEMMA PositionsStep ==
    ASSUME PathInv, TypeOK', PositionsAgree, [Next]_vars
    PROVE  PositionsAgree'
<1>0. TypeInv /\ TypeOK BY DEF PathInv, TypeInv
<1>1. ASSUME NEW l \in Light, NEW sz \in Size, Place(l, sz) PROVE PositionsAgree'
  <2>1. pcoord' = pcoord /\ pos' = pos /\ (clientIn' = clientIn \/ ToClient(l, Reject(curr_id)))
    BY <1>1 DEF Place, place_order, order_handler, order_handler_overlimit, order_handler_stopped,
                order_handler_forward, somVars
  <2>2. curr_id \in Id BY <1>0, <1>1, SlotView
  <2>3. Reject(curr_id) \in Msg BY <2>2, MessageTypes
  <2>4. Reject(curr_id).type # "FILL" BY DEF Reject
  <2> QED BY <1>0, <2>1, <2>3, <2>4, PositionsQuiet
<1>2. ASSUME NEW l \in Light, Cancel(l) \/ ClearLight(l) PROVE PositionsAgree'
  <2>1. cancel_order(l) \/ UNCHANGED <<lightVars, somVars, mailVars, aborted>> BY <1>0, <1>2, CancelType
  <2>2. CASE cancel_order(l)
    <3>1. slot[l].id \in Id /\ canc_handler(slot[l].id, TRUE) BY <1>0, <2>2, CancelOrderType
    <3>2. pcoord' = pcoord BY <2>2 DEF cancel_order
    <3> QED BY <1>0, <3>1, <3>2, PositionsCanc
  <2>3. CASE UNCHANGED <<lightVars, somVars, mailVars, aborted>>
    <3>1. pcoord' = pcoord /\ pos' = pos /\ clientIn' = clientIn BY <2>3 DEF lightVars, somVars, mailVars
    <3> QED BY <3>1, PositionsStay
  <2> QED BY <2>1, <2>2, <2>3
<1>3. ASSUME NEW l \in Light, Report2Light(l) PROVE PositionsAgree'
  BY <1>0, <1>3, PositionsReport
<1>4. CASE Report2SOM BY <1>4, PositionsSOM
<1>5. CASE Book \/ Market \/ ClearEnd
  <2>1. UNCHANGED somVars /\ UNCHANGED lightVars /\ clientIn' = clientIn
    BY <1>0, <1>5, BookType, MarketType, ClearEndType
  <2>2. pcoord' = pcoord /\ pos' = pos BY <2>1 DEF lightVars, somVars
  <2> QED BY <2>1, <2>2, PositionsStay
<1>6. CASE Console
  <2>1. /\ UNCHANGED lightVars /\ pos' = pos
        /\ clientIn' = clientIn \/ \E id \in Id : canc_handler(id, FALSE)
    BY <1>0, <1>6, ConsoleType
  <2>2. pcoord' = pcoord BY <2>1 DEF lightVars
  <2> QED BY <1>0, <2>1, <2>2, PositionsStay, PositionsCanc
<1>7. CASE UNCHANGED vars
  <2>1. pcoord' = pcoord /\ pos' = pos /\ clientIn' = clientIn BY <1>7 DEF vars, lightVars, somVars, mailVars
  <2> QED BY <2>1, PositionsStay
<1> QED BY <1>1, <1>2, <1>3, <1>4, <1>5, <1>6, <1>7 DEF Next

\* Nothing is in the mail at first.
LEMMA PositionsInit ==
    ASSUME Init
    PROVE  PositionsAgree
<1>1. TypeOK BY TypeInit DEF TypeInv
<1>2. MailCounts BY <1>1, MailCountsTypes
<1>3. \A l \in Light : clientIn[l] = <<>> BY DEF Init, MailInit
<1>4. ASSUME NEW l \in Light PROVE MailFills[l] = 0
  <2>1. clientIn[l] \in Seq(Msg) /\ Len(clientIn[l]) = 0 BY <1>1, <1>3, CountedTypes DEF Counted
  <2>2. FillSize(clientIn[l], Id) = 0 BY <2>1, FillSizeNone
  <2> QED BY <2>2, SignTimes DEF MailFills
<1>5. OverLights(MailFills) = 0 BY <1>2, <1>4, OverLightsZero DEF MailCounts
<1>6. pos = 0 /\ pcoord = 0 BY DEF Init, SOMInit, LightInit
<1> QED BY <1>5, <1>6, PositionsDef DEF PositionsDiffer

-----------------------------------------------------------------------------
(* The lights' entries in QCoord, when no order is over a limit: an id that *)
(* was acknowledged is never given out again then.                          *)

NoLimits == PosLimit < 0 /\ SizeLimit < 0

\* An entry is whole or gone.
EntryShape == DOMAIN qentry = Light /\ \A l \in Light : qentry[l].id = 0 => qentry[l] = NoEntry

\* The lights know only ids that were given out.
AsksUsed == \A l \in Light : slot[l].id < curr_id /\ \A id \in cancel_requests[l] : id < curr_id

\* Light l's entry is that of its uncancelled order, and counts what the SOM
\* takes to be left and the fills in the light's mailbox, each of which says
\* what is left after it.  Its cancel is one it has asked for.
Entry(l) ==
    /\ qentry[l].id = IF slot[l].canc THEN 0 ELSE slot[l].id
    /\ Owns(l, qentry[l].id) =>
            qentry[l].sz = orders[qentry[l].id].stbf + FillSize(clientIn[l], {qentry[l].id})
    /\ qentry[l].id # 0 => \A i \in 1..Len(clientIn[l]) : clientIn[l][i].type = "FILL" =>
            clientIn[l][i].stbf = qentry[l].sz - Filled(clientIn[l], {qentry[l].id}, i)
    /\ slot[l].id \in cancel_requests[l] => slot[l].canc

\* The entries, as long as no assertion has failed.
QInv == EntryShape /\ AsksUsed /\ (aborted = "no" => \A l \in Light : Entry(l))

\* A light that only gets mail, and no fill.
LEMMA EntryKept ==
    ASSUME TypeOK, TypeOK', NEW l \in Light, Entry(l),
           qentry'[l] = qentry[l], slot'[l] = slot[l], cancel_requests'[l] = cancel_requests[l],
           \/ clientIn'[l] = clientIn[l]
           \/ \E m \in Msg : m.type # "FILL" /\ GrownBy(clientIn[l], clientIn'[l], <<m>>),
           \A id \in DOMAIN orders' : orders'[id].client = l =>
                id \in DOMAIN orders /\ orders[id].client = l /\ orders'[id].stbf = orders[id].stbf
    PROVE  Entry(l)'
<1>t. Counted /\ Counted'
  <2>1. TypeOK' => Counted' BY CountedTypes, PTL
  <2> QED BY <2>1, CountedTypes
<1>1. PICK e : e = qentry[l] OBVIOUS
<1>2. PICK q : q = clientIn[l] OBVIOUS
<1>3. PICK r : r = clientIn'[l] OBVIOUS
<1>4. q \in Seq(Msg) /\ r \in Seq(Msg) /\ Len(q) \in Nat BY <1>t, <1>2, <1>3 DEF Counted
<1>5. /\ FillSize(r, {e.id}) = FillSize(q, {e.id})
      /\ \A i \in 1..Len(r) : r[i].type = "FILL" =>
            i \in 1..Len(q) /\ r[i] = q[i] /\ Filled(r, {e.id}, i) = Filled(q, {e.id}, i)
  <2>1. CASE r = q BY <2>1
  <2>2. ASSUME NEW m \in Msg, m.type # "FILL", GrownBy(q, r, <<m>>)
        PROVE  /\ FillSize(r, {e.id}) = FillSize(q, {e.id})
               /\ \A i \in 1..Len(r) : r[i].type = "FILL" =>
                     i \in 1..Len(q) /\ r[i] = q[i] /\ Filled(r, {e.id}, i) = Filled(q, {e.id}, i)
    <3>1. Weight(m, {e.id}) = 0 BY <2>2 DEF Weight
    <3>2. /\ FillSize(r, {e.id}) = FillSize(q, {e.id}) + Weight(m, {e.id})
          /\ \A i \in 0..Len(q) : Filled(r, {e.id}, i) = Filled(q, {e.id}, i)
      BY <1>4, <2>2, FillSizeGrown
    <3>3. FillSize(q, {e.id}) \in Nat BY <1>4, FilledFacts
    <3>4. \A i \in 1..Len(r) : \/ i \in 1..Len(q) /\ r[i] = q[i]
                               \/ i = Len(r) /\ r[i] = m
      BY <1>4, <2>2, GrownByOne
    <3>5. \A i \in 1..Len(r) : r[i].type = "FILL" => i \in 1..Len(q) /\ i \in 0..Len(q) /\ r[i] = q[i]
      BY <1>4, <2>2, <3>4
    <3>6. FillSize(r, {e.id}) = FillSize(q, {e.id}) BY <3>1, <3>2, <3>3
    <3>7. ASSUME NEW i \in 1..Len(r), r[i].type = "FILL"
          PROVE  i \in 1..Len(q) /\ r[i] = q[i] /\ Filled(r, {e.id}, i) = Filled(q, {e.id}, i)
      BY <3>2, <3>5, <3>7
    <3> QED BY <3>6, <3>7
  <2> QED BY <1>2, <1>3, <2>1, <2>2
<1>6. qentry'[l].id = IF slot'[l].canc THEN 0 ELSE slot'[l].id BY DEF Entry
<1>7. Owns(l, e.id)' => e.sz = orders'[e.id].stbf + FillSize(r, {e.id})
  <2> SUFFICES ASSUME e.id \in DOMAIN orders', orders'[e.id].client = l
               PROVE  e.sz = orders'[e.id].stbf + FillSize(r, {e.id})
    BY DEF Owns, Known
  <2>1. e.id \in DOMAIN orders /\ orders[e.id].client = l /\ orders'[e.id].stbf = orders[e.id].stbf
    OBVIOUS
  <2>2. e.sz = orders[e.id].stbf + FillSize(q, {e.id}) BY <1>1, <1>2, <2>1 DEF Entry, Owns, Known
  <2> QED BY <1>5, <2>1, <2>2
<1>8. e.id # 0 => \A i \in 1..Len(r) : r[i].type = "FILL" => r[i].stbf = e.sz - Filled(r, {e.id}, i)
  BY <1>1, <1>2, <1>5 DEF Entry
<1>9. slot'[l].id \in cancel_requests'[l] => slot'[l].canc BY DEF Entry
<1>10. Owns(l, qentry[l].id)' => qentry'[l].sz = orders'[qentry'[l].id].stbf + FillSize(clientIn'[l], {qentry'[l].id})
  BY <1>1, <1>3, <1>7 DEF Owns, Known
<1>11. qentry'[l].id # 0 => \A i \in 1..Len(clientIn'[l]) : clientIn'[l][i].type = "FILL" =>
            clientIn'[l][i].stbf = qentry'[l].sz - Filled(clientIn'[l], {qentry'[l].id}, i)
  BY <1>1, <1>3, <1>8
<1> QED BY <1>6, <1>9, <1>10, <1>11 DEF Entry

\* What an entry may be.
LEMMA EntryFacts ==
    ASSUME TypeOK, EntryShape, NEW l \in Light, Entry(l)
    PROVE  /\ qentry[l] \in [id : 0..MaxId, sz : 0..MaxSize] /\ qentry[l].sz \in Nat
           /\ slot[l].id \in Nat /\ slot[l].canc \in BOOLEAN
           /\ qentry[l] # BadEntry
           /\ qentry[l].id = 0 <=> qentry[l] = NoEntry
           /\ qentry[l] # NoEntry => ~ slot[l].canc /\ qentry[l].id = slot[l].id
           /\ NoEntry # BadEntry /\ NoEntry.id = 0 /\ Empty.id = 0 /\ ~ Empty.canc
           /\ \A id \in Nat : \A sz : [id |-> id, sz |-> sz] # BadEntry
<1>1. /\ slot[l].id \in Nat /\ slot[l].canc \in BOOLEAN
      /\ qentry[l] = BadEntry \/ qentry[l] \in [id : 0..MaxId, sz : 0..MaxSize]
  BY OrderAssumption DEF TypeOK, LightTypeOK
<1>2. qentry[l].id \in Nat BY <1>1 DEF Entry
<1>3. BadEntry.id = -1 /\ NoEntry.id = 0 /\ Empty.id = 0 /\ ~ Empty.canc BY DEF BadEntry, NoEntry, Empty
<1>4. qentry[l] # BadEntry BY <1>2, <1>3
<1>5. qentry[l].id = 0 <=> qentry[l] = NoEntry BY <1>3 DEF EntryShape
<1>6. qentry[l].sz \in Nat BY <1>1, <1>4, OrderAssumption
<1>7. qentry[l] # NoEntry => ~ slot[l].canc /\ qentry[l].id = slot[l].id BY <1>1, <1>5 DEF Entry
<1>8. ASSUME NEW id \in Nat, NEW sz PROVE [id |-> id, sz |-> sz] # BadEntry
  <2>1. [id |-> id, sz |-> sz].id = id OBVIOUS
  <2> QED BY <1>3, <2>1
<1> QED BY <1>1, <1>3, <1>4, <1>5, <1>6, <1>7, <1>8

\* Taking a light's whole entry out never fails.
LEMMA RemoveAll ==
    ASSUME TypeOK, EntryShape, NEW l \in Light, Entry(l)
    PROVE  remove_order(l, 0, TRUE) = NoEntry
<1>1. CASE qentry[l] = NoEntry BY <1>1 DEF remove_order
<1>2. CASE qentry[l] # NoEntry
  <2>1. qentry[l].id = slot[l].id /\ qentry[l].sz \in Nat BY <1>2, EntryFacts
  <2>2. ~ (0 > qentry[l].sz) BY <2>1
  <2> QED BY <1>2, <2>1, <2>2 DEF remove_order
<1> QED BY <1>1, <1>2

\* A light sets its entry to one that is not bad.
LEMMA EntrySet ==
    ASSUME EntryShape, NEW l \in Light, NEW e, SetEntry(l, e), e # BadEntry, e.id = 0 => e = NoEntry
    PROVE  /\ aborted' = aborted /\ qentry'[l] = e /\ EntryShape'
           /\ \A k \in Light : k # l => qentry'[k] = qentry[k]
BY DEF SetEntry, EntryShape

\* A light without an order, an entry or a fill in its mailbox.
LEMMA EntryEmpty ==
    ASSUME TypeOK, TypeOK', NEW l \in Light, qentry'[l] = NoEntry,
           slot'[l].canc \/ slot'[l].id = 0, slot'[l].id \in cancel_requests'[l] => slot'[l].canc
    PROVE  Entry(l)'
<1>1. qentry'[l].id = 0 BY DEF NoEntry
<1>2. slot'[l].canc \in BOOLEAN BY DEF TypeOK, LightTypeOK
<1>3. qentry'[l].id = IF slot'[l].canc THEN 0 ELSE slot'[l].id BY <1>1, <1>2
<1>4. ~ Owns(l, qentry[l].id)'
  <2>1. DOMAIN orders' \subseteq Id BY DEF TypeOK, SOMTypeOK
  <2>2. 0 \notin Id BY OrderAssumption DEF Id
  <2> QED BY <1>1, <2>1, <2>2 DEF Owns, Known
<1> QED BY <1>1, <1>3, <1>4 DEF Entry

\* A light places an order: it has no entry and no fill in its mailbox, and the
\* SOM records the order.
LEMMA PlaceEntry ==
    ASSUME NoLimits, PathInv, PathInv', QInv, NEW l \in Light, NEW sz \in Size, Place(l, sz)
    PROVE  QInv' /\ aborted' = aborted
<1>0. TypeInv /\ TypeOK /\ TypeOK' /\ FlowInv /\ FlowInv' BY DEF PathInv, TypeInv
<1>1. aborted = "no" BY DEF Place, Running
<1>2. EntryShape /\ AsksUsed /\ \A k \in Light : Entry(k) BY <1>1 DEF QInv
<1>3. /\ slot[l] = Empty /\ slot[l].id = 0 /\ curr_id \in Id /\ curr_id # 0
      /\ slot'[l] = [id |-> curr_id, canc |-> FALSE]
      /\ \A k \in Light : k # l => slot'[k] = slot[k]
  BY <1>0, SlotView
<1>4. curr_id \in Nat /\ sz \in Nat BY <1>0, FlowTypes, OrderAssumption DEF Size
<1>5. /\ Record(l, sz) /\ cancel_requests' = cancel_requests
      /\ clientIn' = clientIn \/ ToClient(l, Reject(curr_id))
      /\ SetEntry(l, add_order(l, curr_id, sz))
  <2>1. ~ OverLimit(l, sz) BY LimitAssumption DEF OverLimit, NoLimits
  <2> QED BY <2>1 DEF Place, place_order, order_handler, order_handler_overlimit, order_handler_stopped,
                      order_handler_forward
<1>6. /\ DOMAIN orders' = DOMAIN orders \cup {curr_id}
      /\ \A id \in DOMAIN orders \ {curr_id} : orders'[id] = orders[id]
      /\ orders'[curr_id] = [client |-> l, sz |-> sz, stbf |-> sz, filled |-> FALSE]
      /\ curr_id' = curr_id + 1
  BY <1>0, <1>3, <1>5, RecordType
<1>7. qentry[l] = NoEntry BY <1>0, <1>2, <1>3, EntryFacts DEF Entry
<1> DEFINE e == [id |-> curr_id, sz |-> sz]
<1>8. /\ aborted' = aborted /\ qentry'[l] = e /\ EntryShape'
      /\ \A k \in Light : k # l => qentry'[k] = qentry[k]
  <2>1. SetEntry(l, e) BY <1>5, <1>7 DEF add_order
  <2>2. e # BadEntry BY <1>0, <1>2, <1>4, EntryFacts
  <2>3. e.id # 0 BY <1>3
  <2> HIDE DEF e
  <2> QED BY <1>2, <2>1, <2>2, <2>3, EntrySet
<1>9. /\ \A k \in Light : k # l => clientIn'[k] = clientIn[k]
      /\ clientIn'[l] = clientIn[l] \/ GrownBy(clientIn[l], clientIn'[l], <<Reject(curr_id)>>)
  <2>1. Reject(curr_id) \in Msg BY <1>3, MessageTypes
  <2> QED BY <1>0, <1>5, <2>1, ToClientType
<1>10. AsksUsed'
  <2>1. \A k \in Light : slot[k].id < curr_id /\ slot[k].id \in Nat BY <1>0, <1>2, FlowTypes DEF AsksUsed
  <2>2. \A k \in Light : slot'[k].id < curr_id' BY <1>3, <1>4, <1>6, <2>1
  <2>3. \A k \in Light : \A id \in cancel_requests'[k] : id < curr_id'
    <3>1. \A k \in Light : \A id \in cancel_requests[k] : id < curr_id /\ id \in Nat
      BY <1>2, OrderAssumption DEF AsksUsed, TypeOK, LightTypeOK, Id, PathInv, TypeInv
    <3> QED BY <1>4, <1>5, <1>6, <3>1
  <2> QED BY <2>2, <2>3 DEF AsksUsed
<1>11. ASSUME NEW k \in Light, k # l PROVE Entry(k)'
  <2>1. \A id \in DOMAIN orders' : orders'[id].client = k =>
            id \in DOMAIN orders /\ orders[id].client = k /\ orders'[id].stbf = orders[id].stbf
    BY <1>6, <1>11
  <2> QED BY <1>0, <1>2, <1>3, <1>5, <1>8, <1>9, <1>11, <2>1, EntryKept
<1>12. Entry(l)'
  <2>1. \A i \in 1..Len(clientIn'[l]) : clientIn'[l][i].type # "FILL"
    <3>1. Len(clientIn[l]) \in Nat /\ Reject(curr_id).type = "REJECT" BY <1>0, FlowTypes DEF Reject
    <3>2. \A i \in 1..Len(clientIn[l]) : clientIn[l][i].type # "FILL"
      <4>1. \A i \in 1..Len(clientIn[l]) : clientIn[l][i].id # 0 BY <1>0, FlowTypes
      <4>2. \A i \in 1..Len(clientIn[l]) : Event(clientIn[l][i]) => clientIn[l][i].id = 0
        BY <1>0, <1>3 DEF FlowInv, MailOwned
      <4> QED BY <4>1, <4>2 DEF Event
    <3>3. CASE clientIn'[l] = clientIn[l] BY <3>2, <3>3
    <3>4. CASE GrownBy(clientIn[l], clientIn'[l], <<Reject(curr_id)>>)
      <4>1. \A i \in 1..Len(clientIn'[l]) : \/ i \in 1..Len(clientIn[l]) /\ clientIn'[l][i] = clientIn[l][i]
                                            \/ clientIn'[l][i] = Reject(curr_id)
        BY <3>1, <3>4, GrownByOne
      <4> QED BY <3>1, <3>2, <4>1
    <3> QED BY <1>9, <3>3, <3>4
  <2>2. FillSize(clientIn'[l], {curr_id}) = 0
    <3>1. TypeOK' => Counted' BY CountedTypes, PTL
    <3>2. clientIn'[l] \in Seq(Msg) BY <1>0, <3>1 DEF Counted
    <3> QED BY <2>1, <3>2, FillSizeNone
  <2>3. qentry'[l].id = curr_id /\ qentry'[l].sz = sz BY <1>8
  <2>4. slot'[l].id = curr_id /\ slot'[l].canc = FALSE BY <1>3
  <2>5. curr_id \notin cancel_requests'[l]
    <3>1. \A id \in cancel_requests[l] : id < curr_id BY <1>2 DEF AsksUsed
    <3> QED BY <1>4, <1>5, <3>1
  <2>6. qentry'[l].sz = orders'[curr_id].stbf + FillSize(clientIn'[l], {curr_id})
    BY <1>4, <1>6, <2>2, <2>3
  <2> QED BY <2>1, <2>3, <2>4, <2>5, <2>6 DEF Entry
<1> QED BY <1>8, <1>10, <1>11, <1>12 DEF QInv

\* A message to a light that is no fill, as EntryKept wants it.
LEMMA MailNoFill ==
    ASSUME TypeOK, NEW id \in Id, NEW t \in BOOLEAN, canc_handler(id, t)
    PROVE  \A k \in Light :
               \/ clientIn'[k] = clientIn[k]
               \/ \E m \in Msg : m.type # "FILL" /\ GrownBy(clientIn[k], clientIn'[k], <<m>>)
<1>1. \/ clientIn' = clientIn
      \/ Known(id) /\ ToClient(orders[id].client, CancReject(id, "FILLEDALREADY"))
  BY CancHandlerType
<1>2. CASE Known(id) /\ ToClient(orders[id].client, CancReject(id, "FILLEDALREADY"))
  <2>1. PICK m \in Msg : m = CancReject(id, "FILLEDALREADY") BY MessageTypes
  <2>2. m.type # "FILL" BY <2>1 DEF CancReject
  <2>3. PICK l \in Light : l = orders[id].client BY <1>2, FlowTypes DEF Known
  <2>4. GrownBy(clientIn[l], clientIn'[l], <<m>>) /\ \A k \in Light : k # l => clientIn'[k] = clientIn[k]
    BY <1>2, <2>1, <2>3, ToClientType
  <2> QED BY <2>2, <2>4
<1> QED BY <1>1, <1>2

\* A light cancels: its entry goes at once.
LEMMA CancelEntry ==
    ASSUME PathInv, PathInv', QInv, aborted = "no", NEW l \in Light, cancel_order(l)
    PROVE  QInv' /\ aborted' = aborted
<1>0. TypeInv /\ TypeOK /\ TypeOK' /\ FlowInv BY DEF PathInv, TypeInv
<1>2. EntryShape /\ AsksUsed /\ \A k \in Light : Entry(k) BY DEF QInv
<1>3. /\ slot[l].id # 0 /\ slot'[l] = [id |-> slot[l].id, canc |-> TRUE]
      /\ \A k \in Light : k # l => slot'[k] = slot[k]
  BY <1>0, SlotView
<1>4. slot[l].id \in Id /\ canc_handler(slot[l].id, TRUE) BY <1>0, CancelOrderType
<1>5. orders' = orders /\ curr_id' = curr_id BY <1>0, <1>4, CancHandlerType
<1>6. \A k \in Light : \/ clientIn'[k] = clientIn[k]
                       \/ \E m \in Msg : m.type # "FILL" /\ GrownBy(clientIn[k], clientIn'[k], <<m>>)
  BY <1>0, <1>4, MailNoFill
<1>7. /\ aborted' = aborted /\ qentry'[l] = NoEntry /\ EntryShape'
      /\ \A k \in Light : k # l => qentry'[k] = qentry[k]
  <2>1. remove_order(l, 0, TRUE) = NoEntry BY <1>0, <1>2, RemoveAll
  <2>2. SetEntry(l, NoEntry) BY <2>1 DEF cancel_order
  <2>3. NoEntry # BadEntry BY <1>0, <1>2, EntryFacts
  <2> QED BY <1>2, <2>2, <2>3, EntrySet
<1>8. cancel_requests' = [cancel_requests EXCEPT ![l] = @ \cup {slot[l].id}] BY DEF cancel_order
<1>9. DOMAIN cancel_requests = Light BY <1>0 DEF TypeOK, LightTypeOK
<1>10. /\ cancel_requests'[l] = cancel_requests[l] \cup {slot[l].id}
       /\ \A k \in Light : k # l => cancel_requests'[k] = cancel_requests[k]
  BY <1>8, <1>9
<1>11. AsksUsed'
  <2>1. \A k \in Light : slot'[k].id = slot[k].id BY <1>3
  <2>2. \A k \in Light : \A id \in cancel_requests'[k] : id \in cancel_requests[k] \/ id = slot[k].id BY <1>10
  <2> QED BY <1>2, <1>5, <2>1, <2>2 DEF AsksUsed
<1>12. ASSUME NEW k \in Light, k # l PROVE Entry(k)'
  <2>1. \A id \in DOMAIN orders' : orders'[id].client = k =>
            id \in DOMAIN orders /\ orders[id].client = k /\ orders'[id].stbf = orders[id].stbf
    BY <1>5
  <2> QED BY <1>0, <1>2, <1>3, <1>6, <1>7, <1>10, <1>12, <2>1, EntryKept
<1>13. Entry(l)' BY <1>0, <1>3, <1>7, EntryEmpty
<1> QED BY <1>7, <1>11, <1>12, <1>13 DEF QInv

\* Steps in which no light takes part, but for mail without fills.
LEMMA OthersEntry ==
    ASSUME PathInv, PathInv', QInv, aborted = "no", orders' = orders, curr_id' = curr_id, UNCHANGED lightVars,
           \A k \in Light :
               \/ clientIn'[k] = clientIn[k]
               \/ \E m \in Msg : m.type # "FILL" /\ GrownBy(clientIn[k], clientIn'[k], <<m>>)
    PROVE  QInv'
<1>0. TypeOK /\ TypeOK' BY DEF PathInv, TypeInv
<1>1. EntryShape /\ AsksUsed /\ \A k \in Light : Entry(k) BY DEF QInv
<1>2. slot' = slot /\ qentry' = qentry /\ cancel_requests' = cancel_requests BY DEF lightVars
<1>3. ASSUME NEW k \in Light PROVE Entry(k)'
  <2>1. \A id \in DOMAIN orders' : orders'[id].client = k =>
            id \in DOMAIN orders /\ orders[id].client = k /\ orders'[id].stbf = orders[id].stbf
    OBVIOUS
  <2> QED BY <1>0, <1>1, <1>2, <2>1, EntryKept
<1>4. EntryShape' BY <1>1, <1>2 DEF EntryShape
<1>5. AsksUsed' BY <1>1, <1>2 DEF AsksUsed
<1> QED BY <1>3, <1>4, <1>5 DEF QInv

\* The SOM reads a report: a fill moves from the SOM's count to the mail.
LEMMA SOMEntry ==
    ASSUME PathInv, PathInv', SizeInv, QInv, aborted = "no", Report2SOM
    PROVE  QInv'
<1>0. TypeInv /\ TypeOK /\ TypeOK' /\ WireInv /\ WireInv' /\ FlowInv /\ FlowInv' BY DEF PathInv, TypeInv
<1>1. EntryShape /\ AsksUsed /\ \A k \in Light : Entry(k) BY DEF QInv
<1>2. UNCHANGED lightVars /\ curr_id' = curr_id /\ Wire' = Wire /\ resting' = resting
  BY <1>0, SOMType DEF venueVars
<1>3. slot' = slot /\ qentry' = qentry /\ cancel_requests' = cancel_requests BY <1>2 DEF lightVars
<1>4. EntryShape' /\ AsksUsed' BY <1>1, <1>2, <1>3 DEF EntryShape, AsksUsed
<1>5. PICK m : m = Answers[1] OBVIOUS
<1>6. /\ 1 \in 1..Len(Answers) /\ Without(Answers, Answers', 1) /\ m \in Msg BY <1>5, SOMOrders
<1>7. m.id \in Id BY <1>6, MsgFacts
<1>8. \A id \in DOMAIN orders : orders[id].client \in Light BY <1>0, FlowTypes
<1>9. CASE /\ m.type = "FILL" /\ m.id \in DOMAIN orders
           /\ orders' = [orders EXCEPT ![m.id].filled = (m.stbf = 0) \/ @, ![m.id].stbf = m.stbf]
           /\ ToClient(orders[m.id].client, m)
  <2>1. m.stbf \in 0..MaxSize /\ m.sz \in Nat
    <3>1. m.sz \in Nat BY <1>6, <1>9, MsgFacts
    <3>2. m.stbf \in 0..MaxSize BY <1>6, <1>9 DEF Msg, Report, Rejection
    <3> QED BY <3>1, <3>2
  <2>2. /\ DOMAIN orders' = DOMAIN orders /\ orders'[m.id].stbf = m.stbf
        /\ orders'[m.id].client = orders[m.id].client
        /\ \A id \in DOMAIN orders : id # m.id => orders'[id] = orders[id]
    BY <1>0, <1>9, <2>1, FillOrder
  <2>3. orders'[m.id].stbf = orders[m.id].stbf - m.sz
    <3>1. Live' = Live BY <1>0, <1>2, WireSame
    <3>2. VenueKept BY <1>0, <1>2, VenueStays
    <3> QED BY <1>0, <1>5, <1>6, <1>9, <2>2, <3>1, <3>2, FillReadSizes
  <2>4. PICK l \in Light : l = orders[m.id].client BY <1>8, <1>9
  <2>5. /\ GrownBy(clientIn[l], clientIn'[l], <<m>>)
        /\ \A k \in Light : k # l => clientIn'[k] = clientIn[k]
    BY <1>0, <1>6, <1>9, <2>4, ToClientType
  <2>6. ASSUME NEW k \in Light, k # l PROVE Entry(k)'
    <3>1. \A id \in DOMAIN orders' : orders'[id].client = k =>
              id \in DOMAIN orders /\ orders[id].client = k /\ orders'[id].stbf = orders[id].stbf
      BY <2>2, <2>4, <2>6
    <3> QED BY <1>0, <1>1, <1>3, <2>5, <2>6, <3>1, EntryKept
  <2>7. slot[l].id = m.id
    <3>1. Event(m) BY <1>9 DEF Event
    <3> QED BY <1>0, <1>5, <1>6, <2>4, <3>1 DEF FlowInv, AnswerOwned
  <2>8. CASE qentry[l] = NoEntry
    <3>1. slot'[l].canc \/ slot'[l].id = 0
      <4>1. slot[l].canc \in BOOLEAN /\ NoEntry.id = 0 BY <1>0, <1>1, EntryFacts
      <4>2. 0 = IF slot[l].canc THEN 0 ELSE slot[l].id BY <1>1, <2>8, <4>1 DEF Entry
      <4> QED BY <1>3, <4>1, <4>2
    <3>2. slot'[l].id \in cancel_requests'[l] => slot'[l].canc BY <1>1, <1>3 DEF Entry
    <3>3. Entry(l)' BY <1>0, <1>3, <2>8, <3>1, <3>2, EntryEmpty
    <3> QED BY <1>4, <2>6, <3>3 DEF QInv
  <2>9. CASE qentry[l] # NoEntry
    <3>1. qentry[l].id = m.id BY <1>0, <1>1, <2>7, <2>9, EntryFacts
    <3>t. Counted /\ Counted'
      <4>1. TypeOK' => Counted' BY CountedTypes, PTL
      <4> QED BY <1>0, <4>1, CountedTypes
    <3>2. PICK q, r : q = clientIn[l] /\ r = clientIn'[l] OBVIOUS
    <3>3. q \in Seq(Msg) /\ r \in Seq(Msg) /\ Len(q) \in Nat /\ GrownBy(q, r, <<m>>)
      BY <2>5, <3>t, <3>2 DEF Counted
    <3>4. Weight(m, {m.id}) = m.sz BY <1>9 DEF Weight
    <3>5. /\ FillSize(r, {m.id}) = FillSize(q, {m.id}) + Weight(m, {m.id})
          /\ \A i \in 0..Len(q) : Filled(r, {m.id}, i) = Filled(q, {m.id}, i)
      BY <3>3, FillSizeGrown
    <3>6. /\ FillSize(q, {m.id}) \in Nat /\ FillSize(r, {m.id}) \in Nat
          /\ Filled(r, {m.id}, Len(r)) = FillSize(r, {m.id})
      BY <3>3, FilledFacts
    <3>7. qentry[l].sz = orders[m.id].stbf + FillSize(q, {m.id})
      BY <1>1, <1>9, <2>4, <3>1, <3>2 DEF Entry, Owns, Known
    <3>8. orders[m.id].stbf \in Nat BY <1>9, <3>t DEF Counted
    <3>9. qentry[l].sz = orders'[m.id].stbf + FillSize(r, {m.id})
      BY <2>1, <2>3, <3>4, <3>5, <3>6, <3>7, <3>8
    <3>10. ASSUME NEW i \in 1..Len(r), r[i].type = "FILL" PROVE r[i].stbf = qentry[l].sz - Filled(r, {m.id}, i)
      <4>1. \/ i \in 1..Len(q) /\ r[i] = q[i]
            \/ i = Len(r) /\ r[i] = m
        BY <3>3, GrownByOne
      <4>2. CASE i \in 1..Len(q) /\ r[i] = q[i]
        <5>1. q[i].stbf = qentry[l].sz - Filled(q, {m.id}, i)
          <6>1. m.id # 0 BY <1>0, <1>7, FlowTypes
          <6> QED BY <1>1, <3>1, <3>2, <3>10, <4>2, <6>1 DEF Entry
        <5>2. i \in 0..Len(q) BY <3>3, <4>2
        <5> QED BY <3>5, <4>2, <5>1, <5>2
      <4>3. CASE i = Len(r) /\ r[i] = m
        <5>1. m.stbf \in Nat BY <2>1, OrderAssumption
        <5> QED BY <2>2, <3>6, <3>9, <4>3, <5>1
      <4> QED BY <4>1, <4>2, <4>3
    <3>11. Entry(l)'
      <4>1. qentry'[l].id = m.id /\ qentry'[l].sz = qentry[l].sz BY <1>3, <3>1
      <4>2. qentry'[l].id = IF slot'[l].canc THEN 0 ELSE slot'[l].id BY <1>1, <1>3 DEF Entry
      <4>3. slot'[l].id \in cancel_requests'[l] => slot'[l].canc BY <1>1, <1>3 DEF Entry
      <4>4. qentry'[l].sz = orders'[qentry'[l].id].stbf + FillSize(clientIn'[l], {qentry'[l].id})
        BY <3>2, <3>9, <4>1
      <4>5. \A i \in 1..Len(clientIn'[l]) : clientIn'[l][i].type = "FILL" =>
                clientIn'[l][i].stbf = qentry'[l].sz - Filled(clientIn'[l], {qentry'[l].id}, i)
        BY <3>2, <3>10, <4>1
      <4> QED BY <4>2, <4>3, <4>4, <4>5 DEF Entry
    <3> QED BY <1>4, <2>6, <3>11 DEF QInv
  <2> QED BY <2>8, <2>9
<1>10. CASE /\ m.type \in {"CANCACK", "CANCREJ"} /\ (orders' = orders \/ orders' = Erase(m.id))
            /\ \/ clientIn' = clientIn
               \/ \E n \in Msg : /\ n.type # "FILL" /\ m.id \in DOMAIN orders
                                 /\ ToClient(orders[m.id].client, n)
  <2>1. \A k \in Light : \/ clientIn'[k] = clientIn[k]
                         \/ \E n \in Msg : n.type # "FILL" /\ GrownBy(clientIn[k], clientIn'[k], <<n>>)
    <3>1. CASE clientIn' = clientIn BY <3>1
    <3>2. ASSUME NEW n \in Msg, n.type # "FILL", m.id \in DOMAIN orders, ToClient(orders[m.id].client, n)
          PROVE  \A k \in Light : \/ clientIn'[k] = clientIn[k]
                                  \/ n.type # "FILL" /\ GrownBy(clientIn[k], clientIn'[k], <<n>>)
      <4>1. PICK l \in Light : l = orders[m.id].client BY <1>8, <3>2
      <4>2. GrownBy(clientIn[l], clientIn'[l], <<n>>) /\ \A k \in Light : k # l => clientIn'[k] = clientIn[k]
        BY <1>0, <3>2, <4>1, ToClientType
      <4> QED BY <3>2, <4>2
    <3> QED BY <1>10, <3>1, <3>2
  <2>2. ASSUME NEW k \in Light PROVE Entry(k)'
    <3>1. \A id \in DOMAIN orders' : orders'[id].client = k =>
              id \in DOMAIN orders /\ orders[id].client = k /\ orders'[id].stbf = orders[id].stbf
      BY <1>10 DEF Erase
    <3> QED BY <1>0, <1>1, <1>3, <2>1, <3>1, EntryKept
  <2> QED BY <1>4, <2>2 DEF QInv
<1>11. \/ /\ m.type = "FILL" /\ m.id \in DOMAIN orders
          /\ orders' = [orders EXCEPT ![m.id].filled = (m.stbf = 0) \/ @, ![m.id].stbf = m.stbf]
          /\ ToClient(orders[m.id].client, m)
       \/ /\ m.type \in {"CANCACK", "CANCREJ"} /\ (orders' = orders \/ orders' = Erase(m.id))
          /\ \/ clientIn' = clientIn
             \/ \E n \in Msg : /\ n.type # "FILL" /\ m.id \in DOMAIN orders
                               /\ ToClient(orders[m.id].client, n)
  <2>1. CancReject(m.id, "FILLEDALREADY") \in Msg BY <1>7, MessageTypes
  <2>2. CancReject(m.id, "FILLEDALREADY").type # "FILL" BY DEF CancReject
  <2>3. PICK n : n = IF orders[m.id].filled THEN CancReject(m.id, "FILLEDALREADY") ELSE m OBVIOUS
  <2>4. m.type = "CANCREJ" => n \in Msg /\ n.type # "FILL" BY <1>6, <2>1, <2>2, <2>3
  <2>5. \/ /\ m.type = "FILL" /\ m.id \in DOMAIN orders
           /\ orders' = [orders EXCEPT ![m.id].filled = (m.stbf = 0) \/ @, ![m.id].stbf = m.stbf]
           /\ ToClient(orders[m.id].client, m)
        \/ /\ m.type = "CANCACK" /\ m.id \in DOMAIN orders
           /\ orders' = Erase(m.id) /\ ToClient(orders[m.id].client, m)
        \/ /\ m.type = "CANCREJ" /\ orders' = orders
           /\ \/ clientIn' = clientIn
              \/ m.id \in DOMAIN orders /\ ToClient(orders[m.id].client, n)
    BY <1>5, <2>3, SOMOrders
  <2> QED BY <1>6, <2>4, <2>5
<1> QED BY <1>9, <1>10, <1>11

\* A light reads a report.  Nothing but a late NOTFOUND for an empty slot ends
\* the process.
LEMMA ReportEntry ==
    ASSUME PathInv, PathInv', QInv, NEW l \in Light, Report2Light(l)
    PROVE  QInv' /\ (~ NotFound(clientIn[l][1]) => aborted' = aborted)
<1>0. TypeInv /\ TypeOK /\ TypeOK' /\ FlowInv BY DEF PathInv, TypeInv
<1>1. aborted = "no" BY DEF Report2Light, Running
<1>2. EntryShape /\ AsksUsed /\ \A k \in Light : Entry(k) BY <1>1 DEF QInv
<1>3. UNCHANGED somVars /\ \E t : Receive(l, t) BY <1>0, ReportType
<1>4. orders' = orders /\ curr_id' = curr_id BY <1>3 DEF somVars
<1>5. PICK m : m = Head(clientIn[l]) OBVIOUS
<1>6. /\ m \in Msg /\ m = clientIn[l][1]
      /\ Without(clientIn[l], clientIn'[l], 1)
      /\ \A k \in Light : k # l => clientIn'[k] = clientIn[k]
  BY <1>0, <1>3, <1>5, ReceiveType
<1>7. 1 \in 1..Len(clientIn[l]) BY <1>6 DEF Without
<1>8. m.id \in Id /\ m.id # 0
  <2>1. m.id \in Id BY <1>6, MsgFacts
  <2> QED BY <1>0, <2>1, FlowTypes
<1>9. Event(m) => slot[l].id = m.id /\ slot[l] # Empty
  <2>1. Event(m) => slot[l].id = m.id BY <1>0, <1>6, <1>7 DEF FlowInv, MailOwned
  <2> QED BY <1>8, <2>1 DEF Empty
<1>10. /\ slot'[l] \in {slot[l], Empty}
       /\ \A k \in Light : k # l => slot'[k] = slot[k]
  BY <1>0, SlotView
<1>11. /\ slot \in [Light -> [id : 0..MaxId, canc : BOOLEAN]] /\ cancel_requests \in [Light -> SUBSET Id]
       /\ Empty.id = 0 /\ ~ Empty.canc /\ NoEntry # BadEntry /\ NoEntry.id = 0 /\ 0 \notin Id
  BY <1>0, <1>2, EntryFacts, OrderAssumption DEF TypeOK, LightTypeOK, Id
<1>e. /\ qentry[l] # BadEntry /\ qentry[l].sz \in Nat
      /\ qentry[l].id = 0 <=> qentry[l] = NoEntry
      /\ qentry[l] # NoEntry => ~ slot[l].canc /\ qentry[l].id = slot[l].id
  BY <1>0, <1>2, EntryFacts
\* The light's mailbox, before and after.
<1>t. Counted /\ Counted'
  <2>1. TypeOK' => Counted' BY CountedTypes, PTL
  <2> QED BY <1>0, <2>1, CountedTypes
<1>12. PICK q, r : q = clientIn[l] /\ r = clientIn'[l] OBVIOUS
<1>13. /\ q \in Seq(Msg) /\ r \in Seq(Msg) /\ Len(q) \in Nat /\ Len(r) \in Nat /\ Without(q, r, 1) /\ m = q[1]
       /\ 1 \in 1..Len(q)
  BY <1>t, <1>6, <1>7, <1>12 DEF Counted
<1>14. ASSUME NEW i \in 1..Len(r) PROVE i + 1 \in 1..Len(q) /\ r[i] = q[i + 1]
  BY <1>13 DEF Without
<1>15. ASSUME NEW S
       PROVE  /\ FillSize(q, S) = Weight(m, S) + FillSize(r, S)
              /\ FillSize(r, S) \in Nat /\ FillSize(q, S) \in Nat
              /\ \A i \in 0..Len(r) : Filled(r, S, i) = Filled(q, S, i + 1) - Weight(m, S)
              /\ \A i \in 0..Len(r) : Filled(q, S, i + 1) \in Nat
              /\ Filled(q, S, 1) = Weight(m, S) /\ Weight(m, S) \in Nat
  <2>1. /\ FillSize(q, S) = Weight(m, S) + FillSize(r, S)
        /\ \A i \in 0..Len(r) : Filled(r, S, i) = Filled(q, S, i + 1) - Weight(m, S)
    BY <1>13, FillSizeTail
  <2>2. FillSize(r, S) \in Nat /\ FillSize(q, S) \in Nat BY <1>13, FilledFacts
  <2>3. ASSUME NEW i \in 0..Len(r) PROVE Filled(q, S, i + 1) \in Nat
    <3>1. i + 1 \in 0..Len(q) BY <1>13 DEF Without
    <3> QED BY <1>13, <3>1, FilledFacts
  <2>4. Filled(q, S, 0) = 0 /\ Filled(q, S, 1) = Filled(q, S, 1 - 1) + Weight(m, S) /\ Weight(m, S) \in Nat
    BY <1>13, FilledFacts
  <2>5. 1 - 1 = 0 OBVIOUS
  <2>6. Filled(q, S, 1) = 0 + Weight(m, S) BY <2>4, <2>5
  <2> QED BY <2>1, <2>2, <2>3, <2>4, <2>6
\* What holds whichever report it is.
<1>16. ASSUME NEW k \in Light, k # l, qentry'[k] = qentry[k], cancel_requests'[k] = cancel_requests[k]
       PROVE  Entry(k)'
  <2>1. \A id \in DOMAIN orders' : orders'[id].client = k =>
            id \in DOMAIN orders /\ orders[id].client = k /\ orders'[id].stbf = orders[id].stbf
    BY <1>4
  <2> QED BY <1>0, <1>2, <1>6, <1>10, <1>16, <2>1, EntryKept
<1>17. ASSUME \A k \in Light : cancel_requests'[k] \subseteq cancel_requests[k]
       PROVE  AsksUsed'
  <2>1. \A k \in Light : slot'[k].id < curr_id'
    <3>1. \A k \in Light : slot[k].id < curr_id BY <1>2 DEF AsksUsed
    <3>2. slot'[l].id < curr_id
      <4>1. CASE slot'[l] = slot[l] BY <3>1, <4>1
      <4>2. CASE slot'[l] = Empty
        <5>1. curr_id \in 1..MaxId + 1 BY <1>0 DEF TypeOK, SOMTypeOK
        <5> QED BY <1>11, <4>2, <5>1, OrderAssumption
      <4> QED BY <1>10, <4>1, <4>2
    <3> QED BY <1>4, <1>10, <3>1, <3>2
  <2> QED BY <1>2, <1>4, <1>17, <2>1 DEF AsksUsed
<1>18. ASSUME NEW e, SetEntry(l, e), e # BadEntry, e.id = 0 => e = NoEntry,
              \A k \in Light : cancel_requests'[k] \subseteq cancel_requests[k],
              \A k \in Light : k # l => cancel_requests'[k] = cancel_requests[k],
              qentry'[l] = e => Entry(l)'
       PROVE  QInv' /\ aborted' = aborted
  <2>1. /\ aborted' = aborted /\ qentry'[l] = e /\ EntryShape'
        /\ \A k \in Light : k # l => qentry'[k] = qentry[k]
    BY <1>2, <1>18, EntrySet
  <2>2. AsksUsed' BY <1>17, <1>18
  <2>3. \A k \in Light : Entry(k)' BY <1>16, <1>18, <2>1
  <2> QED BY <2>1, <2>2, <2>3 DEF QInv
\* The slot is emptied and there is no entry left.
<1>19. ASSUME SetEntry(l, NoEntry), slot' = [slot EXCEPT ![l] = Empty],
              \A k \in Light : cancel_requests'[k] \subseteq cancel_requests[k],
              \A k \in Light : k # l => cancel_requests'[k] = cancel_requests[k]
       PROVE  QInv' /\ aborted' = aborted
  <2>1. slot'[l] = Empty BY <1>11, <1>19
  <2>2. slot'[l].id \notin cancel_requests'[l] BY <1>11, <1>19, <2>1
  <2>3. qentry'[l] = NoEntry => Entry(l)' BY <1>0, <1>11, <2>1, <2>2, EntryEmpty
  <2> QED BY <1>11, <1>18, <1>19, <2>3
<1>20. remove_order(l, 0, TRUE) = NoEntry BY <1>0, <1>2, RemoveAll
<1>21. CASE som_fill_handler(l)
  <2>1. /\ m.type = "FILL" /\ cancel_requests' = cancel_requests
        /\ SetEntry(l, IF slot[l].id = m.id /\ ~ slot[l].canc THEN remove_order(l, m.sz, FALSE) ELSE qentry[l])
        /\ slot' = IF m.stbf = 0 THEN [slot EXCEPT ![l] = Empty] ELSE slot
    BY <1>5, <1>21 DEF som_fill_handler, Receive, ClearSlot
  <2>2. Event(m) BY <2>1 DEF Event
  <2>3. slot[l].id = m.id BY <1>9, <2>2
  <2>4. m.stbf \in Nat /\ m.sz \in Nat /\ m.sz # 0
    <3>1. m \in [type : {"FILL"}, id : Id, sz : Size, stbf : 0..MaxSize]
      BY <1>6, <2>1 DEF Msg, Report, Rejection
    <3> QED BY <3>1, OrderAssumption DEF Size
  <2>5. CASE slot[l].canc
    <3>1. qentry[l] = NoEntry BY <1>e, <2>5
    <3>2. SetEntry(l, NoEntry) BY <2>1, <2>5, <3>1
    <3>3. slot'[l].canc \/ slot'[l].id = 0 BY <1>11, <2>1, <2>5
    <3>4. slot'[l].id \in cancel_requests'[l] => slot'[l].canc
      <4>1. CASE m.stbf = 0
        <5>1. slot'[l].id = 0 BY <1>11, <2>1, <4>1
        <5> QED BY <1>11, <2>1, <5>1
      <4>2. CASE m.stbf # 0 BY <2>1, <2>5, <4>2
      <4> QED BY <4>1, <4>2
    <3>5. qentry'[l] = NoEntry => Entry(l)' BY <1>0, <3>3, <3>4, EntryEmpty
    <3> QED BY <1>11, <1>18, <2>1, <3>2, <3>5
  <2>6. CASE ~ slot[l].canc
    <3>1. qentry[l].id = m.id /\ qentry[l] # NoEntry BY <1>2, <1>8, <1>e, <2>3, <2>6 DEF Entry
    <3>2. m.stbf = qentry[l].sz - m.sz
      <4>1. m.stbf = qentry[l].sz - Filled(q, {m.id}, 1)
        BY <1>2, <1>8, <1>12, <1>13, <2>1, <3>1 DEF Entry
      <4>2. Filled(q, {m.id}, 1) = Weight(m, {m.id}) BY <1>15
      <4>3. Weight(m, {m.id}) = m.sz BY <2>1 DEF Weight
      <4> QED BY <4>1, <4>2, <4>3
    <3>3. ~ (m.sz > qentry[l].sz) /\ (m.sz = qentry[l].sz <=> m.stbf = 0) BY <1>e, <2>4, <3>2
    <3>4. remove_order(l, m.sz, FALSE) =
             IF m.stbf = 0 THEN NoEntry ELSE [qentry[l] EXCEPT !.sz = @ - m.sz]
      BY <2>3, <3>1, <3>3 DEF remove_order
    <3>5. CASE m.stbf = 0
      <4>1. SetEntry(l, NoEntry) BY <2>1, <2>3, <2>6, <3>4, <3>5
      <4>2. slot' = [slot EXCEPT ![l] = Empty] BY <2>1, <3>5
      <4> QED BY <1>19, <2>1, <4>1, <4>2
    <3>6. CASE m.stbf # 0
      <4>1. PICK e : e = [qentry[l] EXCEPT !.sz = @ - m.sz] OBVIOUS
      <4>2. qentry[l] \in [id : 0..MaxId, sz : 0..MaxSize] BY <1>0, <1>2, EntryFacts
      <4>3. e.id = m.id /\ e.sz = qentry[l].sz - m.sz /\ e.sz = m.stbf BY <3>1, <3>2, <4>1, <4>2
      <4>4. SetEntry(l, e) BY <2>1, <2>3, <2>6, <3>4, <3>6, <4>1
      <4>5. e # BadEntry /\ (e.id = 0 => e = NoEntry)
        <5>1. BadEntry.id = -1 BY DEF BadEntry
        <5>2. m.id \in Nat BY <1>8, OrderAssumption DEF Id
        <5> QED BY <1>8, <4>3, <5>1, <5>2
      <4>6. ASSUME qentry'[l] = e PROVE Entry(l)'
        <5>1. slot' = slot BY <2>1, <3>6
        <5>2. qentry'[l].id = IF slot'[l].canc THEN 0 ELSE slot'[l].id
          BY <2>3, <2>6, <4>3, <4>6, <5>1
        <5>3. Weight(m, {m.id}) = m.sz BY <2>1 DEF Weight
        <5>4. Owns(l, m.id) => e.sz = orders[m.id].stbf + FillSize(r, {m.id})
          <6> SUFFICES ASSUME Owns(l, m.id) PROVE e.sz = orders[m.id].stbf + FillSize(r, {m.id})
            OBVIOUS
          <6>1. qentry[l].sz = orders[m.id].stbf + FillSize(q, {m.id}) BY <1>2, <1>12, <3>1 DEF Entry
          <6>2. orders[m.id].stbf \in Nat BY <1>t DEF Counted, Owns, Known
          <6>3. FillSize(q, {m.id}) = m.sz + FillSize(r, {m.id}) /\ FillSize(r, {m.id}) \in Nat
            BY <1>15, <5>3
          <6> QED BY <2>4, <4>3, <6>1, <6>2, <6>3
        <5>5. ASSUME NEW i \in 1..Len(r), r[i].type = "FILL" PROVE r[i].stbf = e.sz - Filled(r, {m.id}, i)
          <6>1. i + 1 \in 1..Len(q) /\ r[i] = q[i + 1] BY <1>14
          <6>2. q[i + 1].stbf = qentry[l].sz - Filled(q, {m.id}, i + 1)
            BY <1>2, <1>8, <1>12, <3>1, <5>5, <6>1 DEF Entry
          <6>3. i \in 0..Len(r) BY <1>13
          <6>4. /\ Filled(r, {m.id}, i) = Filled(q, {m.id}, i + 1) - Weight(m, {m.id})
                /\ Filled(q, {m.id}, i + 1) \in Nat
            BY <1>15, <6>3
          <6> QED BY <1>e, <2>4, <4>3, <5>3, <6>1, <6>2, <6>4
        <5>6. Owns(l, m.id)' <=> Owns(l, m.id)
          <6>1. PICK x : x = m.id OBVIOUS
          <6>2. Owns(l, x)' <=> Owns(l, x) BY <1>4 DEF Owns, Known
          <6> QED BY <6>1, <6>2
        <5>7. Owns(l, qentry[l].id)' => qentry'[l].sz = orders'[qentry'[l].id].stbf + FillSize(clientIn'[l], {qentry'[l].id})
          BY <1>4, <1>12, <4>3, <4>6, <5>4, <5>6 DEF Owns, Known
        <5>8. \A i \in 1..Len(clientIn'[l]) : clientIn'[l][i].type = "FILL" =>
                  clientIn'[l][i].stbf = qentry'[l].sz - Filled(clientIn'[l], {qentry'[l].id}, i)
          BY <1>12, <4>3, <4>6, <5>5
        <5>9. slot'[l].id \in cancel_requests'[l] => slot'[l].canc BY <1>2, <2>1, <5>1 DEF Entry
        <5> QED BY <5>2, <5>7, <5>8, <5>9 DEF Entry
      <4> QED BY <1>18, <2>1, <4>4, <4>5, <4>6
    <3> QED BY <3>5, <3>6
  <2> QED BY <2>5, <2>6, <1>11
<1>22. CASE som_canc_ack_handler(l)
  <2>1. m.type = "CANCACK" BY <1>5, <1>22 DEF som_canc_ack_handler, Receive
  <2>2. slot[l].id = m.id /\ slot[l] # Empty BY <1>9, <2>1 DEF Event
  <2>3. /\ cancel_requests' = [cancel_requests EXCEPT ![l] = @ \ {m.id}]
        /\ SetEntry(l, IF m.id \in cancel_requests[l] THEN qentry[l] ELSE remove_order(l, 0, TRUE))
        /\ slot' = [slot EXCEPT ![l] = Empty]
    BY <1>5, <1>22, <2>2 DEF som_canc_ack_handler, ClearSlot
  <2>4. SetEntry(l, NoEntry)
    <3>1. CASE m.id \in cancel_requests[l]
      <4>1. slot[l].canc BY <1>2, <2>2, <3>1 DEF Entry
      <4>2. qentry[l] = NoEntry BY <1>e, <4>1
      <4> QED BY <2>3, <3>1, <4>2
    <3>2. CASE m.id \notin cancel_requests[l] BY <1>20, <2>3, <3>2
    <3> QED BY <3>1, <3>2
  <2>5. /\ \A k \in Light : cancel_requests'[k] \subseteq cancel_requests[k]
        /\ \A k \in Light : k # l => cancel_requests'[k] = cancel_requests[k]
    BY <1>11, <2>3
  <2> QED BY <1>19, <2>3, <2>4, <2>5
<1>23. CASE som_reject_handler(l)
  <2>1. m.type = "REJECT" BY <1>5, <1>23 DEF som_reject_handler, Receive
  <2>2. slot[l] # Empty BY <1>9, <2>1 DEF Event
  <2>3. SetEntry(l, NoEntry) /\ slot' = [slot EXCEPT ![l] = Empty] /\ cancel_requests' = cancel_requests
    BY <1>20, <1>23, <2>2 DEF som_reject_handler, ClearSlot
  <2> QED BY <1>19, <2>3
<1>24. CASE som_cancrej_handler(l)
  <2>1. m.type = "CANCREJ" BY <1>5, <1>24 DEF som_cancrej_handler, Receive
  <2>2. ~ (m.reason = "NOTFOUND" /\ slot[l].id = m.id)
    BY <1>0, <1>6, <1>7, <2>1, NotFoundIsOld DEF NotFound
  <2>3. slot' = slot /\ cancel_requests' = cancel_requests /\ qentry' = qentry
    BY <1>5, <1>24, <2>2 DEF som_cancrej_handler, Abort
  <2>4. ~ NotFound(m) => aborted' = aborted BY <1>5, <1>24, <2>1 DEF som_cancrej_handler, NotFound
  <2>5. EntryShape' BY <1>2, <2>3 DEF EntryShape
  <2>6. AsksUsed' BY <1>17, <2>3
  <2>7. Entry(l)'
    <3>1. PICK e : e = qentry[l] OBVIOUS
    <3>2. Weight(m, {e.id}) = 0 BY <2>1 DEF Weight
    <3>3. FillSize(r, {e.id}) = FillSize(q, {e.id}) BY <1>15, <3>2
    <3>4. ASSUME NEW i \in 1..Len(r) PROVE Filled(r, {e.id}, i) = Filled(q, {e.id}, i + 1)
      <4>1. i \in 0..Len(r) BY <1>13
      <4>2. Filled(r, {e.id}, i) = Filled(q, {e.id}, i + 1) - 0 /\ Filled(q, {e.id}, i + 1) \in Nat
        BY <1>15, <3>2, <4>1
      <4> QED BY <4>2
    <3>5. e.id # 0 => \A i \in 1..Len(r) : r[i].type = "FILL" => r[i].stbf = e.sz - Filled(r, {e.id}, i)
      <4> SUFFICES ASSUME e.id # 0, NEW i \in 1..Len(r), r[i].type = "FILL"
                   PROVE  r[i].stbf = e.sz - Filled(r, {e.id}, i)
        OBVIOUS
      <4>1. i + 1 \in 1..Len(q) /\ r[i] = q[i + 1] BY <1>14
      <4>2. q[i + 1].stbf = e.sz - Filled(q, {e.id}, i + 1) BY <1>2, <1>12, <3>1, <4>1 DEF Entry
      <4> QED BY <3>4, <4>1, <4>2
    <3>6. Owns(l, e.id) => e.sz = orders[e.id].stbf + FillSize(r, {e.id})
      BY <1>2, <1>12, <3>1, <3>3 DEF Entry
    <3>7. Owns(l, qentry[l].id)' => qentry'[l].sz = orders'[qentry'[l].id].stbf + FillSize(clientIn'[l], {qentry'[l].id})
      BY <1>4, <1>12, <2>3, <3>1, <3>6 DEF Owns, Known
    <3>8. qentry'[l].id # 0 => \A i \in 1..Len(clientIn'[l]) : clientIn'[l][i].type = "FILL" =>
              clientIn'[l][i].stbf = qentry'[l].sz - Filled(clientIn'[l], {qentry'[l].id}, i)
      BY <1>12, <2>3, <3>1, <3>5
    <3>9. /\ qentry'[l].id = IF slot'[l].canc THEN 0 ELSE slot'[l].id
          /\ slot'[l].id \in cancel_requests'[l] => slot'[l].canc
      BY <1>2, <2>3 DEF Entry
    <3> QED BY <3>7, <3>8, <3>9 DEF Entry
  <2>8. \A k \in Light : Entry(k)' BY <1>16, <2>3, <2>7
  <2> QED BY <1>6, <2>4, <2>5, <2>6, <2>8 DEF QInv
<1>25. LightReport(l) BY DEF Report2Light
<1> QED BY <1>21, <1>22, <1>23, <1>24, <1>25 DEF LightReport

\* Every step keeps the entries.
LEMMA QStep ==
    ASSUME NoLimits, PathInv, PathInv', SizeInv, QInv, [Next]_vars
    PROVE  QInv'
<1>0. TypeInv /\ TypeOK BY DEF PathInv, TypeInv
<1>1. ASSUME NEW l \in Light, NEW sz \in Size, Place(l, sz) PROVE QInv' BY <1>1, PlaceEntry
<1>2. ASSUME NEW l \in Light, Cancel(l) \/ ClearLight(l) PROVE QInv'
  <2>1. cancel_order(l) \/ UNCHANGED <<lightVars, somVars, mailVars, aborted>> BY <1>0, <1>2, CancelType
  <2>2. aborted = "no" BY <1>2 DEF Cancel, ClearLight, Running
  <2>3. CASE cancel_order(l) BY <2>2, <2>3, CancelEntry
  <2>4. CASE UNCHANGED <<lightVars, somVars, mailVars, aborted>>
    <3>1. orders' = orders /\ curr_id' = curr_id /\ clientIn' = clientIn /\ UNCHANGED lightVars
      BY <2>4 DEF somVars, mailVars
    <3> QED BY <2>2, <3>1, OthersEntry
  <2> QED BY <2>1, <2>3, <2>4
<1>3. ASSUME NEW l \in Light, Report2Light(l) PROVE QInv' BY <1>3, ReportEntry
<1>4. CASE Report2SOM
  <2>1. aborted = "no" BY <1>4 DEF Report2SOM, Running
  <2> QED BY <1>4, <2>1, SOMEntry
<1>5. CASE Book \/ Market \/ ClearEnd
  <2>1. UNCHANGED somVars /\ UNCHANGED lightVars /\ clientIn' = clientIn
    BY <1>0, <1>5, BookType, MarketType, ClearEndType
  <2>2. orders' = orders /\ curr_id' = curr_id BY <2>1 DEF somVars
  <2>3. aborted = "no" BY <1>5 DEF Book, Market, ClearEnd, Running
  <2> QED BY <2>1, <2>2, <2>3, OthersEntry
<1>6. CASE Console
  <2>1. /\ UNCHANGED lightVars /\ orders' = orders /\ curr_id' = curr_id
        /\ clientIn' = clientIn \/ \E id \in Id : canc_handler(id, FALSE)
    BY <1>0, <1>6, ConsoleType
  <2>2. aborted = "no" BY <1>6 DEF Console, Running
  <2>3. \A k \in Light :
            \/ clientIn'[k] = clientIn[k]
            \/ \E m \in Msg : m.type # "FILL" /\ GrownBy(clientIn[k], clientIn'[k], <<m>>)
    <3>1. CASE clientIn' = clientIn BY <3>1
    <3>2. ASSUME NEW id \in Id, canc_handler(id, FALSE)
          PROVE  \A k \in Light :
                    \/ clientIn'[k] = clientIn[k]
                    \/ \E m \in Msg : m.type # "FILL" /\ GrownBy(clientIn[k], clientIn'[k], <<m>>)
      BY <1>0, <3>2, MailNoFill
    <3> QED BY <2>1, <3>1, <3>2
  <2> QED BY <2>1, <2>2, <2>3, OthersEntry
<1>7. CASE UNCHANGED vars
  <2>1. /\ qentry' = qentry /\ slot' = slot /\ cancel_requests' = cancel_requests /\ curr_id' = curr_id
        /\ orders' = orders /\ clientIn' = clientIn /\ aborted' = aborted
    BY <1>7 DEF vars, lightVars, somVars, mailVars
  <2>2. EntryShape' /\ AsksUsed' BY <2>1 DEF QInv, EntryShape, AsksUsed
  <2>3. ASSUME NEW l \in Light, Entry(l) PROVE Entry(l)'
    BY <2>1, <2>3 DEF Entry, Owns, Known
  <2> QED BY <2>1, <2>2, <2>3 DEF QInv
<1> QED BY <1>1, <1>2, <1>3, <1>4, <1>5, <1>6, <1>7 DEF Next

\* There is no entry at first.
LEMMA QInit ==
    ASSUME Init
    PROVE  QInv
<1>1. /\ slot = [l \in Light |-> Empty] /\ cancel_requests = [l \in Light |-> {}]
      /\ qentry = [l \in Light |-> NoEntry] /\ curr_id = 1 /\ DOMAIN orders = {}
  BY DEF Init, LightInit, SOMInit
<1>2. EntryShape BY <1>1 DEF EntryShape
<1>3. AsksUsed BY <1>1 DEF AsksUsed, Empty
<1>4. ASSUME NEW l \in Light PROVE Entry(l) BY <1>1 DEF Entry, Owns, Known, Empty, NoEntry
<1> QED BY <1>2, <1>3, <1>4 DEF QInv

\* When no limit is set, QCoord's entries, the SOM's orders and PCoord's and
\* the SOM's positions agree, up to what is in the mail, in every state of every
\* instance.  (An over-limit order is acknowledged with an id that the next
\* order gets again, and then its entry may be taken for the other's.)
THEOREM AccountsCorrect ==
    ASSUME NoLimits
    PROVE  Spec => []AccountsAgree
<1>1. Init => PathInv /\ SizeInv /\ QInv /\ PositionsAgree BY PathInit, SizeInit, QInit, PositionsInit
<1>2. PathInv /\ SizeInv /\ QInv /\ PositionsAgree /\ [Next]_vars
        => PathInv' /\ SizeInv' /\ QInv' /\ PositionsAgree'
  <2> SUFFICES ASSUME PathInv, SizeInv, QInv, PositionsAgree, [Next]_vars
               PROVE  PathInv' /\ SizeInv' /\ QInv' /\ PositionsAgree'
    OBVIOUS
  <2>1. PathInv' BY PathStep
  <2>2. TypeOK' BY <2>1 DEF PathInv, TypeInv
  <2> QED BY <2>1, <2>2, SizeStep, QStep, PositionsStep
<1>3. PathInv /\ QInv /\ PositionsAgree => AccountsAgree
  <2> SUFFICES ASSUME PathInv, QInv PROVE QCoordMatches
    BY DEF AccountsAgree
  <2> QED BY DEF QCoordMatches, QInv, Entry, Owns
<1> QED BY <1>1, <1>2, <1>3, PTL DEF Spec-----------------------------------------------------------------------------
(* No assertion fails, when no limit is set and no command is typed: a late *)
(* NOTFOUND reaches only a SOM that has seen the end of the order, which    *)
(* then turns it into a FILLEDALREADY or drops it.                          *)

\* Every message to the book carries a time.
WireTimed == \A i \in 1..Len(Wire) : Wire[i].timed

\* The end of an order the SOM knows has still to come, or it was filled.
OrdersSettle ==
    \A id \in DOMAIN orders :
        \/ id \in Live
        \/ orders[id].filled
        \/ \E i \in 1..Len(Answers) : Ends(Answers[i]) /\ Answers[i].id = id

\* A NOTFOUND comes after the end of the order.
MissesLate ==
    \A i \in 1..Len(Answers) : NotFound(Answers[i]) /\ Known(Answers[i].id) =>
        \/ orders[Answers[i].id].filled
        \/ \E j \in 1..Len(Answers) : j < i /\ Ends(Answers[j]) /\ Answers[j].id = Answers[i].id

\* No light hears of a NOTFOUND.
NoMisses == \A l \in Light : \A i \in 1..Len(clientIn[l]) : ~ NotFound(clientIn[l][i])

\* Nothing that an assertion looks at goes wrong.
CalmInv == ~ stopped /\ aborted = "no" /\ WireTimed /\ OrdersSettle /\ MissesLate /\ NoMisses

\* Nothing is published or read.
LEMMA CalmQuiet ==
    ASSUME TypeOK, FlowInv, OrdersSettle, MissesLate, Answers' = Answers, Live \subseteq Live',
           \A id \in DOMAIN orders' :
               \/ id \in DOMAIN orders /\ orders'[id].filled = orders[id].filled
               \/ id = curr_id /\ id \in Live'
    PROVE  OrdersSettle' /\ MissesLate'
<1>1. OrdersSettle' BY DEF OrdersSettle
<1>2. ASSUME NEW i \in 1..Len(Answers), NotFound(Answers[i]), Answers[i].id \in DOMAIN orders'
      PROVE  \/ orders'[Answers[i].id].filled
             \/ \E j \in 1..Len(Answers) : j < i /\ Ends(Answers[j]) /\ Answers[j].id = Answers[i].id
  <2>1. Answers[i].id < curr_id BY DEF FlowInv, IdsUsed
  <2>2. Answers[i].id \in Nat /\ curr_id \in Nat BY FlowTypes
  <2>3. Answers[i].id # curr_id BY <2>1, <2>2
  <2>4. Answers[i].id \in DOMAIN orders /\ orders'[Answers[i].id].filled = orders[Answers[i].id].filled
    BY <1>2, <2>3
  <2> QED BY <1>2, <2>4 DEF MissesLate, Known
<1>3. MissesLate' BY <1>2 DEF MissesLate, Known
<1> QED BY <1>1, <1>3

\* The book publishes: what leaves it ends, and what it does not find has left.
LEMMA CalmPublished ==
    ASSUME TypeOK, OrdersSettle, MissesLate, orders' = orders, NEW s, Published(s)
    PROVE  OrdersSettle' /\ MissesLate'
<1>1. PICK q, r : q = Answers /\ r = Answers' OBVIOUS
<1>2. GrownBy(q, r, s) /\ Len(s) \in Nat /\ Len(q) \in Nat BY <1>1, FlowTypes DEF Published
<1>3. /\ Len(r) \in Nat
      /\ \A i \in 1..Len(r) : \/ i \in 1..Len(q) /\ r[i] = q[i]
                              \/ i > Len(q) /\ i - Len(q) \in 1..Len(s) /\ r[i] = s[i - Len(q)]
      /\ \A i \in 1..Len(q) : i \in 1..Len(r) /\ r[i] = q[i]
      /\ \A i \in 1..Len(s) : Len(q) + i \in 1..Len(r) /\ r[Len(q) + i] = s[i]
  BY <1>2, GrownElement
<1>4. ASSUME NEW id \in Live, id \notin Live' PROVE \E i \in 1..Len(s) : s[i].id = id /\ Ends(s[i])
  BY <1>4 DEF Published
<1>5. ASSUME NEW id \in DOMAIN orders
      PROVE  id \in Live' \/ orders[id].filled \/ \E i \in 1..Len(r) : Ends(r[i]) /\ r[i].id = id
  <2>1. CASE id \in Live
    <3>1. CASE id \notin Live'
      <4>1. PICK i \in 1..Len(s) : s[i].id = id /\ Ends(s[i]) BY <1>4, <2>1, <3>1
      <4>2. Len(q) + i \in 1..Len(r) /\ r[Len(q) + i] = s[i] BY <1>3
      <4> QED BY <4>1, <4>2
    <3> QED BY <3>1
  <2>2. CASE \E i \in 1..Len(q) : Ends(q[i]) /\ q[i].id = id BY <1>3, <2>2
  <2> QED BY <1>1, <2>1, <2>2 DEF OrdersSettle
<1>6. OrdersSettle' BY <1>1, <1>5 DEF OrdersSettle
<1>7. ASSUME NEW i \in 1..Len(r), NotFound(r[i]), r[i].id \in DOMAIN orders
      PROVE  \/ orders[r[i].id].filled
             \/ \E j \in 1..Len(r) : j < i /\ Ends(r[j]) /\ r[j].id = r[i].id
  <2>1. CASE i \in 1..Len(q) /\ r[i] = q[i] BY <1>1, <1>3, <1>7, <2>1 DEF MissesLate, Known
  <2>2. CASE i > Len(q) /\ i - Len(q) \in 1..Len(s) /\ r[i] = s[i - Len(q)]
    <3>1. PICK k \in 1..Len(s) : r[i] = s[k] BY <2>2
    <3>2. s[k].id \notin Live' BY <1>7, <3>1 DEF Published
    <3>3. s[k].id \notin Live
      <4> SUFFICES ASSUME s[k].id \in Live PROVE FALSE
        OBVIOUS
      <4>1. PICK n \in 1..Len(s) : s[n].id = s[k].id /\ Ends(s[n]) BY <1>4, <3>2
      <4>2. n = k BY <4>1 DEF Published
      <4> QED BY <1>7, <3>1, <4>1, <4>2 DEF Ends, Event, NotFound
    <3>4. \/ orders[s[k].id].filled
          \/ \E j \in 1..Len(q) : Ends(q[j]) /\ q[j].id = s[k].id
      BY <1>1, <1>7, <3>1, <3>3 DEF OrdersSettle
    <3>5. ASSUME NEW j \in 1..Len(q) PROVE j \in 1..Len(r) /\ r[j] = q[j] /\ j < i BY <1>2, <1>3, <2>2
    <3> QED BY <3>1, <3>4, <3>5
  <2> QED BY <1>3, <2>1, <2>2
<1>8. MissesLate' BY <1>1, <1>7 DEF MissesLate, Known
<1> QED BY <1>6, <1>8

\* The SOM reads an answer.
LEMMA CalmSOM ==
    ASSUME PathInv, PathInv', CalmInv, Report2SOM
    PROVE  CalmInv'
<1>0. TypeInv /\ TypeOK /\ TypeOK' BY DEF PathInv, TypeInv
<1>1. PICK m : m = Answers[1] OBVIOUS
<1>2. PICK q, r : q = Answers /\ r = Answers' OBVIOUS
<1>3. 1 \in 1..Len(q) /\ Without(q, r, 1) /\ m \in Msg /\ m = q[1] /\ Len(q) \in Nat
  BY <1>0, <1>1, <1>2, SOMOrders, FlowTypes
<1>4. m.type \in {"FILL", "CANCACK", "CANCREJ"} /\ m.id \in Id
      /\ (m.type = "FILL" => m.stbf \in 0..MaxSize) /\ (m.type = "CANCREJ" => m.reason \in {"NOTFOUND", "FILLEDALREADY"})
  BY <1>1, <1>3, MsgFacts, SOMOrders
<1>5. Live' = Live /\ Wire' = Wire
  <2>1. Wire' = Wire /\ UNCHANGED venueVars BY <1>0, SOMType
  <2>2. resting' = resting BY <2>1 DEF venueVars
  <2>3. curr_id' = curr_id BY <1>0, SOMType
  <2>4. DOMAIN resting' \subseteq DOMAIN resting /\ curr_id' \in {curr_id, curr_id + 1} /\ WireInv
    BY <2>2, <2>3 DEF PathInv
  <2>5. Live' = Live \ (DOMAIN resting \ DOMAIN resting') BY <1>0, <2>1, <2>4, WireSame
  <2> QED BY <2>1, <2>2, <2>5
<1>6. /\ Len(r) \in Nat
      /\ \A i \in 1..Len(r) : i + 1 \in 1..Len(q) /\ r[i] = q[i + 1]
      /\ \A i \in 1..Len(q) : i # 1 => i - 1 \in 1..Len(r) /\ r[i - 1] = q[i]
  BY <1>0, <1>2, <1>3, AnswersTail
\* What the SOM keeps is settled unless it is the end of that order that it reads.
<1>7. /\ DOMAIN orders' \subseteq DOMAIN orders
      /\ \A id \in DOMAIN orders' : orders[id].filled => orders'[id].filled
      /\ m.id \in DOMAIN orders' /\ Ends(m) => orders'[m.id].filled
  <2>1. CASE m.type = "FILL" /\ m.id \in DOMAIN orders
             /\ orders' = [orders EXCEPT ![m.id].filled = (m.stbf = 0) \/ @, ![m.id].stbf = m.stbf]
    <3>1. /\ DOMAIN orders' = DOMAIN orders
          /\ orders'[m.id].filled <=> m.stbf = 0 \/ orders[m.id].filled
          /\ \A id \in DOMAIN orders : id # m.id => orders'[id] = orders[id]
      BY <1>0, <1>4, <2>1, FillOrder
    <3>2. \A id \in DOMAIN orders' : orders[id].filled => orders'[id].filled BY <3>1
    <3>3. Ends(m) => m.stbf = 0 BY <2>1 DEF Ends
    <3> QED BY <3>1, <3>2, <3>3
  <2>2. CASE orders' = Erase(m.id) BY <2>2 DEF Erase
  <2>3. CASE m.type = "CANCREJ" /\ orders' = orders BY <2>3 DEF Ends, Event
  <2> QED BY <1>1, <2>1, <2>2, <2>3, SOMOrders
<1>8. OrdersSettle'
  <2>1. ASSUME NEW id \in DOMAIN orders'
        PROVE  id \in Live \/ orders'[id].filled \/ \E i \in 1..Len(r) : Ends(r[i]) /\ r[i].id = id
    <3>1. \/ id \in Live \/ orders[id].filled
          \/ \E i \in 1..Len(q) : Ends(q[i]) /\ q[i].id = id
      BY <1>2, <1>7 DEF CalmInv, OrdersSettle
    <3>2. ASSUME NEW i \in 1..Len(q), Ends(q[i]), q[i].id = id
          PROVE  orders'[id].filled \/ \E j \in 1..Len(r) : Ends(r[j]) /\ r[j].id = id
      <4>1. CASE i = 1 BY <1>3, <1>7, <3>2, <4>1
      <4>2. CASE i # 1 BY <1>6, <3>2, <4>2
      <4> QED BY <4>1, <4>2
    <3> QED BY <1>7, <3>1, <3>2
  <2> QED BY <1>2, <1>5, <2>1 DEF OrdersSettle
<1>9. MissesLate'
  <2>1. ASSUME NEW i \in 1..Len(r), NotFound(r[i]), r[i].id \in DOMAIN orders'
        PROVE  \/ orders'[r[i].id].filled
               \/ \E j \in 1..Len(r) : j < i /\ Ends(r[j]) /\ r[j].id = r[i].id
    <3>1. i + 1 \in 1..Len(q) /\ r[i] = q[i + 1] BY <1>6
    <3>2. \/ orders[r[i].id].filled
          \/ \E j \in 1..Len(q) : j < i + 1 /\ Ends(q[j]) /\ q[j].id = r[i].id
      BY <1>2, <1>7, <2>1, <3>1 DEF CalmInv, MissesLate, Known
    <3>3. ASSUME NEW j \in 1..Len(q), j < i + 1, Ends(q[j]), q[j].id = r[i].id
          PROVE  orders'[r[i].id].filled \/ \E k \in 1..Len(r) : k < i /\ Ends(r[k]) /\ r[k].id = r[i].id
      <4>1. CASE j = 1 BY <1>3, <1>7, <2>1, <3>3, <4>1
      <4>2. CASE j # 1
        <5>1. j - 1 \in 1..Len(r) /\ r[j - 1] = q[j] BY <1>6, <4>2
        <5>2. j - 1 < i BY <3>3
        <5> QED BY <3>3, <5>1, <5>2
      <4> QED BY <4>1, <4>2
    <3> QED BY <1>7, <2>1, <3>2, <3>3
  <2> QED BY <1>2, <2>1 DEF MissesLate, Known
\* A NOTFOUND of an order it knows is turned into a FILLEDALREADY.
<1>10. NoMisses'
  <2>1. \/ clientIn' = clientIn
        \/ \E n \in Msg : ~ NotFound(n) /\ m.id \in DOMAIN orders /\ ToClient(orders[m.id].client, n)
    <3>1. CASE m.type \in {"FILL", "CANCACK"} /\ m.id \in DOMAIN orders /\ ToClient(orders[m.id].client, m)
      BY <1>3, <3>1 DEF NotFound
    <3>2. CASE /\ m.type = "CANCREJ" /\ m.id \in DOMAIN orders
               /\ ToClient(orders[m.id].client,
                           IF orders[m.id].filled THEN CancReject(m.id, "FILLEDALREADY") ELSE m)
      <4>1. CASE orders[m.id].filled
        <5>1. CancReject(m.id, "FILLEDALREADY") \in Msg BY <1>4, MessageTypes
        <5>2. ~ NotFound(CancReject(m.id, "FILLEDALREADY")) BY DEF NotFound, CancReject
        <5>3. ToClient(orders[m.id].client, CancReject(m.id, "FILLEDALREADY")) BY <3>2, <4>1
        <5> QED BY <3>2, <5>1, <5>2, <5>3
      <4>2. CASE ~ orders[m.id].filled
        <5>1. ~ NotFound(m)
          <6> SUFFICES ASSUME NotFound(m) PROVE FALSE
            OBVIOUS
          <6>1. \E j \in 1..Len(q) : j < 1 BY <1>2, <1>3, <3>2, <4>2 DEF CalmInv, MissesLate, Known
          <6> QED BY <6>1
        <5>2. ToClient(orders[m.id].client, m) BY <3>2, <4>2
        <5> QED BY <1>3, <3>2, <5>1, <5>2
      <4> QED BY <4>1, <4>2
    <3> QED BY <1>1, <3>1, <3>2, SOMOrders
  <2>2. CASE clientIn' = clientIn BY <2>2 DEF CalmInv, NoMisses
  <2>3. ASSUME NEW n \in Msg, ~ NotFound(n), m.id \in DOMAIN orders, ToClient(orders[m.id].client, n)
        PROVE  NoMisses'
    <3>1. PICK l \in Light : l = orders[m.id].client BY <1>0, <2>3, FlowTypes
    <3>2. MailTo(l, n) BY <1>0, <2>3, <3>1, ToClientType DEF MailTo
    <3> QED BY <1>0, <2>3, <3>2, MailToFacts DEF CalmInv, NoMisses
  <2> QED BY <2>1, <2>2, <2>3
<1>11. WireTimed' BY <1>5 DEF CalmInv, WireTimed
<1>12. ~ stopped' /\ aborted' = "no"
  <2>1. aborted' = aborted /\ (fill_handler \/ canc_ack_handler \/ canc_rej_handler) BY DEF Report2SOM, SOMReport
  <2>2. stopped' = stopped BY <2>1 DEF fill_handler, canc_ack_handler, canc_rej_handler, somVars
  <2> QED BY <2>1, <2>2 DEF CalmInv
<1> QED BY <1>8, <1>9, <1>10, <1>11, <1>12 DEF CalmInv

\* With every message timed, the book has nothing to complain about.
LEMMA CalmBook ==
    ASSUME PathInv, PathInv', CalmInv, Book
    PROVE  CalmInv'
<1>0. TypeInv /\ TypeOK /\ TypeOK' /\ WireInv BY DEF PathInv, TypeInv
<1>1. BookView /\ UNCHANGED somVars /\ clientIn' = clientIn BY <1>0, BookType
<1>2. orders' = orders /\ stopped' = stopped BY <1>1 DEF somVars
<1>3. aborted' = aborted
  <2>1. ObData \/ ReleaseOrder \/ DrainPubQ BY DEF Book
  <2>2. CASE ReleaseOrder \/ DrainPubQ BY <2>2 DEF ReleaseOrder, DrainPubQ
  <2>3. CASE ObData
    <3>1. obIn # <<>> /\ (Head(obIn).timed => aborted' = aborted) BY <2>3 DEF ObData
    <3>2. del_q \in Seq(ObMsg) /\ obIn \in Seq(ObMsg) BY <1>0 DEF TypeOK, MailTypeOK, VenueTypeOK
    <3>3. PICK n : n = Len(del_q) + 1 OBVIOUS
    <3>4. Without(del_q \o obIn, del_q \o Tail(obIn), n) /\ (del_q \o obIn)[n] = Head(obIn)
      BY <3>1, <3>2, <3>3, ConcatWithout
    <3>5. n \in 1..Len(Wire) /\ Wire[n] = Head(obIn) BY <3>4 DEF Without, Wire
    <3> QED BY <3>1, <3>5 DEF CalmInv, WireTimed
  <2> QED BY <2>1, <2>2, <2>3
<1>4. WireTimed'
  <2>1. Wire' = Wire \/ \E n : Without(Wire, Wire', n) BY <1>1 DEF BookView
  <2>2. CASE Wire' = Wire BY <2>2 DEF CalmInv, WireTimed
  <2>3. ASSUME NEW n, Without(Wire, Wire', n) PROVE WireTimed'
    <3>1. Len(Wire) \in Nat BY <1>0, Views
    <3>2. \A i \in 1..Len(Wire') : \/ i < n /\ i \in 1..Len(Wire) /\ Wire'[i] = Wire[i]
                                   \/ i >= n /\ i + 1 \in 1..Len(Wire) /\ Wire'[i] = Wire[i + 1]
      BY <2>3, <3>1, WithoutElement
    <3> QED BY <3>2 DEF CalmInv, WireTimed
  <2> QED BY <2>1, <2>2, <2>3
<1>5. OrdersSettle' /\ MissesLate'
  <2>0. FlowInv /\ OrdersSettle /\ MissesLate BY DEF PathInv, CalmInv
  <2>1. Quiet \/ \E m : Published(<<m>>) BY <1>0, BookCases
  <2>2. CASE Quiet
    <3>1. Answers' = Answers /\ Live \subseteq Live' BY <2>2 DEF Quiet
    <3> QED BY <1>0, <1>2, <2>0, <3>1, CalmQuiet
  <2>3. ASSUME NEW m, Published(<<m>>) PROVE OrdersSettle' /\ MissesLate'
    BY <1>0, <1>2, <2>0, <2>3, CalmPublished
  <2> QED BY <2>1, <2>2, <2>3
<1> QED BY <1>1, <1>2, <1>3, <1>4, <1>5 DEF CalmInv, NoMisses

\* The market, and the end of clearing the book.
LEMMA CalmMarket ==
    ASSUME PathInv, PathInv', CalmInv, Market \/ ClearEnd
    PROVE  CalmInv'
<1>0. TypeInv /\ TypeOK /\ TypeOK' /\ WireInv BY DEF PathInv, TypeInv
<1>1. UNCHANGED somVars /\ clientIn' = clientIn /\ Wire' = Wire /\ aborted' = aborted
  BY <1>0, MarketType, ClearEndType
<1>2. orders' = orders /\ stopped' = stopped BY <1>1 DEF somVars
<1>3. OrdersSettle' /\ MissesLate'
  <2>0. FlowInv /\ OrdersSettle /\ MissesLate BY DEF PathInv, CalmInv
  <2>1. Quiet \/ \E s : Published(s) BY <1>0, MarketCases, ClearEndCases
  <2>2. CASE Quiet
    <3>1. Answers' = Answers /\ Live \subseteq Live' BY <2>2 DEF Quiet
    <3> QED BY <1>0, <1>2, <2>0, <3>1, CalmQuiet
  <2>3. ASSUME NEW s, Published(s) PROVE OrdersSettle' /\ MissesLate'
    BY <1>0, <1>2, <2>0, <2>3, CalmPublished
  <2> QED BY <2>1, <2>2, <2>3
<1> QED BY <1>1, <1>2, <1>3 DEF CalmInv, NoMisses, WireTimed

\* A light places an order, which nothing refuses.
LEMMA CalmPlace ==
    ASSUME NoLimits, PathInv, PathInv', QInv, CalmInv, NEW l \in Light, NEW sz \in Size, Place(l, sz)
    PROVE  CalmInv'
<1>0. TypeInv /\ TypeOK /\ TypeOK' /\ WireInv /\ FlowInv /\ OrdersSettle /\ MissesLate BY DEF PathInv, TypeInv, CalmInv
<1>1. aborted' = aborted BY PlaceEntry
<1>2. ~ OverLimit(l, sz)
  <2>1. ~ (PosLimit >= 0) /\ ~ (SizeLimit >= 0) BY LimitAssumption DEF NoLimits
  <2> QED BY <2>1 DEF OverLimit
<1>3. order_handler_forward(l, sz) /\ UNCHANGED venueVars
  BY <1>2 DEF Place, place_order, order_handler, order_handler_overlimit, order_handler_stopped, CalmInv
<1>4. clientIn' = clientIn /\ stopped' = stopped /\ Record(l, sz) /\ resting' = resting
  BY <1>3 DEF order_handler_forward, venueVars
<1>5. curr_id \in Id BY <1>0, SlotView
<1>6. Answers' = Answers /\ GrownBy(Wire, Wire', <<AddOrder(curr_id, sz)>>)
  <2>1. obIn' = Append(obIn, AddOrder(curr_id, sz)) /\ del_q' = del_q
    BY <1>3 DEF order_handler_forward, venueVars
  <2>2. del_q \in Seq(ObMsg) /\ obIn \in Seq(ObMsg) BY <1>0 DEF TypeOK, MailTypeOK, VenueTypeOK
  <2>3. AddOrder(curr_id, sz) \in ObMsg BY <1>5, MessageTypes
  <2>4. PICK a \in ObMsg : a = AddOrder(curr_id, sz) BY <2>3
  <2>5. <<a>> \in Seq(ObMsg) /\ Append(obIn, a) = obIn \o <<a>> BY <2>2
  <2>6. GrownBy(del_q \o obIn, del_q \o (obIn \o <<a>>), <<a>>) BY <2>2, <2>5, ConcatGrown
  <2> QED BY <1>0, <2>1, <2>4, <2>5, <2>6, PlaceType DEF Wire
<1>7. /\ \A id \in DOMAIN orders \ {curr_id} : orders'[id] = orders[id]
      /\ DOMAIN orders' = DOMAIN orders \cup {curr_id} /\ curr_id' = curr_id + 1
  BY <1>0, <1>4, <1>5, RecordType
<1>8. Live' = Live \cup {curr_id} BY <1>0, <1>4, <1>5, <1>6, <1>7, WireAdd
<1>9. OrdersSettle' /\ MissesLate'
  <2>1. \A id \in DOMAIN orders' :
            \/ id \in DOMAIN orders /\ orders'[id].filled = orders[id].filled
            \/ id = curr_id /\ id \in Live'
    BY <1>7, <1>8
  <2>2. Live \subseteq Live' BY <1>8
  <2> QED BY <1>0, <1>6, <2>1, <2>2, CalmQuiet
<1>10. WireTimed'
  <2>1. Len(Wire) \in Nat BY <1>0, Views
  <2>2. PICK a : a = AddOrder(curr_id, sz) OBVIOUS
  <2>3. a.timed BY <2>2 DEF AddOrder
  <2>4. GrownBy(Wire, Wire', <<a>>) BY <1>6, <2>2
  <2>5. \A i \in 1..Len(Wire') : \/ i \in 1..Len(Wire) /\ Wire'[i] = Wire[i]
                                 \/ i = Len(Wire') /\ Wire'[i] = a
    BY <2>1, <2>4, GrownByOne
  <2> QED BY <2>3, <2>5 DEF CalmInv, WireTimed
<1> QED BY <1>1, <1>4, <1>9, <1>10 DEF CalmInv, NoMisses

\* A light cancels its order.
LEMMA CalmCancel ==
    ASSUME PathInv, PathInv', QInv, CalmInv, NEW l \in Light, Cancel(l) \/ ClearLight(l)
    PROVE  CalmInv'
<1>0. TypeInv /\ TypeOK /\ TypeOK' /\ WireInv /\ FlowInv /\ OrdersSettle /\ MissesLate /\ aborted = "no"
  BY DEF PathInv, TypeInv, CalmInv
<1>1. /\ resting' = resting /\ del_q' = del_q /\ pub_q' = pub_q
      /\ cancel_order(l) \/ UNCHANGED <<lightVars, somVars, mailVars, aborted>>
  BY <1>0, CancelType
<1>2. CASE cancel_order(l)
  <2>1. PICK id \in Id : id = slot[l].id /\ canc_handler(id, TRUE) BY <1>0, <1>2, CancelOrderType
  <2>2. /\ Answers' = Answers
        /\ \/ Wire' = Wire /\ clientIn' = clientIn
           \/ /\ Wire' = Wire /\ Known(id)
              /\ ToClient(orders[id].client, CancReject(id, "FILLEDALREADY"))
           \/ /\ clientIn' = clientIn /\ Known(id)
              /\ GrownBy(Wire, Wire', <<CancelOrder(id, TRUE)>>)
    BY <1>0, <1>1, <2>1, CancView
  <2>3. orders' = orders /\ curr_id' = curr_id /\ stopped' = stopped BY <1>0, <2>1, CancHandlerType
  <2>4. aborted' = aborted BY <1>0, <1>2, CancelEntry
  <2>5. Len(Wire) \in Nat BY <1>0, Views
  <2>6. CancelOrder(id, TRUE).type = "CANC" /\ CancelOrder(id, TRUE).timed /\ CancelOrder(id, TRUE).id = id
    BY DEF CancelOrder
  <2>7. PICK a : a = CancelOrder(id, TRUE) OBVIOUS
  <2>8. Live' = Live
    <3>1. CASE Wire' = Wire
      <4>1. Live' = Live \ (DOMAIN resting \ DOMAIN resting')
        BY <1>0, <1>1, <2>3, <3>1, WireSame
      <4> QED BY <1>1, <4>1
    <3>2. CASE Known(id) /\ GrownBy(Wire, Wire', <<a>>)
      <4>1. id < curr_id BY <1>0, <3>2 DEF FlowInv, IdsUsed, Known
      <4>2. Len(<<a>>) \in Nat /\ \A i \in 1..Len(<<a>>) : <<a>>[i].type = "CANC" /\ <<a>>[i].id < curr_id
        <5>1. a.type = "CANC" /\ a.id < curr_id BY <2>6, <2>7, <4>1
        <5>2. Len(<<a>>) = 1 /\ <<a>>[1] = a /\ 1..1 = {1} OBVIOUS
        <5> QED BY <5>1, <5>2
      <4> QED BY <1>0, <1>1, <2>3, <3>2, <4>2, WireCancel
    <3> QED BY <2>2, <2>7, <3>1, <3>2
  <2>9. OrdersSettle' /\ MissesLate'
    <3>1. Live \subseteq Live' BY <2>8
    <3> QED BY <1>0, <2>2, <2>3, <3>1, CalmQuiet
  <2>10. WireTimed'
    <3>1. CASE Wire' = Wire BY <3>1 DEF CalmInv, WireTimed
    <3>2. CASE GrownBy(Wire, Wire', <<a>>)
      <4>1. \A i \in 1..Len(Wire') : \/ i \in 1..Len(Wire) /\ Wire'[i] = Wire[i]
                                     \/ i = Len(Wire') /\ Wire'[i] = a
        BY <2>5, <3>2, GrownByOne
      <4> QED BY <2>6, <2>7, <4>1 DEF CalmInv, WireTimed
    <3> QED BY <2>2, <2>7, <3>1, <3>2
  <2>11. NoMisses'
    <3>1. CASE clientIn' = clientIn BY <3>1 DEF CalmInv, NoMisses
    <3>2. CASE Known(id) /\ ToClient(orders[id].client, CancReject(id, "FILLEDALREADY"))
      <4>1. PICK n : n = CancReject(id, "FILLEDALREADY") OBVIOUS
      <4>2. n \in Msg BY <4>1, MessageTypes
      <4>3. ~ NotFound(n) BY <4>1 DEF NotFound, CancReject
      <4>4. PICK k \in Light : k = orders[id].client BY <1>0, <3>2, FlowTypes DEF Known
      <4>5. MailTo(k, n) BY <1>0, <3>2, <4>1, <4>2, <4>4, ToClientType DEF MailTo
      <4> QED BY <1>0, <4>3, <4>5, MailToFacts DEF CalmInv, NoMisses
    <3> QED BY <2>2, <3>1, <3>2
  <2> QED BY <2>3, <2>4, <2>9, <2>10, <2>11 DEF CalmInv
<1>3. CASE UNCHANGED <<lightVars, somVars, mailVars, aborted>>
  <2>1. /\ orders' = orders /\ curr_id' = curr_id /\ stopped' = stopped /\ clientIn' = clientIn
        /\ Wire' = Wire /\ Answers' = Answers /\ aborted' = aborted
    BY <1>1, <1>3 DEF somVars, mailVars, Wire, Answers
  <2>2. Live' = Live \ (DOMAIN resting \ DOMAIN resting') BY <1>0, <1>1, <2>1, WireSame
  <2>3. Live \subseteq Live' BY <1>1, <2>2
  <2>4. OrdersSettle' /\ MissesLate' BY <1>0, <2>1, <2>3, CalmQuiet
  <2> QED BY <2>1, <2>4 DEF CalmInv, NoMisses, WireTimed
<1> QED BY <1>1, <1>2, <1>3

\* A light reads a report, which is no NOTFOUND.
LEMMA CalmReport ==
    ASSUME PathInv, PathInv', QInv, CalmInv, NEW l \in Light, Report2Light(l)
    PROVE  CalmInv'
<1>0. TypeInv /\ TypeOK /\ TypeOK' /\ WireInv /\ FlowInv /\ OrdersSettle /\ MissesLate
  BY DEF PathInv, TypeInv, CalmInv
<1>1. /\ Answers' = Answers /\ Wire' = Wire /\ UNCHANGED somVars /\ UNCHANGED venueVars
      /\ \E t : Receive(l, t)
  BY <1>0, ReportType
<1>2. orders' = orders /\ curr_id' = curr_id /\ stopped' = stopped /\ resting' = resting
  BY <1>1 DEF somVars, venueVars
<1>3. /\ Without(clientIn[l], clientIn'[l], 1) /\ Len(clientIn[l]) \in Nat
      /\ \A k \in Light : k # l => clientIn'[k] = clientIn[k]
  BY <1>0, <1>1, ReceiveType, FlowTypes
<1>4. aborted' = aborted
  <2>1. 1 \in 1..Len(clientIn[l]) BY <1>3 DEF Without
  <2>2. ~ NotFound(clientIn[l][1]) BY <2>1 DEF CalmInv, NoMisses
  <2> QED BY <2>2, ReportEntry
<1>5. NoMisses'
  <2>1. PICK q, r : q = clientIn[l] /\ r = clientIn'[l] OBVIOUS
  <2>2. \A i \in 1..Len(r) : \/ i < 1 /\ i \in 1..Len(q) /\ r[i] = q[i]
                             \/ i >= 1 /\ i + 1 \in 1..Len(q) /\ r[i] = q[i + 1]
    BY <1>3, <2>1, WithoutElement
  <2>3. \A i \in 1..Len(q) : ~ NotFound(q[i]) BY <2>1 DEF CalmInv, NoMisses
  <2>4. \A i \in 1..Len(r) : ~ NotFound(r[i]) BY <2>2, <2>3
  <2>5. ASSUME NEW k \in Light, NEW i \in 1..Len(clientIn'[k]) PROVE ~ NotFound(clientIn'[k][i])
    BY <1>3, <2>1, <2>4 DEF CalmInv, NoMisses
  <2> QED BY <2>5 DEF NoMisses, NotFound
<1>6. Live' = Live \ (DOMAIN resting \ DOMAIN resting') BY <1>0, <1>1, <1>2, WireSame
<1>7. Live \subseteq Live' BY <1>2, <1>6
<1>8. OrdersSettle' /\ MissesLate' BY <1>0, <1>1, <1>2, <1>7, CalmQuiet
<1> QED BY <1>1, <1>2, <1>4, <1>5, <1>8 DEF CalmInv, WireTimed

\* Every step but the console's keeps the calm.
LEMMA CalmStep ==
    ASSUME NoLimits, MaxConsole = 0, PathInv, PathInv', QInv, CalmInv, [Next]_vars
    PROVE  CalmInv'
<1>0. TypeInv /\ TypeOK /\ TypeOK' /\ WireInv /\ FlowInv /\ OrdersSettle /\ MissesLate
  BY DEF PathInv, TypeInv, CalmInv
<1>1. CASE Console
  <2>1. console \in 0..0 BY <1>0 DEF TypeOK
  <2>2. console < 0 BY <1>1 DEF Console
  <2> QED BY <2>1, <2>2
<1>2. CASE UNCHANGED vars
  <2>1. /\ orders' = orders /\ curr_id' = curr_id /\ stopped' = stopped /\ clientIn' = clientIn
        /\ resting' = resting /\ Wire' = Wire /\ Answers' = Answers /\ aborted' = aborted
    BY <1>2 DEF vars, somVars, mailVars, venueVars, Wire, Answers
  <2>2. Live' = Live \ (DOMAIN resting \ DOMAIN resting') BY <1>0, <2>1, WireSame
  <2>3. Live \subseteq Live' BY <2>1, <2>2
  <2>4. OrdersSettle' /\ MissesLate' BY <1>0, <2>1, <2>3, CalmQuiet
  <2> QED BY <2>1, <2>4 DEF CalmInv, NoMisses, WireTimed
<1> QED BY <1>1, <1>2, CalmPlace, CalmCancel, CalmReport, CalmSOM, CalmBook, CalmMarket DEF Next

\* All is calm at first.
LEMMA CalmInit ==
    ASSUME Init
    PROVE  CalmInv
<1>1. Len(Wire) = 0 /\ Len(Answers) = 0 BY TypeInit
<1>2. ~ stopped /\ aborted = "no" /\ DOMAIN orders = {} /\ \A l \in Light : Len(clientIn[l]) = 0
  BY DEF Init, SOMInit, MailInit
<1> QED BY <1>1, <1>2 DEF CalmInv, WireTimed, OrdersSettle, MissesLate, NoMisses

\* When no limit is set and no command is typed at the console, no assertion of
\* the book, of a light or of QCoord ever fails, whatever the market, the wire
\* and feed latencies and the strategies do.  Both conditions are needed: an
\* untimed cancel behind one on the wire fails the book's assertion, and the id
\* of an over-limit order is given out twice.
THEOREM OrderInvCorrect ==
    ASSUME NoLimits, MaxConsole = 0
    PROVE  Spec => []OrderInv
<1>1. Init => PathInv /\ SizeInv /\ QInv /\ CalmInv BY PathInit, SizeInit, QInit, CalmInit
<1>2. PathInv /\ SizeInv /\ QInv /\ CalmInv /\ [Next]_vars => PathInv' /\ SizeInv' /\ QInv' /\ CalmInv'
  <2> SUFFICES ASSUME PathInv, SizeInv, QInv, CalmInv, [Next]_vars
               PROVE  PathInv' /\ SizeInv' /\ QInv' /\ CalmInv'
    OBVIOUS
  <2>1. PathInv' BY PathStep
  <2> QED BY <2>1, SizeStep, QStep, CalmStep
<1>3. PathInv /\ CalmInv => OrderInv BY DEF PathInv, TypeInv, CalmInv, OrderInv, NoAbort
<1> QED BY <1>1, <1>2, <1>3, PTL DEF Spec-----------------------------------------------------------------------------
(* The position and its limit.  What each light may still add to it is what *)
(* the SOM takes to be left of the order in the light's slot: a fill moves  *)
(* that much from one to the other, and an order is only taken when it fits *)
(* under the limit by itself.                                               *)

Left(k) == IF Owns(k, slot[k].id) THEN orders[slot[k].id].stbf ELSE 0
Peers(l) == {k \in Light : Side[k] = Side[l]}
LeftOf(l) == [k \in Light |-> IF Side[k] = Side[l] THEN Left(k) ELSE 0]
Room(l) == PosLimit + (Cardinality(Peers(l)) - 1) * MaxSize
LimitInv == PosLimit >= 0 => \A l \in Light : Sign(l) * pos + OverLights(LeftOf(l)) <= Room(l)
LeftTypes == \A k \in Light : Left(k) \in Nat /\ Left(k) <= MaxSize

\* What is left of an order is at most a whole order.
LEMMA LeftBounded == TypeOK => LeftTypes
<1> SUFFICES ASSUME TypeOK, NEW k \in Light PROVE Left(k) \in Nat /\ Left(k) <= MaxSize
  BY DEF LeftTypes
<1>1. \A id \in DOMAIN orders : orders[id].stbf \in 0..MaxSize BY DEF TypeOK, SOMTypeOK, Order
<1>2. MaxSize \in Nat BY OrderAssumption
<1>3. CASE Owns(k, slot[k].id)
  <2>1. orders[slot[k].id].stbf \in 0..MaxSize BY <1>1, <1>3 DEF Owns, Known
  <2> QED BY <1>2, <1>3, <2>1 DEF Left
<1>4. CASE ~ Owns(k, slot[k].id) BY <1>2, <1>4 DEF Left
<1> QED BY <1>3, <1>4

\* More for every light is more altogether.
LEMMA OverLightsMonotone ==
    \A f, g \in [Light -> Int] : (\A l \in Light : f[l] <= g[l]) => OverLights(f) <= OverLights(g)
<1> TAKE f, g \in [Light -> Int]
<1> HAVE \A l \in Light : f[l] <= g[l]
<1> DEFINE s == [i \in DOMAIN Lights |-> f[Lights[i]]]
<1> DEFINE t == [i \in DOMAIN Lights |-> g[Lights[i]]]
<1> DEFINE n == Cardinality(Light)
<1>1. /\ s \in Seq(Int) /\ Len(s) = n /\ t \in Seq(Int) /\ Len(t) = n
      /\ \A i \in 1..n : s[i] = f[Lights[i]] /\ t[i] = g[Lights[i]] /\ Lights[i] \in Light
  BY OverLightsSeq
<1>2. OverLights(f) = Sum(s) /\ OverLights(g) = Sum(t) BY DEF OverLights
<1> HIDE DEF s, t, n
<1>3. \A i \in 1..Len(s) : s[i] <= t[i] BY <1>1
<1> QED BY <1>1, <1>2, <1>3, SumMonotone

\* The same for each light of a set.
LEMMA OverLightsSame ==
    ASSUME NEW c \in Nat, NEW S \in SUBSET Light
    PROVE  OverLights([k \in Light |-> IF k \in S THEN c ELSE 0]) = Cardinality(S) * c
<1> DEFINE F(U) == [k \in Light |-> IF k \in U THEN c ELSE 0]
<1> DEFINE T == {n \in Nat : \A U \in SUBSET Light : Cardinality(U) = n => OverLights(F(U)) = n * c}
<1>0. \A U \in SUBSET Light : IsFiniteSet(U) /\ Cardinality(U) \in Nat /\ F(U) \in [Light -> Int]
  <2> SUFFICES ASSUME NEW U \in SUBSET Light
               PROVE  IsFiniteSet(U) /\ Cardinality(U) \in Nat /\ F(U) \in [Light -> Int]
    OBVIOUS
  <2>1. IsFiniteSet(U) BY OrderAssumption, FS_Subset
  <2> QED BY <2>1, FS_CardinalityType
<1>1. 0 \in T
  <2> SUFFICES ASSUME NEW U \in SUBSET Light, Cardinality(U) = 0 PROVE OverLights(F(U)) = 0
    OBVIOUS
  <2>1. U = {} BY <1>0, FS_EmptySet
  <2>2. \A k \in Light : F(U)[k] = 0 BY <2>1
  <2> QED BY <1>0, <2>2, OverLightsZero
<1>2. ASSUME NEW n \in Nat, n \in T PROVE n + 1 \in T
  <2> SUFFICES ASSUME NEW U \in SUBSET Light, Cardinality(U) = n + 1 PROVE OverLights(F(U)) = (n + 1) * c
    OBVIOUS
  <2>1. U # {} BY <1>0, FS_EmptySet
  <2>2. PICK x : x \in U BY <2>1
  <2>3. Cardinality(U \ {x}) = n
    <3>1. Cardinality(U \ {x}) = Cardinality(U) - 1 BY <1>0, <2>2, FS_RemoveElement
    <3> QED BY <3>1
  <2>4. PICK V \in SUBSET Light : V = U \ {x} OBVIOUS
  <2>5. OverLights(F(V)) = n * c BY <1>2, <2>3, <2>4
  <2>6. \A k \in Light : k # x => F(U)[k] = F(V)[k] BY <2>4
  <2>7. F(U)[x] = c /\ F(V)[x] = 0 /\ x \in Light BY <2>2, <2>4
  <2>8. F(U) \in [Light -> Int] /\ F(V) \in [Light -> Int] BY <1>0
  <2> HIDE DEF F
  <2>9. OverLights(F(U)) = OverLights(F(V)) + (F(U)[x] - F(V)[x]) BY <2>6, <2>7, <2>8, OverLightsUpdate
  <2>10. OverLights(F(U)) = n * c + (c - 0) BY <2>5, <2>7, <2>9
  <2>11. n * c + (c - 0) = (n + 1) * c OBVIOUS
  <2> QED BY <2>10, <2>11
<1>3. Cardinality(S) \in Nat BY <1>0
<1> HIDE DEF F
<1>4. PICK N \in Nat : N = Cardinality(S) BY <1>3
<1>5. \A n \in 0..N-1 : n \in T => n + 1 \in T BY <1>2
<1>6. \A n \in 0..N : n \in T
  <2> HIDE DEF T
  <2> QED BY <1>1, <1>5, UpToInduction
<1>7. N \in T BY <1>4, <1>6
<1>8. OverLights(F(S)) = Cardinality(S) * c BY <1>4, <1>7
<1> QED BY <1>8 DEF F

\* The fills the SOM has not heard of are no more than it takes to be left.
LEMMA FillsFit ==
    ASSUME TypeOK, SizeInv, NEW x \in DOMAIN orders
    PROVE  FillSize(Answers, {x}) <= orders[x].stbf
<1>0. Answers \in Seq(Msg) /\ Len(Answers) \in Nat /\ orders[x].stbf \in Nat BY CountedTypes DEF Counted
<1>1. x \in Id BY FlowTypes
<1>2. PICK q : q = Answers OBVIOUS
<1>3. PICK c \in Nat : c = orders[x].stbf BY <1>0
<1>4. q \in Seq(Msg) /\ Len(q) \in Nat BY <1>0, <1>2
<1>5. /\ Filled(q, {x}, 0) = 0 /\ FillSize(q, {x}) = Filled(q, {x}, Len(q))
      /\ \A i \in 0..Len(q) : Filled(q, {x}, i) \in Nat
      /\ \A i \in 1..Len(q) : Filled(q, {x}, i) = Filled(q, {x}, i - 1) + Weight(q[i], {x})
  BY <1>4, FilledFacts
<1> DEFINE T == {n \in 0..Len(q) : Filled(q, {x}, n) <= c}
<1>6. 0 \in T BY <1>4, <1>5
<1>7. ASSUME NEW n \in 0..Len(q)-1, n \in T PROVE n + 1 \in T
  <2>1. PICK i \in 1..Len(q) : i = n + 1 BY <1>4
  <2>2. CASE q[i].type = "FILL" /\ q[i].id = x
    <3>1. q[i].stbf = c - Filled(q, {x}, i) BY <1>1, <1>2, <1>3, <2>2 DEF SizeInv, FillsCount
    <3>2. q[i] \in Msg BY <1>4
    <3>3. q[i].stbf \in Nat BY <2>2, <3>2, MsgFacts
    <3>4. i \in 0..Len(q) BY <1>4
    <3>5. Filled(q, {x}, i) \in Nat BY <1>5, <3>4
    <3> QED BY <2>1, <3>1, <3>3, <3>4, <3>5
  <2>3. CASE ~ (q[i].type = "FILL" /\ q[i].id = x)
    <3>1. Weight(q[i], {x}) = 0 BY <2>3 DEF Weight
    <3>2. i - 1 = n /\ n \in 0..Len(q) /\ i \in 0..Len(q) BY <1>4, <2>1
    <3>3. Filled(q, {x}, i) = Filled(q, {x}, n) + 0 /\ Filled(q, {x}, n) \in Nat BY <1>5, <3>1, <3>2
    <3> QED BY <1>7, <2>1, <3>2, <3>3
  <2> QED BY <2>2, <2>3
<1>8. \A n \in 0..Len(q) : n \in T
  <2> HIDE DEF T
  <2> QED BY <1>4, <1>6, <1>7, UpToInduction
<1>9. Len(q) \in T
  <2>1. Len(q) \in 0..Len(q) BY <1>4
  <2> HIDE DEF T
  <2> QED BY <1>8, <2>1
<1> QED BY <1>2, <1>3, <1>5, <1>9

\* What a light has in the market is what the SOM takes to be left, or less.
LEMMA InMarketFits ==
    ASSUME PathInv, SizeInv, NEW l \in Light
    PROVE  InMarket(l) \in Int /\ InMarket(l) <= Left(l)
<1>0. TypeOK /\ FlowInv /\ WireInv BY DEF PathInv, TypeInv
<1>1. PICK Of : Of = {id \in DOMAIN orders : orders[id].client = l} OBVIOUS
<1>2. PICK x : x = slot[l].id OBVIOUS
<1>3. Answers \in Seq(Msg) /\ Len(Answers) \in Nat BY <1>0, CountedTypes DEF Counted
<1>4. \A id \in DOMAIN orders : id \in Id BY <1>0, FlowTypes
<1>5. \A i \in 1..Len(Answers) : Answers[i].type = "FILL" /\ Answers[i].id \in Of => Answers[i].id = x
  BY <1>0, <1>1, <1>2 DEF FlowInv, AnswerOwned, Event
<1>6. \A id \in Id : id \in Of /\ AtVenue(id) => id = x
  BY <1>0, <1>1, <1>2 DEF FlowInv, LiveOwned, Live
<1>7. Owns(l, x) <=> x \in Of BY <1>1 DEF Owns, Known
<1> DEFINE s == [id \in Id |-> IF id \in Of /\ AtVenue(id) THEN VenueSize(id) ELSE 0]
<1>8. InMarket(l) = FillSize(Answers, Of) + Sum(s) BY <1>1 DEF InMarket
<1>9. MaxId \in Nat /\ Id = 1..MaxId BY OrderAssumption DEF Id
<1>10. \A id \in Id : id \in Of /\ AtVenue(id) => VenueSize(id) \in Nat
  BY <1>0, VenueNat DEF Live
<1>11. s \in [1..MaxId -> Int] /\ \A id \in 1..MaxId : s[id] = IF id \in Of /\ AtVenue(id) THEN VenueSize(id) ELSE 0
  BY <1>9, <1>10
<1> HIDE DEF s
<1>12. s \in Seq(Int) /\ Len(s) = MaxId
  <2>1. [1..MaxId -> Int] \in {[1..k -> Int] : k \in Nat} BY <1>9
  <2>2. s \in Seq(Int) BY <1>11, <2>1, SeqDef
  <2> QED BY <1>9, <1>11, <2>2
\* A sum with no term.
<1>13. ASSUME \A i \in 1..MaxId : s[i] = 0 PROVE Sum(s) = 0
  <2>1. 0 \in 0..Len(s) /\ \A i \in 0+1..Len(s) : s[i] = 0 BY <1>9, <1>12, <1>13
  <2> QED BY <1>12, <2>1, PartFlat, PartFacts
<1>14. CASE x \notin Of
  <2>1. FillSize(Answers, Of) = 0 BY <1>3, <1>5, <1>14, FillSizeNone
  <2>2. Sum(s) = 0 BY <1>6, <1>9, <1>11, <1>13, <1>14
  <2>3. Left(l) = 0 BY <1>2, <1>7, <1>14 DEF Left
  <2> QED BY <1>8, <2>1, <2>2, <2>3
<1>15. CASE x \in Of
  <2>1. FillSize(Answers, Of) = FillSize(Answers, {x})
    <3>1. \A i \in 1..Len(Answers) : Answers[i].type = "FILL" => (Answers[i].id \in Of <=> Answers[i].id \in {x})
      BY <1>5, <1>15
    <3> QED BY <1>3, <3>1, FillSizeSame
  <2>2. Left(l) = orders[x].stbf /\ x \in DOMAIN orders /\ x \in Id BY <1>1, <1>2, <1>4, <1>7, <1>15 DEF Left
  <2>3. FillSize(Answers, {x}) \in Nat BY <1>3, FilledFacts
  <2>4. orders[x].stbf \in Nat BY <1>0, <2>2, CountedTypes DEF Counted
  <2>5. CASE ~ AtVenue(x)
    <3>1. Sum(s) = 0 BY <1>6, <1>9, <1>11, <1>13, <2>5
    <3>2. FillSize(Answers, {x}) <= orders[x].stbf BY <1>0, <2>2, FillsFit
    <3> QED BY <1>8, <2>1, <2>2, <2>3, <2>4, <3>1, <3>2
  <2>6. CASE AtVenue(x)
    <3>1. orders[x].stbf = VenueSize(x) + FillSize(Answers, {x}) BY <2>2, <2>6 DEF SizeInv, LiveCounts, Live
    <3>2. VenueSize(x) \in Nat BY <1>10, <1>15, <2>2, <2>6
    <3>3. Sum(s) = VenueSize(x)
      <4> DEFINE z == [i \in 1..MaxId |-> 0]
      <4>1. z \in [1..MaxId -> Int] /\ \A i \in 1..MaxId : z[i] = 0 OBVIOUS
      <4> HIDE DEF z
      <4>2. z \in Seq(Int) /\ Len(z) = MaxId
        <5>1. [1..MaxId -> Int] \in {[1..k -> Int] : k \in Nat} BY <1>9
        <5>2. z \in Seq(Int) BY <4>1, <5>1, SeqDef
        <5> QED BY <1>9, <4>1, <5>2
      <4>3. Sum(z) = 0
        <5>1. 0 \in 0..Len(z) /\ \A i \in 0+1..Len(z) : z[i] = 0 BY <1>9, <4>1, <4>2
        <5> QED BY <4>2, <5>1, PartFlat, PartFacts
      <4>4. x \in 1..Len(z) /\ s[x] = VenueSize(x) /\ z[x] = 0 BY <1>9, <1>11, <1>15, <2>2, <2>6, <4>1, <4>2
      <4>5. \A i \in 1..Len(z) : i # x => s[i] = z[i] BY <1>6, <1>9, <1>11, <4>1, <4>2
      <4>6. Sum(s) = Sum(z) + (s[x] - z[x]) BY <1>12, <4>2, <4>4, <4>5, SumUpdate
      <4> QED BY <3>2, <4>3, <4>4, <4>6
    <3> QED BY <1>8, <2>1, <2>2, <2>3, <2>4, <3>1, <3>2, <3>3
  <2> QED BY <2>5, <2>6
<1> QED BY <1>14, <1>15

\* The sums of what is left.
LEMMA LeftOfTypes ==
    ASSUME LeftTypes, NEW l \in Light
    PROVE  /\ LeftOf(l) \in [Light -> Int] /\ OverLights(LeftOf(l)) \in Int
           /\ \A k \in Light : LeftOf(l)[k] = IF Side[k] = Side[l] THEN Left(k) ELSE 0
<1>1. LeftOf(l) \in [Light -> Int] /\ \A k \in Light : LeftOf(l)[k] = IF Side[k] = Side[l] THEN Left(k) ELSE 0
  BY DEF LeftOf, LeftTypes
<1> QED BY <1>1, OverLightsInt

\* What the limit leaves room for.
LEMMA RoomInt ==
    ASSUME NEW l \in Light
    PROVE  /\ Cardinality(Peers(l)) - 1 \in Nat /\ Room(l) \in Int
           /\ PosLimit >= 0 => Room(l) >= 0
<1>1. IsFiniteSet(Peers(l)) BY OrderAssumption, FS_Subset DEF Peers
<1>2. Cardinality(Peers(l)) \in Nat BY <1>1, FS_CardinalityType
<1>3. Cardinality(Peers(l)) # 0 BY <1>1, FS_EmptySet DEF Peers
<1>4. PICK n \in Nat : n = Cardinality(Peers(l)) - 1 BY <1>2, <1>3
<1>5. MaxSize \in Nat BY OrderAssumption
<1>6. n * MaxSize \in Nat BY <1>5
<1>7. Room(l) = PosLimit + n * MaxSize BY <1>4 DEF Room
<1> QED BY <1>4, <1>6, <1>7, LimitAssumption

\* Nothing is bought or sold, and nothing more is left than before.
LEMMA LimitKept ==
    ASSUME TypeOK, TypeOK', LimitInv, pos' = pos, \A k \in Light : Left(k)' <= Left(k)
    PROVE  LimitInv'
<1>0. LeftTypes /\ LeftTypes'
  <2>1. TypeOK' => LeftTypes' BY LeftBounded, PTL
  <2> QED BY <2>1, LeftBounded
<1>1. ASSUME NEW l \in Light, PosLimit >= 0 PROVE Sign(l) * pos' + OverLights(LeftOf(l)') <= Room(l)
  <2>1. LeftOf(l) \in [Light -> Int] /\ OverLights(LeftOf(l)) \in Int BY <1>0, LeftOfTypes
  <2>2. LeftOf(l)' \in [Light -> Int] BY <1>0 DEF LeftOf, LeftTypes
  <2>3. \A k \in Light : LeftOf(l)'[k] <= LeftOf(l)[k] BY <1>0 DEF LeftOf, LeftTypes
  <2>4. OverLights(LeftOf(l)') <= OverLights(LeftOf(l)) BY <2>1, <2>2, <2>3, OverLightsMonotone
  <2>5. OverLights(LeftOf(l)') \in Int BY <2>2, OverLightsInt
  <2>6. pos \in Int /\ Sign(l) * pos \in Int BY SignTimes DEF TypeOK, SOMTypeOK
  <2>7. Sign(l) * pos + OverLights(LeftOf(l)) <= Room(l) BY <1>1 DEF LimitInv
  <2>8. Room(l) \in Int BY RoomInt
  <2> QED BY <2>1, <2>4, <2>5, <2>6, <2>7, <2>8
<1> QED BY <1>1 DEF LimitInv, OverLights, Room

\* What is left stays where neither slots nor orders change.
LEMMA LeftStays ==
    ASSUME TypeOK, slot' = slot \/ SlotsKept, orders' = orders
    PROVE  \A k \in Light : Left(k)' <= Left(k)
<1>0. LeftTypes BY LeftBounded
<1> SUFFICES ASSUME NEW k \in Light PROVE Left(k)' <= Left(k)
  OBVIOUS
<1>1. slot'[k].id = slot[k].id BY DEF SlotsKept
<1>2. Left(k)' = Left(k) BY <1>1 DEF Left, Owns, Known
<1>3. Left(k) \in Nat BY <1>0 DEF LeftTypes
<1> QED BY <1>2, <1>3

\* A fill reaches the SOM: it moves from what is left into the position.
LEMMA LimitFilled ==
    ASSUME TypeOK, TypeOK', LimitInv, NEW o \in Light, NEW n \in Nat,
           pos' = pos + Sign(o) * n, Left(o)' = Left(o) - n,
           \A k \in Light : k # o => Left(k)' = Left(k)
    PROVE  LimitInv'
<1>0. LeftTypes /\ LeftTypes'
  <2>1. TypeOK' => LeftTypes' BY LeftBounded, PTL
  <2> QED BY <2>1, LeftBounded
<1>1. ASSUME NEW l \in Light, PosLimit >= 0 PROVE Sign(l) * pos' + OverLights(LeftOf(l)') <= Room(l)
  <2>1. /\ LeftOf(l) \in [Light -> Int] /\ OverLights(LeftOf(l)) \in Int
        /\ LeftOf(l)[o] = IF Side[o] = Side[l] THEN Left(o) ELSE 0
    BY <1>0, LeftOfTypes
  <2>2. LeftOf(l)' \in [Light -> Int] /\ LeftOf(l)'[o] = IF Side[o] = Side[l] THEN Left(o)' ELSE 0
    BY <1>0 DEF LeftOf, LeftTypes
  <2>3. \A k \in Light : k # o => LeftOf(l)'[k] = LeftOf(l)[k] BY DEF LeftOf
  <2>4. OverLights(LeftOf(l)') = OverLights(LeftOf(l)) + (LeftOf(l)'[o] - LeftOf(l)[o])
    BY <2>1, <2>2, <2>3, OverLightsUpdate
  <2>5. pos \in Int /\ Sign(l) * pos \in Int /\ Sign(o) * n \in Int BY SignTimes DEF TypeOK, SOMTypeOK
  <2>6. Sign(l) * pos' = Sign(l) * pos + Sign(l) * (Sign(o) * n) BY <2>5, SignTimes
  <2>7. Sign(l) * pos + OverLights(LeftOf(l)) <= Room(l) BY <1>1 DEF LimitInv
  <2>8. Room(l) \in Int /\ Left(o) \in Nat BY <1>0, RoomInt DEF LeftTypes
  <2>9. CASE Side[o] = Side[l]
    <3>1. Sign(l) * (Sign(o) * n) = n
      <4>1. Sign(l) = Sign(o) /\ Sign(o) \in {1, -1} BY <2>9 DEF Sign
      <4>2. CASE Sign(o) = 1 BY <4>1, <4>2
      <4>3. CASE Sign(o) = -1 BY <4>1, <4>3
      <4> QED BY <4>1, <4>2, <4>3
    <3>2. LeftOf(l)'[o] - LeftOf(l)[o] = - n BY <2>1, <2>2, <2>8, <2>9
    <3> QED BY <2>1, <2>4, <2>5, <2>6, <2>7, <2>8, <3>1, <3>2
  <2>10. CASE Side[o] # Side[l]
    <3>1. Sign(l) * (Sign(o) * n) = - n
      <4>1. \/ Sign(l) = 1 /\ Sign(o) = -1
            \/ Sign(l) = -1 /\ Sign(o) = 1
        BY <2>10, OrderAssumption DEF Sign
      <4>2. CASE Sign(l) = 1 /\ Sign(o) = -1 BY <4>2
      <4>3. CASE Sign(l) = -1 /\ Sign(o) = 1 BY <4>3
      <4> QED BY <4>1, <4>2, <4>3
    <3>2. LeftOf(l)'[o] - LeftOf(l)[o] = 0 BY <2>1, <2>2, <2>10
    <3> QED BY <2>1, <2>4, <2>5, <2>6, <2>7, <2>8, <3>1, <3>2
  <2> QED BY <2>9, <2>10
<1> QED BY <1>1 DEF LimitInv, OverLights, Room

\* A light places an order: it fits under the limit by itself, and the other
\* lights of the side have at most one whole order each.
LEMMA LimitPlace ==
    ASSUME PathInv, PathInv', LimitInv, NEW l \in Light, NEW sz \in Size, Place(l, sz)
    PROVE  LimitInv'
<1>0. TypeInv /\ TypeOK /\ TypeOK' /\ FlowInv BY DEF PathInv, TypeInv
<1>1. LeftTypes /\ LeftTypes'
  <2>1. TypeOK' => LeftTypes' BY LeftBounded, PTL
  <2> QED BY <1>0, <2>1, LeftBounded
<1>2. /\ slot[l].id = 0 /\ curr_id \in Id /\ slot'[l].id = curr_id
      /\ \A k \in Light : k # l => slot'[k] = slot[k]
  <2>1. /\ slot[l] = Empty /\ slot[l].id = 0 /\ curr_id \in Id /\ curr_id # 0
        /\ slot'[l] = [id |-> curr_id, canc |-> FALSE]
        /\ \A k \in Light : k # l => slot'[k] = slot[k]
    BY <1>0, SlotView
  <2> QED BY <2>1
<1>3. pos' = pos
  BY DEF Place, place_order, order_handler, order_handler_overlimit, order_handler_stopped,
         order_handler_forward, somVars
<1>4. pos \in Int /\ sz \in Nat /\ sz > 0 /\ MaxSize \in Nat /\ sz <= MaxSize
  BY <1>0, OrderAssumption DEF TypeOK, SOMTypeOK, Size
<1>5. \/ orders' = orders
      \/ Record(l, sz) /\ ~ OverLimit(l, sz)
  BY DEF Place, place_order, order_handler, order_handler_overlimit, order_handler_stopped,
         order_handler_forward, somVars
<1>6. curr_id \notin DOMAIN orders
  <2>1. curr_id \in Nat BY <1>0, FlowTypes
  <2>2. \A id \in DOMAIN orders : id < curr_id BY <1>0 DEF FlowInv, IdsUsed
  <2> QED BY <2>1, <2>2
<1>7. CASE orders' = orders
  <2>1. ASSUME NEW k \in Light PROVE Left(k)' <= Left(k)
    <3>1. CASE k = l
      <4>1. ~ Owns(k, slot[k].id)' BY <1>2, <1>6, <1>7, <3>1 DEF Owns, Known
      <4>2. Left(k)' = 0 BY <4>1 DEF Left
      <4> QED BY <1>1, <4>2 DEF LeftTypes
    <3>2. CASE k # l
      <4>1. Left(k)' = Left(k) BY <1>2, <1>7, <3>2 DEF Left, Owns, Known
      <4> QED BY <1>1, <4>1 DEF LeftTypes
    <3> QED BY <3>1, <3>2
  <2> QED BY <1>0, <1>3, <2>1, LimitKept
<1>8. CASE Record(l, sz) /\ ~ OverLimit(l, sz)
  <2>1. /\ DOMAIN orders' = DOMAIN orders \cup {curr_id}
        /\ \A id \in DOMAIN orders \ {curr_id} : orders'[id] = orders[id]
        /\ orders'[curr_id] = [client |-> l, sz |-> sz, stbf |-> sz, filled |-> FALSE]
    BY <1>0, <1>2, <1>8, RecordType
  <2>2. Left(l)' = sz
    <3>1. orders'[slot'[l].id].stbf = sz /\ Owns(l, slot[l].id)' BY <1>2, <2>1 DEF Owns, Known
    <3> QED BY <3>1 DEF Left
  <2>3. ASSUME NEW k \in Light, k # l PROVE Left(k)' = Left(k)
    <3>1. slot'[k].id = slot[k].id BY <1>2, <2>3
    <3>2. CASE slot[k].id = curr_id
      <4>1. ~ Owns(k, slot[k].id) BY <1>6, <3>2 DEF Owns, Known
      <4>2. ~ Owns(k, slot[k].id)' BY <2>1, <2>3, <3>1, <3>2 DEF Owns, Known
      <4> QED BY <4>1, <4>2 DEF Left
    <3>3. CASE slot[k].id # curr_id
      <4>1. Owns(k, slot[k].id)' <=> Owns(k, slot[k].id) BY <2>1, <3>1, <3>3 DEF Owns, Known
      <4>2. Owns(k, slot[k].id) => orders'[slot'[k].id] = orders[slot[k].id]
        BY <2>1, <3>1, <3>3 DEF Owns, Known
      <4> QED BY <4>1, <4>2 DEF Left
    <3> QED BY <3>2, <3>3
  <2>4. PosLimit >= 0 => Sign(l) * pos + sz <= PosLimit
    <3>1. PosLimit >= 0 => ~ (Sign(l) * pos + sz > PosLimit) BY <1>8 DEF OverLimit
    <3>2. Sign(l) * pos \in Int BY <1>4, SignTimes
    <3> QED BY <1>4, <3>1, <3>2, LimitAssumption
  <2>5. ASSUME NEW p \in Light, PosLimit >= 0, Side[p] # Side[l]
        PROVE  Sign(p) * pos' + OverLights(LeftOf(p)') <= Room(p)
    <3>1. LeftOf(p)' = LeftOf(p) BY <2>3, <2>5 DEF LeftOf
    <3> QED BY <1>3, <2>5, <3>1 DEF LimitInv
  <2>6. ASSUME NEW p \in Light, PosLimit >= 0, Side[p] = Side[l]
        PROVE  Sign(p) * pos' + OverLights(LeftOf(p)') <= Room(p)
    <3> DEFINE S == Peers(p) \ {l}
    <3> DEFINE h == [k \in Light |-> IF k \in S THEN MaxSize ELSE 0]
    <3> DEFINE g == [k \in Light |-> IF k = l THEN sz ELSE h[k]]
    <3>1. l \in Peers(p) /\ IsFiniteSet(Peers(p)) BY <2>6, OrderAssumption, FS_Subset DEF Peers
    <3>2. Cardinality(S) = Cardinality(Peers(p)) - 1 BY <3>1, FS_RemoveElement
    <3>3. S \in SUBSET Light /\ l \notin S BY DEF Peers
    <3>4. OverLights(h) = Cardinality(S) * MaxSize BY <1>4, <3>3, OverLightsSame
    <3>5. h \in [Light -> Int] /\ g \in [Light -> Int] /\ h[l] = 0 /\ g[l] = sz
          /\ \A k \in Light : k # l => g[k] = h[k]
      BY <1>4
    <3>6. LeftOf(p)' \in [Light -> Int] BY <1>1 DEF LeftOf, LeftTypes
    <3>7. ASSUME NEW k \in Light PROVE LeftOf(p)'[k] <= g[k]
      <4>1. LeftOf(p)'[k] = IF Side[k] = Side[p] THEN Left(k)' ELSE 0 BY DEF LeftOf
      <4>2. CASE k = l BY <1>4, <2>2, <2>6, <4>1, <4>2
      <4>3. CASE k # l
        <5>1. CASE Side[k] = Side[p]
          <6>1. g[k] = MaxSize BY <4>3, <5>1 DEF Peers
          <6>2. Left(k)' <= MaxSize BY <1>1 DEF LeftTypes
          <6> QED BY <4>1, <5>1, <6>1, <6>2
        <5>2. CASE Side[k] # Side[p]
          <6>1. g[k] = 0 BY <4>3, <5>2 DEF Peers
          <6> QED BY <4>1, <5>2, <6>1
        <5> QED BY <5>1, <5>2
      <4> QED BY <4>2, <4>3
    <3> HIDE DEF h, g, S
    <3>8. OverLights(LeftOf(p)') <= OverLights(g) BY <3>5, <3>6, <3>7, OverLightsMonotone
    <3>9. OverLights(g) = OverLights(h) + (g[l] - h[l]) BY <3>5, OverLightsUpdate
    <3>10. OverLights(g) \in Int /\ OverLights(h) \in Int /\ OverLights(LeftOf(p)') \in Int
      BY <3>5, <3>6, OverLightsInt
    <3>11. OverLights(g) = OverLights(h) + sz BY <1>4, <3>5, <3>9, <3>10
    <3>12. Sign(p) * pos' + sz <= PosLimit
      <4>1. Sign(p) = Sign(l) BY <2>6 DEF Sign
      <4> QED BY <1>3, <2>4, <2>6, <4>1
    <3>13. Sign(p) * pos' \in Int BY <1>3, <1>4, SignTimes
    <3>14. Room(p) = PosLimit + OverLights(h) BY <3>2, <3>4 DEF Room
    <3> QED BY <1>4, <3>8, <3>10, <3>11, <3>12, <3>13, <3>14, LimitAssumption
  <2> QED BY <2>5, <2>6 DEF LimitInv, OverLights, Room
<1> QED BY <1>5, <1>7, <1>8

\* Every step respects the room there is.
LEMMA LimitStep ==
    ASSUME PathInv, PathInv', SizeInv, LimitInv, [Next]_vars
    PROVE  LimitInv'
<1>0. TypeInv /\ TypeOK /\ TypeOK' /\ FlowInv /\ WireInv BY DEF PathInv, TypeInv
<1>l. LeftTypes BY <1>0, LeftBounded
<1>1. ASSUME NEW l \in Light, NEW sz \in Size, Place(l, sz) PROVE LimitInv' BY <1>1, LimitPlace
<1>2. ASSUME NEW l \in Light, Cancel(l) \/ ClearLight(l) PROVE LimitInv'
  <2>1. cancel_order(l) \/ UNCHANGED <<lightVars, somVars, mailVars, aborted>> BY <1>0, <1>2, CancelType
  <2>2. CASE cancel_order(l)
    <3>1. PICK id \in Id : canc_handler(id, TRUE) BY <1>0, <2>2, CancelOrderType
    <3>2. orders' = orders /\ pos' = pos BY <1>0, <3>1, CancHandlerType
    <3>3. /\ slot'[l] = [id |-> slot[l].id, canc |-> TRUE]
          /\ \A k \in Light : k # l => slot'[k] = slot[k]
      BY <1>0, <2>2, SlotView
    <3>4. SlotsKept BY <3>3 DEF SlotsKept
    <3>5. \A k \in Light : Left(k)' <= Left(k) BY <1>0, <3>2, <3>4, LeftStays
    <3> QED BY <1>0, <3>2, <3>5, LimitKept
  <2>3. CASE UNCHANGED <<lightVars, somVars, mailVars, aborted>>
    <3>1. orders' = orders /\ pos' = pos /\ slot' = slot BY <2>3 DEF lightVars, somVars
    <3>2. \A k \in Light : Left(k)' <= Left(k) BY <1>0, <3>1, LeftStays
    <3> QED BY <1>0, <3>1, <3>2, LimitKept
  <2> QED BY <2>1, <2>2, <2>3
<1>3. ASSUME NEW l \in Light, Report2Light(l) PROVE LimitInv'
  <2>1. UNCHANGED somVars BY <1>0, <1>3, ReportType
  <2>2. orders' = orders /\ pos' = pos BY <2>1 DEF somVars
  <2>3. slot'[l] \in {slot[l], Empty} /\ \A k \in Light : k # l => slot'[k] = slot[k]
    BY <1>0, <1>3, SlotView
  <2>4. ASSUME NEW k \in Light PROVE Left(k)' <= Left(k)
    <3>0. Left(k) \in Nat BY <1>l DEF LeftTypes
    <3>1. CASE slot'[k] = slot[k]
      <4>1. Left(k)' = Left(k) BY <2>2, <3>1 DEF Left, Owns, Known
      <4> QED BY <3>0, <4>1
    <3>2. CASE slot'[k] = Empty
      <4>1. 0 \notin DOMAIN orders BY <1>0, FlowTypes
      <4>2. slot'[k].id = 0 BY <3>2 DEF Empty
      <4>3. ~ Owns(k, slot[k].id)' BY <2>2, <4>1, <4>2 DEF Owns, Known
      <4>4. Left(k)' = 0 BY <4>3 DEF Left
      <4> QED BY <3>0, <4>4
    <3> QED BY <2>3, <3>1, <3>2
  <2> QED BY <1>0, <2>2, <2>4, LimitKept
<1>4. CASE Report2SOM
  <2>1. PICK m : m = Answers[1] OBVIOUS
  <2>2. 1 \in 1..Len(Answers) /\ Without(Answers, Answers', 1) /\ m \in Msg BY <1>4, <2>1, SOMOrders
  <2>3. slot' = slot
    <3>1. UNCHANGED lightVars BY <1>0, <1>4, SOMType
    <3> QED BY <3>1 DEF lightVars
  <2>4. CASE /\ m.type = "FILL" /\ m.id \in DOMAIN orders
             /\ orders' = [orders EXCEPT ![m.id].filled = (m.stbf = 0) \/ @, ![m.id].stbf = m.stbf]
             /\ pos' = pos + Sign(orders[m.id].client) * m.sz
    <3>1. m.stbf \in 0..MaxSize /\ m.sz \in Nat BY <2>2, <2>4, MsgFacts
    <3>2. /\ DOMAIN orders' = DOMAIN orders /\ orders'[m.id].stbf = m.stbf
          /\ orders'[m.id].client = orders[m.id].client
          /\ \A id \in DOMAIN orders : id # m.id => orders'[id] = orders[id]
      BY <1>0, <2>4, <3>1, FillOrder
    <3>3. orders'[m.id].stbf = orders[m.id].stbf - m.sz
      <4>1. Wire' = Wire /\ UNCHANGED venueVars /\ curr_id' = curr_id BY <1>0, <1>4, SOMType
      <4>2. resting' = resting BY <4>1 DEF venueVars
      <4>3. DOMAIN resting' \subseteq DOMAIN resting /\ curr_id' \in {curr_id, curr_id + 1} BY <4>1, <4>2
      <4>4. Live' = Live \ (DOMAIN resting \ DOMAIN resting') BY <1>0, <4>1, <4>3, WireSame
      <4>5. Live' = Live BY <4>2, <4>4
      <4>6. WireInv' /\ FlowInv' BY DEF PathInv
      <4>7. \A id \in DOMAIN resting' : id \in DOMAIN resting /\ resting'[id] = resting[id] BY <4>2
      <4>8. VenueKept BY <1>0, <4>1, <4>6, <4>7, VenueStays
      <4> QED BY <1>0, <2>1, <2>2, <2>4, <3>2, <4>5, <4>6, <4>8, FillReadSizes
    <3>4. PICK o \in Light : o = orders[m.id].client BY <1>0, <2>4, FlowTypes
    <3>5. slot[o].id = m.id
      <4>1. Event(m) BY <2>4 DEF Event
      <4> QED BY <1>0, <2>1, <2>2, <3>4, <4>1 DEF FlowInv, AnswerOwned
    <3>6. Left(o) = orders[m.id].stbf BY <2>4, <3>4, <3>5 DEF Left, Owns, Known
    <3>7. Left(o)' = orders'[m.id].stbf BY <2>3, <2>4, <3>2, <3>4, <3>5 DEF Left, Owns, Known
    <3>8. ASSUME NEW k \in Light, k # o PROVE Left(k)' = Left(k)
      <4>1. CASE slot[k].id = m.id
        <5>1. ~ Owns(k, slot[k].id) BY <3>4, <3>8, <4>1 DEF Owns, Known
        <5>2. ~ Owns(k, slot[k].id)' BY <2>3, <3>2, <3>4, <3>8, <4>1 DEF Owns, Known
        <5> QED BY <5>1, <5>2 DEF Left
      <4>2. CASE slot[k].id # m.id
        <5>1. Owns(k, slot[k].id)' <=> Owns(k, slot[k].id) BY <2>3, <3>2, <4>2 DEF Owns, Known
        <5>2. Owns(k, slot[k].id) => orders'[slot'[k].id] = orders[slot[k].id]
          BY <2>3, <3>2, <4>2 DEF Owns, Known
        <5> QED BY <5>1, <5>2 DEF Left
      <4> QED BY <4>1, <4>2
    <3>9. pos' = pos + Sign(o) * m.sz /\ Left(o)' = Left(o) - m.sz BY <2>4, <3>3, <3>4, <3>6, <3>7
    <3> QED BY <1>0, <3>1, <3>8, <3>9, LimitFilled
  <2>5. CASE orders' \in {orders, Erase(m.id)} /\ pos' = pos
    <3>1. /\ DOMAIN orders' \subseteq DOMAIN orders
          /\ \A id \in DOMAIN orders' : orders'[id] = orders[id]
      BY <2>5 DEF Erase
    <3>2. ASSUME NEW k \in Light PROVE Left(k)' <= Left(k)
      <4>0. Left(k) \in Nat BY <1>l DEF LeftTypes
      <4>1. CASE Owns(k, slot[k].id)'
        <5>1. slot[k].id \in DOMAIN orders' BY <2>3, <4>1 DEF Owns, Known
        <5>2. Owns(k, slot[k].id) BY <2>3, <3>1, <4>1, <5>1 DEF Owns, Known
        <5>3. Left(k)' = Left(k) BY <2>3, <3>1, <4>1, <5>1, <5>2 DEF Left
        <5> QED BY <4>0, <5>3
      <4>2. CASE ~ Owns(k, slot[k].id)'
        <5>1. Left(k)' = 0 BY <4>2 DEF Left
        <5> QED BY <4>0, <5>1
      <4> QED BY <4>1, <4>2
    <3> QED BY <1>0, <2>5, <3>2, LimitKept
  <2> QED BY <1>4, <2>1, <2>4, <2>5, SOMOrders
<1>5. CASE Book \/ Market \/ ClearEnd
  <2>1. UNCHANGED somVars /\ UNCHANGED lightVars BY <1>0, <1>5, BookType, MarketType, ClearEndType
  <2>2. orders' = orders /\ pos' = pos /\ slot' = slot BY <2>1 DEF lightVars, somVars
  <2>3. \A k \in Light : Left(k)' <= Left(k) BY <1>0, <2>2, LeftStays
  <2> QED BY <1>0, <2>2, <2>3, LimitKept
<1>6. CASE Console
  <2>1. UNCHANGED lightVars /\ orders' = orders /\ pos' = pos BY <1>0, <1>6, ConsoleType
  <2>2. slot' = slot BY <2>1 DEF lightVars
  <2>3. \A k \in Light : Left(k)' <= Left(k) BY <1>0, <2>1, <2>2, LeftStays
  <2> QED BY <1>0, <2>1, <2>3, LimitKept
<1>7. CASE UNCHANGED vars
  <2>1. orders' = orders /\ pos' = pos /\ slot' = slot BY <1>7 DEF vars, lightVars, somVars
  <2>2. \A k \in Light : Left(k)' <= Left(k) BY <1>0, <2>1, LeftStays
  <2> QED BY <1>0, <2>1, <2>2, LimitKept
<1> QED BY <1>1, <1>2, <1>3, <1>4, <1>5, <1>6, <1>7 DEF Next

\* There is room at first.
LEMMA LimitInit ==
    ASSUME Init
    PROVE  LimitInv
<1>1. TypeOK BY TypeInit DEF TypeInv
<1>2. LeftTypes BY <1>1, LeftBounded
<1>3. pos = 0 /\ DOMAIN orders = {} BY DEF Init, SOMInit
<1>4. \A k \in Light : Left(k) = 0 BY <1>3 DEF Left, Owns, Known
<1> SUFFICES ASSUME NEW l \in Light, PosLimit >= 0 PROVE Sign(l) * pos + OverLights(LeftOf(l)) <= Room(l)
  BY DEF LimitInv
<1>5. LeftOf(l) \in [Light -> Int] /\ \A k \in Light : LeftOf(l)[k] = IF Side[k] = Side[l] THEN Left(k) ELSE 0
  BY <1>2, LeftOfTypes
<1>6. \A k \in Light : LeftOf(l)[k] = 0 BY <1>4, <1>5
<1>7. OverLights(LeftOf(l)) = 0 BY <1>5, <1>6, OverLightsZero
<1>8. Sign(l) * pos = 0 BY <1>3, SignTimes
<1>9. Room(l) \in Int /\ Room(l) >= 0 BY RoomInt
<1> QED BY <1>7, <1>8, <1>9

\* The SOM's limit holds up to one whole order of each other light of the same
\* side, in every state of every instance: the position, together with all that
\* the lights of the side have in the market and in unheard fills, never exceeds
\* it by more.  (order_handler's check leaves the working orders out.)
THEOREM PositionBoundedCorrect == Spec => []PositionBounded
<1>1. Init => PathInv /\ SizeInv /\ LimitInv BY PathInit, SizeInit, LimitInit
<1>2. PathInv /\ SizeInv /\ LimitInv /\ [Next]_vars => PathInv' /\ SizeInv' /\ LimitInv'
  <2> SUFFICES ASSUME PathInv, SizeInv, LimitInv, [Next]_vars
               PROVE  PathInv' /\ SizeInv' /\ LimitInv'
    OBVIOUS
  <2>1. PathInv' BY PathStep
  <2> QED BY <2>1, SizeStep, LimitStep
<1>3. PathInv /\ SizeInv /\ LimitInv => PositionBounded
  <2> SUFFICES ASSUME PathInv, SizeInv, LimitInv, PosLimit >= 0, NEW l \in Light
               PROVE  Sign(l) * pos + Sum([i \in DOMAIN Lights |->
                                              IF Lights[i] \in Peers(l) THEN InMarket(Lights[i]) ELSE 0])
                        <= Room(l)
    BY DEF PositionBounded, Peers, Room
  <2>0. TypeOK BY DEF PathInv, TypeInv
  <2>t. LeftTypes BY <2>0, LeftBounded
  <2> DEFINE g == [k \in Light |-> IF k \in Peers(l) THEN InMarket(k) ELSE 0]
  <2>1. \A k \in Light : InMarket(k) \in Int /\ InMarket(k) <= Left(k) BY InMarketFits
  <2>2. g \in [Light -> Int] BY <2>1
  <2>3. /\ LeftOf(l) \in [Light -> Int] /\ OverLights(LeftOf(l)) \in Int
        /\ \A k \in Light : LeftOf(l)[k] = IF Side[k] = Side[l] THEN Left(k) ELSE 0
    BY <2>t, LeftOfTypes
  <2>4. ASSUME NEW k \in Light PROVE g[k] <= LeftOf(l)[k]
    <3>1. CASE Side[k] = Side[l] BY <2>1, <2>3, <3>1 DEF Peers
    <3>2. CASE Side[k] # Side[l] BY <2>3, <3>2 DEF Peers
    <3> QED BY <3>1, <3>2
  <2>5. Sum([i \in DOMAIN Lights |-> IF Lights[i] \in Peers(l) THEN InMarket(Lights[i]) ELSE 0]) = OverLights(g)
    <3>1. \A i \in DOMAIN Lights : Lights[i] \in Light BY LightsList
    <3>2. [i \in DOMAIN Lights |-> IF Lights[i] \in Peers(l) THEN InMarket(Lights[i]) ELSE 0]
            = [i \in DOMAIN Lights |-> g[Lights[i]]]
      BY <3>1
    <3> QED BY <3>2 DEF OverLights
  <2> HIDE DEF g
  <2>6. OverLights(g) <= OverLights(LeftOf(l)) BY <2>2, <2>3, <2>4, OverLightsMonotone
  <2>7. OverLights(g) \in Int BY <2>2, OverLightsInt
  <2>8. Sign(l) * pos + OverLights(LeftOf(l)) <= Room(l) BY DEF LimitInv
  <2>9. Sign(l) * pos \in Int BY <2>0, SignTimes DEF TypeOK, SOMTypeOK
  <2>10. Room(l) \in Int BY RoomInt
  <2> QED BY <2>3, <2>5, <2>6, <2>7, <2>8, <2>9, <2>10
<1> QED BY <1>1, <1>2, <1>3, PTL DEF Spec
=============================================================================

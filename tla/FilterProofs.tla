---------------------------- MODULE FilterProofs ----------------------------
(***************************************************************************)
(* What Filter returns.  Induction is by least counterexample: a set of    *)
(* natural numbers that is not empty has a least element.                  *)
(***************************************************************************)
EXTENDS Filters, Functions, WellFoundedInduction, TLAPS
-----------------------------------------------------------------------------
(* Lists, as the provers need them spelled out. *)

(* A list is a function of its positions. *)
LEMMA SeqFacts ==
  ASSUME NEW S, NEW q \in Seq(S)
  PROVE  /\ Len(q) \in Nat /\ DOMAIN q = 1..Len(q)
         /\ q \in [1..Len(q) -> S] /\ \A i \in 1..Len(q) : q[i] \in S
  OBVIOUS

(* The empty list, and no other, has length 0. *)
LEMMA EmptyFacts ==
  ASSUME NEW S
  PROVE  /\ <<>> \in Seq(S) /\ Len(<<>>) = 0
         /\ \A q \in Seq(S) : q # <<>> => Len(q) \in Nat \ {0}
  OBVIOUS

(* A list is determined by its length and its elements. *)
LEMMA SameSeq ==
  ASSUME NEW S, NEW q \in Seq(S), NEW r \in Seq(S), Len(q) = Len(r),
         \A i \in 1..Len(q) : q[i] = r[i]
  PROVE  q = r
  OBVIOUS

(* Taking the first element off. *)
LEMMA TailFacts ==
  ASSUME NEW S, NEW q \in Seq(S), q # <<>>
  PROVE  /\ Head(q) \in S /\ Tail(q) \in Seq(S) /\ Len(Tail(q)) = Len(q) - 1
         /\ \A i \in 1..Len(Tail(q)) : Tail(q)[i] = q[i + 1]
  OBVIOUS

(* Adding one at the end. *)
LEMMA AppendFacts ==
  ASSUME NEW S, NEW q \in Seq(S), NEW e \in S
  PROVE  /\ Append(q, e) \in Seq(S) /\ Append(q, e) # <<>>
         /\ Len(Append(q, e)) = Len(q) + 1 /\ Append(q, e)[Len(q) + 1] = e
         /\ \A i \in 1..Len(q) : Append(q, e)[i] = q[i]
  OBVIOUS

(* One list after the other. *)
LEMMA ConcatFacts ==
  ASSUME NEW S, NEW q \in Seq(S), NEW r \in Seq(S)
  PROVE  /\ q \o r \in Seq(S) /\ Len(q \o r) = Len(q) + Len(r)
         /\ \A i \in 1..(Len(q) + Len(r)) :
              (q \o r)[i] = IF i <= Len(q) THEN q[i] ELSE r[i - Len(q)]
  OBVIOUS
-----------------------------------------------------------------------------

(* The natural numbers are well ordered. *)
LEMMA LeastNat ==
  ASSUME NEW S \in SUBSET Nat, S # {}
  PROVE  \E n \in S : \A m \in S : n <= m
<1> DEFINE R == OpToRel(<, Nat)
<1>1. IsWellFoundedOn(R, Nat)
  BY NatLessThanWellFounded
<1>2. PICK n \in S : \A m \in S : ~(<<m, n>> \in R)
  <2> HIDE DEF R
  <2> QED BY ZenonT(60), <1>1, WFMin
<1>3. \A m \in S : ~(m < n)
  BY ZenonT(60), <1>2 DEF OpToRel
<1>4. QED
  BY <1>3

(* Induction up to m, about the set of the numbers a claim holds of. *)
LEMMA InductionUpTo ==
  ASSUME NEW m \in Nat, NEW G, 0 \in G, \A n \in 1..m : n - 1 \in G => n \in G
  PROVE  \A n \in 0..m : n \in G
<1> DEFINE Bad == {n \in 0..m : n \notin G}
<1>1. ASSUME Bad # {} PROVE FALSE
  <2>1. Bad \in SUBSET Nat
    OBVIOUS
  <2>2. PICK n \in Bad : \A k \in Bad : n <= k
    <3> HIDE DEF Bad
    <3>1. QED
      BY <1>1, <2>1, LeastNat
  <2>3. n \in 1..m /\ n - 1 \in 0..m /\ ~(n <= n - 1)
    BY <2>2
  <2>4. QED
    BY <2>2, <2>3
<1>2. QED
  BY <1>1

(* One element of the sequence is looked at. *)
Keep(s, S, n, before) == IF s[n] \in S THEN Append(before, s[n]) ELSE before

(* g is what Filter has kept of each prefix up to the m-th. *)
KeptUpTo(s, S, m, g) ==
  g = [n \in 0..m |-> IF n = 0 THEN <<>> ELSE Keep(s, S, n, g[n - 1])]

(* Filter's recursion defines a function. *)
LEMMA KeptExists ==
  ASSUME NEW s, NEW S, NEW m \in Nat
  PROVE  \E g : KeptUpTo(s, S, m, g)
<1> DEFINE Bad == {n \in Nat : ~ \E g : KeptUpTo(s, S, n, g)}
<1>1. ASSUME Bad # {} PROVE FALSE
  <2>1. PICK n \in Bad : \A k \in Bad : n <= k
    BY ZenonT(60), <1>1, LeastNat
  <2>2. n # 0
    <3>1. KeptUpTo(s, S, 0, [k \in 0..0 |-> <<>>])
      BY DEF KeptUpTo
    <3>2. QED
      BY <2>1, <3>1
  <2>3. PICK g : KeptUpTo(s, S, n - 1, g)
    BY <2>1, <2>2
  <2> DEFINE h == [k \in 0..n |-> IF k = n THEN Keep(s, S, n, g[n - 1]) ELSE g[k]]
  <2>4. KeptUpTo(s, S, n, h)
    <3>1. n \in Nat /\ n - 1 \in Nat
      BY <2>1, <2>2
    <3>2. \A k \in 0..(n - 1) : g[k] = IF k = 0 THEN <<>> ELSE Keep(s, S, k, g[k - 1])
      BY <2>3 DEF KeptUpTo
    <3>3. ASSUME NEW k \in 0..n
          PROVE  h[k] = IF k = 0 THEN <<>> ELSE Keep(s, S, k, h[k - 1])
      <4>1. CASE k = n
        <5>1. k # 0 /\ n - 1 \in 0..n /\ n - 1 # n
          BY <2>2, <3>1, <4>1
        <5>2. h[k] = Keep(s, S, n, g[n - 1]) /\ h[n - 1] = g[n - 1]
          BY <4>1, <5>1
        <5>3. QED
          BY <4>1, <5>1, <5>2
      <4>2. CASE k # n
        <5>1. k \in 0..(n - 1) /\ (k # 0 => k - 1 \in 0..n /\ k - 1 # n)
          BY <3>1, <4>2
        <5>2. h[k] = g[k] /\ (k # 0 => h[k - 1] = g[k - 1])
          BY <4>2, <5>1
        <5> HIDE DEF h
        <5>3. QED
          BY <3>2, <5>1, <5>2
      <4>3. QED
        BY <4>1, <4>2
    <3>4. h = [k \in 0..n |-> h[k]]
      OBVIOUS
    <3> HIDE DEF h
    <3>5. QED
      BY ZenonT(60), <3>3, <3>4 DEF KeptUpTo
  <2> HIDE DEF h
  <2>5. QED
    BY <2>1, <2>4
<1>2. QED
  BY <1>1

(* So Filter is the last of such values. *)
LEMMA FilterKept ==
  ASSUME NEW s, NEW S, Len(s) \in Nat
  PROVE  \E g : KeptUpTo(s, S, Len(s), g) /\ Filter(s, S) = g[Len(s)]
<1> DEFINE m == Len(s)
           g == CHOOSE f : KeptUpTo(s, S, m, f)
<1>1. KeptUpTo(s, S, m, g)
  BY KeptExists
<1>2. Filter(s, S) = g[m]
  BY DEF Filter, KeptUpTo, Keep
<1>3. QED
  BY ZenonT(60), <1>1, <1>2

(* Appending adds one element. *)
LEMMA AppendRange ==
  ASSUME NEW T, NEW s \in Seq(T), NEW x \in T
  PROVE  /\ Append(s, x) \in Seq(T)
         /\ Len(Append(s, x)) = Len(s) + 1
         /\ Range(Append(s, x)) = Range(s) \cup {x}
<1>1. /\ Append(s, x) \in Seq(T) /\ Len(Append(s, x)) = Len(s) + 1 /\ Len(s) \in Nat
      /\ DOMAIN s = 1..Len(s) /\ DOMAIN Append(s, x) = 1..Len(s) + 1
      /\ \A i \in 1..Len(s) : Append(s, x)[i] = s[i]
      /\ Append(s, x)[Len(s) + 1] = x
  BY AppendFacts, SeqFacts
<1> DEFINE a == Append(s, x)
<1> HIDE DEF a
<1>2. \A i \in 1..Len(s) + 1 : i \in 1..Len(s) \/ i = Len(s) + 1
  BY <1>1
<1>3. 1..Len(s) \subseteq 1..Len(s) + 1 /\ Len(s) + 1 \in 1..Len(s) + 1
  BY <1>1
<1>4. Range(a) \subseteq Range(s) \cup {x}
  BY Zenon, <1>1, <1>2 DEF Range, a
<1>5. Range(s) \cup {x} \subseteq Range(a)
  BY Zenon, <1>1, <1>3 DEF Range, a
<1>6. QED
  BY <1>1, <1>4, <1>5 DEF a

(* What is kept of a sequence are the elements that are in the set: each   *)
(* of them is still there, nothing is new, and nothing is there more often *)
(* than before.                                                            *)
LEMMA FilterProperties ==
  ASSUME NEW T, NEW s \in Seq(T), NEW S
  PROVE  /\ Filter(s, S) \in Seq(T)
         /\ Range(Filter(s, S)) = Range(s) \cap S
         /\ Len(Filter(s, S)) <= Len(s)
<1>1. Len(s) \in Nat /\ DOMAIN s = 1..Len(s) /\ \A i \in 1..Len(s) : s[i] \in T
  BY SeqFacts
<1>2. PICK g : KeptUpTo(s, S, Len(s), g) /\ Filter(s, S) = g[Len(s)]
  BY <1>1, FilterKept
<1> DEFINE Good(n) == /\ g[n] \in Seq(T) /\ Len(g[n]) <= n
                      /\ Range(g[n]) = {s[i] : i \in 1..n} \cap S
           G == {n \in 0..Len(s) : Good(n)}
<1>3. g[0] = <<>> /\ \A n \in 1..Len(s) : g[n] = Keep(s, S, n, g[n - 1])
  BY <1>1, <1>2 DEF KeptUpTo
<1>4. Good(0)
  <2>1. g[0] \in Seq(T) /\ Len(g[0]) = 0 /\ DOMAIN g[0] = {}
    BY <1>3, EmptyFacts
  <2>2. QED
    BY <2>1 DEF Range
<1>5. ASSUME NEW n \in 1..Len(s), Good(n - 1) PROVE Good(n)
  <2>1. n \in Nat /\ n - 1 \in Nat /\ s[n] \in T /\ g[n - 1] \in Seq(T) /\ Len(g[n - 1]) <= n - 1
        /\ Len(g[n - 1]) \in Nat
    BY <1>1, <1>5, SeqFacts
  <2>2. 1..n = 1..(n - 1) \cup {n}
    BY <2>1
  <2>3. {s[i] : i \in 1..n} = {s[i] : i \in 1..(n - 1)} \cup {s[n]}
    BY Zenon, <2>2
  <2>4. Range(g[n - 1]) = {s[i] : i \in 1..(n - 1)} \cap S
    BY <1>5
  <2>5. CASE s[n] \in S
    <3>1. g[n] = Append(g[n - 1], s[n])
      BY ZenonT(60), <1>3, <2>5 DEF Keep
    <3>2. g[n] \in Seq(T) /\ Len(g[n]) = Len(g[n - 1]) + 1 /\ Range(g[n]) = Range(g[n - 1]) \cup {s[n]}
      BY <2>1, <3>1, AppendRange
    <3>3. Range(g[n]) = {s[i] : i \in 1..n} \cap S
      BY <2>3, <2>4, <2>5, <3>2
    <3>4. QED
      BY <2>1, <3>2, <3>3
  <2>6. CASE s[n] \notin S
    <3>1. g[n] = g[n - 1]
      BY <1>3, <2>6 DEF Keep
    <3>2. Range(g[n]) = {s[i] : i \in 1..n} \cap S
      BY <2>3, <2>4, <2>6, <3>1
    <3>3. QED
      BY <2>1, <3>1, <3>2
  <2>7. QED
    BY <2>5, <2>6
<1> HIDE DEF Good
<1>6. \A n \in 0..Len(s) : n \in G
  <2>1. 0 \in G /\ \A n \in 1..Len(s) : n - 1 \in G => n \in G
    BY <1>1, <1>4, <1>5
  <2> HIDE DEF G
  <2>2. QED
    BY ZenonT(60), <1>1, <2>1, InductionUpTo
<1>7. Good(Len(s)) /\ Len(s) \in 0..Len(s)
  BY <1>1, <1>6
<1>8. QED
  BY ZenonT(60), <1>1, <1>2, <1>7 DEF Good, Range
(* A sequence without duplicates has none after the selection. *)
LEMMA FilterInjective ==
  ASSUME NEW T, NEW s \in Seq(T), NEW S, \A i, j \in 1..Len(s) : s[i] = s[j] => i = j
  PROVE  \A i, j \in 1..Len(Filter(s, S)) : Filter(s, S)[i] = Filter(s, S)[j] => i = j
<1>1. Len(s) \in Nat /\ DOMAIN s = 1..Len(s) /\ \A i \in 1..Len(s) : s[i] \in T
  BY SeqFacts
<1>2. PICK g : KeptUpTo(s, S, Len(s), g) /\ Filter(s, S) = g[Len(s)]
  BY <1>1, FilterKept
<1> DEFINE Fine(q, n) == /\ q \in Seq(T)
                         /\ \A i \in 1..Len(q) : \E k \in 1..n : q[i] = s[k]
                         /\ \A i, j \in 1..Len(q) : q[i] = q[j] => i = j
           Good(n) == Fine(g[n], n)
           G == {n \in 0..Len(s) : Good(n)}
<1>3. g[0] = <<>> /\ \A n \in 1..Len(s) : g[n] = Keep(s, S, n, g[n - 1])
  BY <1>1, <1>2 DEF KeptUpTo
<1>4. Good(0)
  BY <1>3
<1>5. ASSUME NEW n \in 1..Len(s), Good(n - 1) PROVE Good(n)
  <2>1. PICK h : h = g[n - 1]
    OBVIOUS
  <2>2. /\ h \in Seq(T) /\ Len(h) \in Nat /\ n \in Nat /\ s[n] \in T
        /\ \A i \in 1..Len(h) : \E k \in 1..(n - 1) : h[i] = s[k]
        /\ \A i, j \in 1..Len(h) : h[i] = h[j] => i = j
    BY <1>1, <1>5, <2>1, SeqFacts
  <2>3. \A i \in 1..Len(h) : h[i] # s[n]
    BY <1>1, <2>2
  <2>4. CASE s[n] \in S
    <3>1. g[n] = Append(h, s[n])
      BY ZenonT(60), <1>3, <2>1, <2>4 DEF Keep
    <3>2. PICK a : a = Append(h, s[n])
      BY ZenonT(60)
    <3>3. /\ a \in Seq(T) /\ Len(a) = Len(h) + 1 /\ \A i \in 1..Len(h) : a[i] = h[i]
          /\ a[Len(h) + 1] = s[n]
      BY <2>2, <3>2, AppendFacts
    <3>4. \A i \in 1..Len(a) : \E k \in 1..n : a[i] = s[k]
      BY <2>2, <3>3
    <3>5. ASSUME NEW i \in 1..Len(a), NEW j \in 1..Len(a), a[i] = a[j] PROVE i = j
      <4>1. /\ i \in 1..Len(h) \/ (i = Len(h) + 1 /\ a[i] = s[n])
            /\ j \in 1..Len(h) \/ (j = Len(h) + 1 /\ a[j] = s[n])
        BY <2>2, <3>3
      <4>2. CASE i \in 1..Len(h) /\ j \in 1..Len(h)
        BY <2>2, <3>3, <3>5, <4>2
      <4>3. CASE i \in 1..Len(h) /\ j \notin 1..Len(h)
        BY <2>3, <3>3, <3>5, <4>1, <4>3
      <4>4. CASE i \notin 1..Len(h)
        BY <2>3, <3>3, <3>5, <4>1, <4>4
      <4>5. QED
        BY <4>2, <4>3, <4>4
    <3>6. Fine(a, n)
      BY <3>3, <3>4, <3>5
    <3> HIDE DEF Fine
    <3>7. QED
      BY <3>1, <3>2, <3>6
  <2>5. CASE s[n] \notin S
    <3>1. g[n] = h
      BY <1>3, <2>1, <2>5 DEF Keep
    <3>2. Fine(h, n)
      BY <2>2
    <3> HIDE DEF Fine
    <3>3. QED
      BY <3>1, <3>2
  <2>6. QED
    BY <2>4, <2>5
<1> HIDE DEF Good, Fine
<1>6. \A n \in 0..Len(s) : n \in G
  <2>1. 0 \in G /\ \A n \in 1..Len(s) : n - 1 \in G => n \in G
    BY <1>1, <1>4, <1>5
  <2> HIDE DEF G
  <2>2. QED
    BY ZenonT(60), <1>1, <2>1, InductionUpTo
<1>7. Good(Len(s))
  BY <1>1, <1>6
<1>8. QED
  BY <1>2, <1>7 DEF Good, Fine
-----------------------------------------------------------------------------
(* The two parts of a sequence. *)
LEMMA PrefixAndSuffix ==
  ASSUME NEW T, NEW s \in Seq(T), NEW n \in 0..Len(s)
  PROVE  /\ SubSeq(s, 1, n) \in Seq(T) /\ Len(SubSeq(s, 1, n)) = n
         /\ \A i \in 1..n : SubSeq(s, 1, n)[i] = s[i]
         /\ SubSeq(s, n + 1, Len(s)) \in Seq(T)
         /\ Len(SubSeq(s, n + 1, Len(s))) = Len(s) - n
         /\ \A i \in 1..Len(s) - n : SubSeq(s, n + 1, Len(s))[i] = s[i + n]
<1>1. Len(s) \in Nat
  BY SeqFacts
<1>2. /\ SubSeq(s, 1, n) \in Seq(T) /\ Len(SubSeq(s, 1, n)) = n
      /\ \A i \in 1..n : SubSeq(s, 1, n)[i] = s[i]
  BY <1>1
<1>3. /\ SubSeq(s, n + 1, Len(s)) \in Seq(T)
      /\ Len(SubSeq(s, n + 1, Len(s))) = Len(s) - n
      /\ \A i \in 1..Len(s) - n : SubSeq(s, n + 1, Len(s))[i] = s[i + n]
  BY <1>1
<1>4. QED
  BY <1>2, <1>3

(* LREM with count 1: one entry less, the others stay. *)
LEMMA LRemProperties ==
  ASSUME NEW T, NEW s \in Seq(T), NEW e
  PROVE  /\ LRem(s, e) \in Seq(T)
         /\ Range(LRem(s, e)) \subseteq Range(s)
         /\ Range(s) \ {e} \subseteq Range(LRem(s, e))
<1>1. Len(s) \in Nat /\ DOMAIN s = 1..Len(s)
  BY SeqFacts
<1>2. CASE ~ \E i \in 1..Len(s) : s[i] = e
  BY <1>2 DEF LRem
<1>3. CASE \E i \in 1..Len(s) : s[i] = e
  <2> DEFINE I == {i \in 1..Len(s) : s[i] = e}
  <2>1. PICK k \in I : LRem(s, e) = SubSeq(s, 1, k - 1) \o SubSeq(s, k + 1, Len(s))
    <3>1. I # {} /\ I \in SUBSET Nat
      BY <1>3
    <3>2. \E i \in I : \A j \in I : i <= j
      <4> HIDE DEF I
      <4>1. QED
        BY <3>1, LeastNat
    <3>3. \E i \in 1..Len(s) : s[i] = e /\ \A j \in 1..(i - 1) : s[j] # e
      <4>1. PICK i \in I : \A j \in I : i <= j
        BY <3>2
      <4>2. ASSUME NEW j \in 1..(i - 1) PROVE s[j] # e
        BY <1>1, <4>1
      <4>3. QED
        BY <4>1, <4>2
    <3>4. QED
      BY ZenonT(60), <1>3, <3>3 DEF LRem
  <2> DEFINE a == SubSeq(s, 1, k - 1)
             b == SubSeq(s, k + 1, Len(s))
             q == a \o b
  <2>2. k \in 1..Len(s) /\ s[k] = e
    BY <2>1
  <2>3. /\ a \in Seq(T) /\ Len(a) = k - 1 /\ \A i \in 1..k - 1 : a[i] = s[i]
        /\ b \in Seq(T) /\ Len(b) = Len(s) - k /\ \A i \in 1..Len(s) - k : b[i] = s[i + k]
    <3>1. k - 1 \in 0..Len(s) /\ k \in 0..Len(s)
      BY <1>1, <2>2
    <3>2. a \in Seq(T) /\ Len(a) = k - 1 /\ \A i \in 1..k - 1 : a[i] = s[i]
      BY ZenonT(60), <3>1, PrefixAndSuffix
    <3>3. b \in Seq(T) /\ Len(b) = Len(s) - k /\ \A i \in 1..Len(s) - k : b[i] = s[i + k]
      BY ZenonT(60), <3>1, PrefixAndSuffix
    <3>4. QED
      BY ZenonT(60), <3>2, <3>3
  <2> HIDE DEF a, b
  <2>4. /\ q \in Seq(T) /\ Len(q) = Len(s) - 1 /\ DOMAIN q = 1..Len(s) - 1
        /\ \A i \in 1..Len(s) - 1 : q[i] = IF i < k THEN s[i] ELSE s[i + 1]
    <3>1. /\ q \in Seq(T) /\ Len(q) = Len(a) + Len(b)
          /\ \A i \in 1..Len(a) + Len(b) : q[i] = IF i <= Len(a) THEN a[i] ELSE b[i - Len(a)]
      BY ZenonT(60), <2>3, ConcatFacts
    <3>2. Len(q) = Len(s) - 1 /\ DOMAIN q = 1..Len(s) - 1
      <4>1. DOMAIN q = 1..Len(q)
        BY <3>1, SeqFacts
      <4>2. Len(q) = Len(s) - 1
        <5> HIDE DEF q, I
        <5>1. QED
          BY <1>1, <2>2, <2>3, <3>1
      <4>3. QED
        BY <4>1, <4>2
    <3>3. ASSUME NEW i \in 1..Len(s) - 1 PROVE q[i] = IF i < k THEN s[i] ELSE s[i + 1]
      <4>1. q[i] = IF i <= k - 1 THEN a[i] ELSE b[i - (k - 1)]
        BY SMTT(30), <1>1, <2>2, <2>3, <3>1
      <4>2. CASE i < k
        BY <1>1, <2>2, <2>3, <4>1, <4>2
      <4>3. CASE ~(i < k)
        <5>1. i - (k - 1) \in 1..Len(s) - k /\ (i - (k - 1)) + k = i + 1 /\ ~(i <= k - 1)
          BY <1>1, <2>2, <4>3
        <5>2. QED
          BY <2>3, <4>1, <4>3, <5>1
      <4>4. QED
        BY ZenonT(60), <4>2, <4>3
    <3>4. QED
      BY ZenonT(60), <3>1, <3>2, <3>3
  <2> HIDE DEF q
  <2>5. Range(q) \subseteq Range(s)
    <3>1. ASSUME NEW i \in 1..Len(s) - 1 PROVE q[i] \in Range(s)
      <4>1. PICK j \in 1..Len(s) : q[i] = s[j]
        <5> HIDE DEF I
        <5>1. i \in 1..Len(s) /\ i + 1 \in 1..Len(s)
          BY <1>1
        <5>2. QED
          BY <2>4, <5>1
      <4>2. QED
        BY <1>1, <4>1 DEF Range
    <3>2. QED
      BY <2>4, <3>1 DEF Range
  <2>6. ASSUME NEW i \in 1..Len(s), s[i] # e PROVE s[i] \in Range(q)
    <3>1. i # k
      BY <2>2, <2>6
    <3>2. CASE i < k
      BY <1>1, <2>2, <2>4, <3>2 DEF Range
    <3>3. CASE i > k
      <4>1. i - 1 \in 1..Len(s) - 1 /\ ~(i - 1 < k) /\ (i - 1) + 1 = i
        BY <1>1, <2>2, <3>3
      <4>2. q[i - 1] = s[i]
        BY <2>4, <4>1
      <4>3. QED
        BY <2>4, <4>1, <4>2 DEF Range
    <3>4. QED
      BY <1>1, <2>2, <3>1, <3>2, <3>3
  <2>7. LRem(s, e) = q
    BY <2>1 DEF q, a, b
  <2>8. Range(s) \ {e} \subseteq Range(q)
    BY <1>1, <2>6 DEF Range
  <2>9. QED
    BY <2>4, <2>5, <2>7, <2>8
<1>4. QED
  BY <1>2, <1>3
-----------------------------------------------------------------------------
(* f lists the numbers up to k in the order R. *)
Sorts(f, k, R) ==
  /\ f \in [1..k -> 1..k]
  /\ \A i, j \in 1..k : i < j => <<f[i], f[j]>> \in R

(* Whatever strict total order there is on the numbers up to m, they can   *)
(* be listed in that order: each in turn is put in front of the first one  *)
(* it precedes.                                                            *)
LEMMA Sortable ==
  ASSUME NEW m \in Nat, NEW R,
         \A a \in 1..m : <<a, a>> \notin R,
         \A a, b \in 1..m : a # b => <<a, b>> \in R \/ <<b, a>> \in R,
         \A a, b, c \in 1..m : <<a, b>> \in R /\ <<b, c>> \in R => <<a, c>> \in R
  PROVE  \E f : Sorts(f, m, R)
<1> DEFINE G == {k \in 0..m : \E f : Sorts(f, k, R)}
<1>1. 0 \in G
  <2>1. Sorts([i \in 1..0 |-> i], 0, R)
    BY DEF Sorts
  <2>2. QED
    BY <2>1
<1>2. ASSUME NEW n \in 1..m, n - 1 \in G PROVE n \in G
  <2>1. PICK f : Sorts(f, n - 1, R)
    BY <1>2
  <2>2. /\ n \in Nat /\ n - 1 \in Nat /\ n <= m
        /\ \A i \in 1..(n - 1) : f[i] \in 1..(n - 1) /\ f[i] \in 1..m /\ f[i] \in 1..n /\ f[i] # n
        /\ \A i, j \in 1..(n - 1) : i < j => <<f[i], f[j]>> \in R
    BY SMTT(30), <2>1 DEF Sorts
  <2>3. PICK e \in 1..n : /\ \A i \in 1..(n - 1) : i < e => <<f[i], n>> \in R
                          /\ \A i \in 1..(n - 1) : i >= e => <<n, f[i]>> \in R
    <3> DEFINE After == {i \in 1..(n - 1) : <<n, f[i]>> \in R}
    <3>1. CASE After = {}
      <4>1. \A i \in 1..(n - 1) : <<f[i], n>> \in R
        BY ZenonT(60), <2>2, <3>1
      <4>2. n \in 1..n /\ \A i \in 1..(n - 1) : ~(i >= n)
        BY <2>2
      <4>3. QED
        BY <4>1, <4>2
    <3>2. CASE After # {}
      <4>1. After \in SUBSET Nat
        OBVIOUS
      <4>2. PICK e \in After : \A i \in After : e <= i
        <5> HIDE DEF After
        <5>1. QED
          BY <3>2, <4>1, LeastNat
      <4>3. ASSUME NEW i \in 1..(n - 1), i < e PROVE <<f[i], n>> \in R
        <5>1. i \notin After
          BY <4>2, <4>3
        <5>2. QED
          BY <2>2, <5>1
      <4>4. ASSUME NEW i \in 1..(n - 1), i >= e PROVE <<n, f[i]>> \in R
        <5>1. <<n, f[e]>> \in R /\ e \in 1..(n - 1)
          BY <4>2
        <5>2. i = e \/ <<f[e], f[i]>> \in R
          BY <2>2, <4>4, <5>1
        <5>3. n \in 1..m /\ f[e] \in 1..m /\ f[i] \in 1..m
          BY <2>2, <5>1
        <5>4. QED
          BY <5>1, <5>2, <5>3
      <4>5. e \in 1..n
        BY <2>2, <4>2
      <4>6. QED
        BY ZenonT(60), <4>3, <4>4, <4>5
    <3>3. QED
      BY ZenonT(60), <3>1, <3>2
  <2> DEFINE h == [i \in 1..n |-> IF i < e THEN f[i] ELSE IF i = e THEN n ELSE f[i - 1]]
  <2>4. /\ \A i \in 1..n : /\ i < e => i \in 1..(n - 1) /\ h[i] = f[i]
                           /\ i = e => h[i] = n
                           /\ i > e => i - 1 \in 1..(n - 1) /\ i - 1 >= e /\ h[i] = f[i - 1]
        /\ \A i \in 1..n : i < e \/ i = e \/ i > e
    BY <2>2, <2>3
  <2>5. h = [i \in 1..n |-> h[i]]
    OBVIOUS
  <2> HIDE DEF h
  <2>6. \A i \in 1..n : h[i] \in 1..n
    BY <2>2, <2>4
  <2>7. ASSUME NEW i \in 1..n, NEW j \in 1..n, i < j PROVE <<h[i], h[j]>> \in R
    <3>1. CASE j < e
      BY <2>2, <2>4, <2>7, <3>1
    <3>2. CASE j = e
      BY <2>2, <2>3, <2>4, <2>7, <3>2
    <3>3. CASE j > e /\ i < e
      BY <2>2, <2>4, <2>7, <3>3
    <3>4. CASE j > e /\ i = e
      BY <2>2, <2>3, <2>4, <2>7, <3>4
    <3>5. CASE j > e /\ i > e
      BY <2>2, <2>4, <2>7, <3>5
    <3>6. QED
      BY <2>4, <3>1, <3>2, <3>3, <3>4, <3>5
  <2>8. Sorts(h, n, R)
    BY <2>5, <2>6, <2>7 DEF Sorts
  <2>9. QED
    BY <2>8
<1> HIDE DEF G
<1>3. m \in G
  BY <1>1, <1>2, InductionUpTo
<1>4. QED
  BY <1>3 DEF G
=============================================================================

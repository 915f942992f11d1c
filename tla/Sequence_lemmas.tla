-------------------------- MODULE Sequence_lemmas --------------------------
(***************************************************************************)
(* Lemmas about lists, for the proofs about the components that keep one:   *)
(* an entry more, an entry less, the first entry of a kind.                 *)
(***************************************************************************)
EXTENDS Integers, Sequences, SequencesExt, SequenceTheorems, WellFoundedInduction,
        FiniteSetTheorems, TLAPS

\* The entries of a list are at its positions.
LEMMA InRange ==
  ASSUME NEW S, NEW l \in Seq(S)
  PROVE  /\ Range(l) \subseteq S
         /\ \A x \in Range(l) : \E i \in DOMAIN l : l[i] = x
         /\ \A i \in DOMAIN l : l[i] \in Range(l)
BY RangeOfSeq DEF Range

\* A list with one more entry at its end has that entry more.
LEMMA RangeOfAppend ==
  ASSUME NEW S, NEW l \in Seq(S), NEW e \in S
  PROVE  Range(Append(l, e)) = Range(l) \cup {e}
<1>1. Append(l, e) \in Seq(S) /\ Len(Append(l, e)) = Len(l) + 1 BY AppendProperties
<1>2. /\ \A i \in 1..Len(l) : Append(l, e)[i] = l[i]
      /\ Append(l, e)[Len(l) + 1] = e
  BY AppendProperties
<1>3. DOMAIN l = 1..Len(l) /\ DOMAIN Append(l, e) = 1..(Len(l) + 1) /\ Len(l) \in Nat
  BY <1>1, LenProperties
<1> QED BY <1>2, <1>3 DEF Range

\* Two lists one after the other.
LEMMA Joined ==
  ASSUME NEW S, NEW s1 \in Seq(S), NEW s2 \in Seq(S), NEW t, t = s1 \o s2
  PROVE  /\ t \in Seq(S) /\ Len(t) = Len(s1) + Len(s2)
         /\ \A j \in 1..Len(s1) : t[j] = s1[j]
         /\ \A j \in 1..Len(t) : j > Len(s1) => t[j] = s2[j - Len(s1)]
<1>1. Len(s1) \in Nat /\ Len(s2) \in Nat BY LenProperties
<1>2. /\ t \in Seq(S) /\ Len(t) = Len(s1) + Len(s2)
      /\ \A j \in 1..(Len(s1) + Len(s2)) : t[j] = IF j <= Len(s1) THEN s1[j] ELSE s2[j - Len(s1)]
  BY ConcatProperties
<1> QED BY <1>1, <1>2

LEMMA RangeOfPrepended ==
  ASSUME NEW S, NEW n \in S, NEW l \in Seq(S)
  PROVE  Range(<<n>> \o l) = Range(l) \cup {n}
<1>1. Len(l) \in Nat /\ DOMAIN l = 1..Len(l) BY LenProperties
<1>2. PICK t : t = <<n>> \o l OBVIOUS
<1>3. /\ t \in Seq(S) /\ Len(t) = 1 + Len(l) /\ t[1] = n
      /\ \A j \in 1..Len(l) : t[j + 1] = l[j]
  <2>1. <<n>> \in Seq(S) /\ Len(<<n>>) = 1 /\ <<n>>[1] = n OBVIOUS
  <2> QED BY <1>1, <1>2, <2>1, ConcatProperties
<1>4. DOMAIN t = 1..(1 + Len(l)) BY <1>3, LenProperties
<1>5. \A j \in 1..Len(l) : j + 1 \in DOMAIN t BY <1>1, <1>4
<1>6. \A j \in DOMAIN t : j = 1 \/ (j - 1 \in DOMAIN l /\ t[j] = l[j - 1]) BY <1>1, <1>3, <1>4
<1>7. Range(t) \subseteq Range(l) \cup {n} BY <1>3, <1>6 DEF Range
<1>8. Range(l) \cup {n} \subseteq Range(t) BY <1>1, <1>3, <1>4, <1>5 DEF Range
<1> QED BY <1>2, <1>7, <1>8

\* A function on 1..m is a sequence.
LEMMA FunctionIsSeq ==
  ASSUME NEW S, NEW m \in Nat, NEW f \in [1..m -> S]
  PROVE  f \in Seq(S)
OBVIOUS

\* A list without its first entry: the others move up.
LEMMA RangeOfTail ==
  ASSUME NEW S, NEW l \in Seq(S), l # << >>
  PROVE  /\ Tail(l) \in Seq(S) /\ Head(l) = l[1] /\ Head(l) \in S
         /\ DOMAIN Tail(l) = 1..(Len(l) - 1) /\ DOMAIN l = 1..Len(l) /\ Len(l) \in Nat \ {0}
         /\ \A i \in DOMAIN Tail(l) : Tail(l)[i] = l[i + 1]
         /\ Range(l) = Range(Tail(l)) \cup {Head(l)}
<1>1. Tail(l) \in Seq(S) /\ Head(l) \in S /\ Len(Tail(l)) = Len(l) - 1 BY HeadTailProperties
<1>2. Len(l) \in Nat \ {0} /\ DOMAIN l = 1..Len(l) BY EmptySeq, LenProperties
<1>3. DOMAIN Tail(l) = 1..(Len(l) - 1) BY <1>1, LenProperties
<1>4. \A i \in DOMAIN Tail(l) : Tail(l)[i] = l[i + 1] BY <1>1, <1>3, HeadTailProperties
<1>5. Head(l) = l[1] OBVIOUS
<1>6. Range(l) \subseteq Range(Tail(l)) \cup {Head(l)}
  <2> SUFFICES ASSUME NEW i \in DOMAIN l PROVE l[i] \in Range(Tail(l)) \cup {Head(l)}
    BY DEF Range
  <2>1. CASE i = 1 BY <1>5, <2>1
  <2>2. CASE i # 1
    <3>1. i - 1 \in DOMAIN Tail(l) /\ (i - 1) + 1 = i BY <1>2, <1>3, <2>2
    <3> QED BY <1>4, <3>1 DEF Range
  <2> QED BY <2>1, <2>2
<1>7. Range(Tail(l)) \cup {Head(l)} \subseteq Range(l)
  BY <1>2, <1>3, <1>4, <1>5 DEF Range
<1> QED BY <1>1, <1>2, <1>3, <1>4, <1>5, <1>6, <1>7

\* A list with one more entry at its end.
LEMMA AndOneMore ==
  ASSUME NEW S, NEW s \in Seq(S), NEW c \in S, NEW t, t = Append(s, c)
  PROVE  /\ t \in Seq(S) /\ Len(t) = Len(s) + 1
         /\ DOMAIN t = DOMAIN s \cup {Len(t)} /\ Len(t) \notin DOMAIN s
         /\ t[Len(t)] = c /\ \A i \in DOMAIN s : t[i] = s[i]
<1>1. t \in Seq(S) /\ Len(t) = Len(s) + 1 /\ t[Len(s) + 1] = c /\ \A i \in 1..Len(s) : t[i] = s[i]
  BY AppendProperties
<1>2. Len(s) \in Nat /\ DOMAIN s = 1..Len(s) /\ DOMAIN t = 1..Len(t) BY <1>1, LenProperties
<1> QED BY <1>1, <1>2

\* A list without its i-th entry: the later ones move up.
LEMMA RemoveAtIs ==
  ASSUME NEW S, NEW s \in Seq(S), NEW i \in DOMAIN s
  PROVE  /\ RemoveAt(s, i) \in Seq(S)
         /\ Len(RemoveAt(s, i)) = Len(s) - 1
         /\ \A j \in DOMAIN RemoveAt(s, i) :
              RemoveAt(s, i)[j] = s[IF j < i THEN j ELSE j + 1]
<1>0. i \in 1..Len(s) /\ Len(s) \in Nat BY LenProperties
<1> DEFINE n == Len(s)
           a == SubSeq(s, 1, i - 1)
           b == SubSeq(s, i + 1, n)
<1>1. i - 1 \in Int /\ i + 1 \in Int /\ n \in Int /\ 1 \in Int /\ i \in Int BY <1>0
<1>2. \A j \in 1..(i - 1) : s[j] \in S BY <1>0, ElementOfSeq
<1>3. \A j \in (i + 1)..n : s[j] \in S BY <1>0, ElementOfSeq
<1>4. /\ a \in Seq(S) /\ Len(a) = i - 1
      /\ \A j \in 1..(i - 1) : a[j] = s[j]
  <2>1. /\ a \in Seq(S) /\ Len(a) = IF 1 <= i - 1 THEN i - 1 - 1 + 1 ELSE 0
        /\ \A j \in 1..(i - 1 - 1 + 1) : a[j] = s[1 + j - 1]
    BY <1>1, <1>2, SubSeqProperties
  <2>2. ASSUME NEW j \in 1..(i - 1) PROVE a[j] = s[j]
    <3>1. j \in 1..(i - 1 - 1 + 1) /\ 1 + j - 1 = j BY <1>0
    <3> HIDE DEF a
    <3> QED BY <2>1, <3>1
  <2> HIDE DEF a
  <2> QED BY <1>0, <2>1, <2>2
<1>5. /\ b \in Seq(S) /\ Len(b) = n - i
      /\ \A j \in 1..(n - i) : b[j] = s[i + j]
  <2>1. /\ b \in Seq(S) /\ Len(b) = IF i + 1 <= n THEN n - (i + 1) + 1 ELSE 0
        /\ \A j \in 1..(n - (i + 1) + 1) : b[j] = s[(i + 1) + j - 1]
    BY <1>1, <1>3, SubSeqProperties
  <2>2. ASSUME NEW j \in 1..(n - i) PROVE b[j] = s[i + j]
    <3>1. j \in 1..(n - (i + 1) + 1) /\ (i + 1) + j - 1 = i + j BY <1>0
    <3> HIDE DEF b
    <3> QED BY <2>1, <3>1
  <2> HIDE DEF b
  <2> QED BY <1>0, <2>1, <2>2
<1> HIDE DEF a, b
<1>6. /\ a \o b \in Seq(S) /\ Len(a \o b) = Len(a) + Len(b)
      /\ \A j \in 1..(Len(a) + Len(b)) :
           (a \o b)[j] = IF j <= Len(a) THEN a[j] ELSE b[j - Len(a)]
  BY <1>4, <1>5, ConcatProperties
<1>7. RemoveAt(s, i) = a \o b BY DEF RemoveAt, a, b
<1>8. DOMAIN (a \o b) = 1..(n - 1) BY <1>0, <1>4, <1>5, <1>6, LenProperties
<1>9. ASSUME NEW j \in 1..(n - 1) PROVE (a \o b)[j] = s[IF j < i THEN j ELSE j + 1]
  <2>1. CASE j < i BY <1>0, <1>4, <1>5, <1>6, <2>1
  <2>2. CASE ~(j < i)
    <3>1. j - (i - 1) \in 1..(n - i) BY <1>0, <2>2
    <3>2. i + (j - (i - 1)) = j + 1 BY <1>0
    <3>3. j \in 1..(Len(a) + Len(b)) /\ ~(j <= Len(a)) BY <1>0, <1>4, <1>5, <2>2
    <3>4. (a \o b)[j] = b[j - Len(a)] BY <1>6, <3>3
    <3> QED BY <1>4, <1>5, <2>2, <3>1, <3>2, <3>4
  <2> QED BY <2>1, <2>2
<1>10. Len(a \o b) = n - 1 BY <1>0, <1>4, <1>5, <1>6
<1> HIDE DEF n
<1>11. Len(a \o b) = Len(s) - 1 BY <1>10 DEF n
<1> QED BY <1>6, <1>7, <1>8, <1>9, <1>11

\* A list without its i-th entry, as a whole: the others, in their order.
LEMMA Without ==
  ASSUME NEW S, NEW s \in Seq(S), NEW i \in DOMAIN s, NEW t, t = RemoveAt(s, i)
  PROVE  /\ t \in Seq(S) /\ Len(t) = Len(s) - 1 /\ DOMAIN t = 1..(Len(s) - 1)
         /\ \A j \in DOMAIN t : \E k \in DOMAIN s : k # i /\ t[j] = s[k]
         /\ \A k \in DOMAIN s : k # i => \E j \in DOMAIN t : t[j] = s[k]
         /\ \A j, l \in DOMAIN t : j # l =>
              \E k, m \in DOMAIN s : k # m /\ t[j] = s[k] /\ t[l] = s[m]
<1>1. /\ t \in Seq(S) /\ Len(t) = Len(s) - 1
      /\ \A j \in DOMAIN t : t[j] = s[IF j < i THEN j ELSE j + 1]
  BY RemoveAtIs
<1>2. Len(s) \in Nat /\ DOMAIN s = 1..Len(s) /\ DOMAIN t = 1..(Len(s) - 1)
  BY <1>1, LenProperties
<1>3. ASSUME NEW j \in DOMAIN t PROVE \E k \in DOMAIN s : k # i /\ t[j] = s[k]
  BY <1>1, <1>2
<1>4. ASSUME NEW k \in DOMAIN s, k # i PROVE \E j \in DOMAIN t : t[j] = s[k]
  <2>1. CASE k < i BY <1>1, <1>2, <2>1
  <2>2. CASE ~(k < i)
    <3>1. k - 1 \in DOMAIN t /\ ~(k - 1 < i) /\ (k - 1) + 1 = k BY <1>2, <1>4, <2>2
    <3>2. t[k - 1] = s[IF k - 1 < i THEN k - 1 ELSE (k - 1) + 1] BY <1>1, <3>1
    <3> QED BY <3>1, <3>2
  <2> QED BY <2>1, <2>2
<1>5. ASSUME NEW j \in DOMAIN t, NEW l \in DOMAIN t, j # l
      PROVE  \E k, m \in DOMAIN s : k # m /\ t[j] = s[k] /\ t[l] = s[m]
  <2> DEFINE k == IF j < i THEN j ELSE j + 1
             m == IF l < i THEN l ELSE l + 1
  <2>1. k \in DOMAIN s /\ m \in DOMAIN s /\ k # m BY <1>2, <1>5
  <2>2. t[j] = s[k] /\ t[l] = s[m] BY <1>1
  <2> HIDE DEF k, m
  <2> QED BY <2>1, <2>2
<1> QED BY <1>1, <1>2, <1>3, <1>4, <1>5

\* A set of numbers has a smallest one.
LEMMA SmallestOf ==
  ASSUME NEW T \in SUBSET Nat, T # {}
  PROVE  \E x \in T : \A y \in T : x <= y
<1>1. PICK x \in T : \A y \in T : <<y, x>> \notin OpToRel(<, Nat)
  BY NatLessThanWellFounded, WFMin
<1>2. ASSUME NEW y \in T PROVE x <= y
  <2>1. <<y, x>> \in Nat \X Nat OBVIOUS
  <2>2. ~(y < x) BY <1>1, <2>1 DEF OpToRel
  <2> QED BY <2>2
<1> QED BY <1>2

\* A finite set of numbers has an n-th one, for every n up to its size.
LEMMA NthOf ==
  ASSUME NEW m \in Nat, NEW kept \in SUBSET (1..m), NEW n \in 1..Cardinality(kept)
  PROVE  \E i \in kept : Cardinality({j \in kept : j <= i}) = n
<1> DEFINE UpTo(k) == {j \in kept : j <= k}
           T == {k \in 0..m : n <= Cardinality(UpTo(k))}
<1>0. \A j \in kept : j \in Nat /\ 1 <= j /\ j <= m OBVIOUS
<1>1. IsFiniteSet(kept) /\ Cardinality(kept) \in Nat
  <2>1. IsFiniteSet(1..m) BY FS_Interval
  <2>2. IsFiniteSet(kept) BY <2>1, FS_Subset
  <2> QED BY <2>2, FS_CardinalityType
<1>2. ASSUME NEW k \in 0..m PROVE IsFiniteSet(UpTo(k)) /\ Cardinality(UpTo(k)) \in Nat
  BY <1>1, FS_Subset, FS_CardinalityType
<1>3. UpTo(m) = kept BY <1>0
<1>4. UpTo(0) = {}
  <2>1. \A j \in kept : ~(j <= 0) BY <1>0
  <2> QED BY <2>1
<1>5. Cardinality(UpTo(0)) = 0 BY <1>4, FS_EmptySet
<1>6. m \in T BY <1>1, <1>3
<1>7. PICK k \in T : \A l \in T : k <= l
  <2>1. T \in SUBSET Nat /\ T # {} BY <1>6
  <2> HIDE DEF T
  <2> QED BY <2>1, SmallestOf
<1>8. k \in 1..m
  <2>1. k \in 0..m /\ n <= Cardinality(UpTo(k)) OBVIOUS
  <2>2. k # 0 BY <1>1, <1>5, <2>1
  <2> QED BY <2>1, <2>2
<1>9. Cardinality(UpTo(k - 1)) < n
  <2>1. k - 1 \in 0..m /\ ~(k <= k - 1) BY <1>8
  <2>2. k - 1 \notin T BY <1>7, <2>1
  <2>3. Cardinality(UpTo(k - 1)) \in Nat BY <1>2, <2>1
  <2> QED BY <1>1, <2>1, <2>2, <2>3
<1>10. k \in kept
  <2> SUFFICES ASSUME k \notin kept PROVE FALSE OBVIOUS
  <2>1. UpTo(k) = UpTo(k - 1)
    <3>1. \A j \in kept : j <= k <=> j <= k - 1 BY <1>0, <1>8
    <3> QED BY <3>1
  <2>2. n <= Cardinality(UpTo(k)) OBVIOUS
  <2>3. k \in 0..m BY <1>8
  <2> QED BY <1>1, <1>2, <1>9, <2>1, <2>2, <2>3
<1>11. UpTo(k) = UpTo(k - 1) \cup {k} /\ k \notin UpTo(k - 1)
  <2>1. \A j \in kept : j <= k <=> j <= k - 1 \/ j = k BY <1>0, <1>8
  <2>2. ~(k <= k - 1) BY <1>8
  <2> QED BY <1>10, <2>1, <2>2
<1>12. Cardinality(UpTo(k)) = Cardinality(UpTo(k - 1)) + 1
  <2>1. k - 1 \in 0..m BY <1>8
  <2>2. IsFiniteSet(UpTo(k - 1)) BY <1>2, <2>1
  <2> HIDE DEF UpTo
  <2> QED BY <1>11, <2>2, FS_AddElement
<1>13. Cardinality(UpTo(k)) = n
  <2>1. n <= Cardinality(UpTo(k)) OBVIOUS
  <2>2. k - 1 \in 0..m /\ n \in Nat BY <1>1, <1>8
  <2>3. Cardinality(UpTo(k - 1)) \in Nat BY <1>2, <2>2
  <2> HIDE DEF UpTo
  <2> QED BY <1>9, <1>12, <2>1, <2>2, <2>3
<1> QED BY <1>10, <1>13

\* A list with an entry of a kind has a first one.
LEMMA FirstOneOf ==
  ASSUME NEW S, NEW s \in Seq(S), NEW E, NEW i \in DOMAIN s, s[i] \in E
  PROVE  \E p \in DOMAIN s : s[p] \in E /\ \A j \in 1..(p - 1) : s[j] \notin E
<1>1. Len(s) \in Nat /\ DOMAIN s = 1..Len(s) BY LenProperties
<1>2. PICK p \in {j \in DOMAIN s : s[j] \in E} : \A j \in {k \in DOMAIN s : s[k] \in E} : p <= j
  <2>1. {j \in DOMAIN s : s[j] \in E} \in SUBSET Nat BY <1>1
  <2> QED BY <2>1, SmallestOf
<1> QED BY <1>1, <1>2
=============================================================================

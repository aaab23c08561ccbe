---------------------------- MODULE SequenceLemmas -----------------------------
(* Facts about channels, buffers and directories kept as sequences: what   *)
(* they hold after an append, a receive, a removal or a cut.               *)
EXTENDS Integers, Sequences, FiniteSets, SequencesExt, FiniteSetTheorems, SequenceTheorems,
        NaturalsInduction, WellFoundedInduction, TLAPS

LEMMA IntervalTail ==
    \A n \in Nat : \A i \in 1..n : i = 1 \/ (i - 1 \in 1..(n - 1) /\ i = (i - 1) + 1)
OBVIOUS

LEMMA RangeOf ==
    ASSUME NEW S, NEW s \in Seq(S)
    PROVE  /\ Range(s) = {s[i] : i \in 1..Len(s)} /\ Range(s) \subseteq S
           /\ \A x \in S : Append(s, x) \in Seq(S) /\ Range(Append(s, x)) = Range(s) \union {x}
           /\ s # <<>> => /\ Head(s) \in S /\ Tail(s) \in Seq(S)
                          /\ Range(s) = {Head(s)} \union Range(Tail(s))
<1>1. Range(s) = {s[i] : i \in 1..Len(s)} /\ Range(s) \subseteq S
  BY DEF Range
<1>2. ASSUME NEW x \in S PROVE Append(s, x) \in Seq(S) /\ Range(Append(s, x)) = Range(s) \union {x}
  <2>1. Append(s, x) \in Seq(S) /\ Len(Append(s, x)) = Len(s) + 1
        /\ \A i \in 1..Len(s) : i \in 1..(Len(s) + 1) /\ Append(s, x)[i] = s[i]
        /\ Append(s, x)[Len(s) + 1] = x
    OBVIOUS
  <2>2. \A i \in 1..(Len(s) + 1) : i \in 1..Len(s) \/ i = Len(s) + 1
    <3>1. Len(s) \in Nat
      OBVIOUS
    <3> QED
      BY <3>1
  <2>3. Len(s) + 1 \in 1..(Len(s) + 1)
    OBVIOUS
  <2>4. Range(Append(s, x)) = {Append(s, x)[i] : i \in 1..(Len(s) + 1)}
    BY <2>1 DEF Range
  <2> QED
    BY <1>1, <2>1, <2>2, <2>3, <2>4
<1>3. ASSUME s # <<>>
      PROVE  Head(s) \in S /\ Tail(s) \in Seq(S) /\ Range(s) = {Head(s)} \union Range(Tail(s))
  <2>1. /\ Head(s) = s[1] /\ Tail(s) \in Seq(S) /\ Len(Tail(s)) = Len(s) - 1 /\ 1 \in 1..Len(s)
        /\ \A i \in 1..(Len(s) - 1) : Tail(s)[i] = s[i + 1] /\ i + 1 \in 1..Len(s)
    BY <1>3
  <2>2. \A i \in 1..Len(s) : i = 1 \/ (i - 1 \in 1..(Len(s) - 1) /\ i = (i - 1) + 1)
    BY IntervalTail
  <2>3. Range(Tail(s)) = {Tail(s)[i] : i \in 1..(Len(s) - 1)}
    <3>1. DOMAIN Tail(s) = 1..Len(Tail(s))
      BY <2>1
    <3> QED
      BY ONLY <2>1, <3>1 DEF Range
  <2>4. ASSUME NEW x \in Range(s) PROVE x \in {Head(s)} \union Range(Tail(s))
    <3>1. PICK i \in 1..Len(s) : x = s[i]
      BY <1>1
    <3> QED
      BY <2>1, <2>2, <2>3, <3>1
  <2>5. ASSUME NEW x \in {Head(s)} \union Range(Tail(s)) PROVE x \in Range(s)
    BY <1>1, <2>1, <2>3
  <2> QED
    BY <2>1, <2>4, <2>5
<1> QED
  BY <1>1, <1>2, <1>3

LEMMA RangeEmpty == Range(<<>>) = {}
BY DEF Range

LEMMA RightHalf ==
    \A n \in Nat : \A i \in 1..n, j \in 1..(n - 1) : ~(j < i) =>
        /\ j \in 1..((i - 1) + (n - i)) /\ ~(j <= i - 1) /\ j - (i - 1) = j - i + 1
        /\ j - i + 1 \in 1..(n - i) /\ (i + 1) + (j - i + 1) - 1 = j + 1
OBVIOUS

(* Taking one element out of a sequence leaves the others, in order. *)
LEMMA RemoveAtKeeps ==
    ASSUME NEW S, NEW s, s \in Seq(S), NEW i, i \in 1..Len(s)
    PROVE  /\ RemoveAt(s, i) \in Seq(S)
           /\ \A j \in 1..Len(s) : j # i => s[j] \in Range(RemoveAt(s, i))
           /\ Len(RemoveAt(s, i)) = Len(s) - 1
           /\ \A j \in 1..(Len(s) - 1) : RemoveAt(s, i)[j] = s[IF j < i THEN j ELSE j + 1]
<1> DEFINE n == Len(s)
           l == SubSeq(s, 1, i - 1)
           r == SubSeq(s, i + 1, n)
<1>0. n \in Nat /\ i \in 1..n /\ \A j \in 1..n : s[j] \in S
  OBVIOUS
<1>1. RemoveAt(s, i) = l \o r
  BY DEF RemoveAt
<1> HIDE DEF n
<1>2. /\ i - 1 \in Nat /\ i - 1 \in Int /\ i + 1 \in Int /\ n \in Int
      /\ \A j \in 1..(i - 1) : j \in 1..n /\ 1 + j - 1 = j
      /\ \A j \in (i + 1)..n : j \in 1..n
      /\ i - 1 - 1 + 1 = i - 1 /\ n - (i + 1) + 1 = n - i /\ n - i \in Nat
  BY ONLY <1>0
<1>3. l \in Seq(S) /\ Len(l) = i - 1 /\ \A j \in 1..(i - 1) : l[j] = s[j]
  <2>1. \A j \in 1..(i - 1) : s[j] \in S
    BY ONLY <1>0, <1>2
  <2>2. /\ l \in Seq(S) /\ Len(l) = IF 1 <= i - 1 THEN i - 1 - 1 + 1 ELSE 0
        /\ \A j \in 1..(i - 1 - 1 + 1) : l[j] = s[1 + j - 1]
    BY <1>2, <2>1, SubSeqProperties
  <2> HIDE DEF l
  <2> QED
    BY ONLY <1>2, <2>2
<1>4. r \in Seq(S) /\ Len(r) = n - i /\ \A j \in 1..(n - i) : r[j] = s[(i + 1) + j - 1]
  <2>1. \A j \in (i + 1)..n : s[j] \in S
    BY ONLY <1>0, <1>2
  <2>2. /\ r \in Seq(S) /\ Len(r) = IF i + 1 <= n THEN n - (i + 1) + 1 ELSE 0
        /\ \A j \in 1..(n - (i + 1) + 1) : r[j] = s[(i + 1) + j - 1]
    BY <1>2, <2>1, SubSeqProperties
  <2>3. Len(r) = IF i + 1 <= n THEN n - (i + 1) + 1 ELSE 0
    BY <2>2
  <2> HIDE DEF r
  <2>4. Len(r) = n - i
    BY ONLY <1>0, <1>2, <2>3
  <2> QED
    BY <1>2, <2>2, <2>4
<1> HIDE DEF l, r
<1>len. n \in Nat /\ i \in 1..n /\ Len(l) = i - 1 /\ Len(r) = n - i
  BY <1>0, <1>3, <1>4
<1>5. /\ l \o r \in Seq(S) /\ Len(l \o r) = Len(l) + Len(r)
      /\ \A j \in 1..(Len(l) + Len(r)) : (l \o r)[j] = IF j <= Len(l) THEN l[j] ELSE r[j - Len(l)]
  BY <1>3, <1>4, ConcatProperties
<1>6. Range(l \o r) = {(l \o r)[j] : j \in 1..(Len(l) + Len(r))}
  BY <1>5 DEF Range
<1>7. ASSUME NEW j \in 1..n, j # i PROVE s[j] \in Range(l \o r)
  <2>1. CASE j < i
    <3>1. j \in 1..(i - 1) /\ j \in 1..(Len(l) + Len(r)) /\ j <= Len(l)
      BY ONLY <1>len, <2>1, j \in 1..n
    <3>2. (l \o r)[j] = l[j] /\ l[j] = s[j]
      BY <1>3, <1>5, <3>1
    <3> QED
      BY <1>6, <3>1, <3>2
  <2>2. CASE j > i
    <3>1. /\ j - 1 \in 1..(Len(l) + Len(r)) /\ ~(j - 1 <= Len(l)) /\ j - 1 - Len(l) = j - i
          /\ j - i \in 1..(n - i) /\ (i + 1) + (j - i) - 1 = j
      BY ONLY <1>len, <2>2, j \in 1..n
    <3>2. (l \o r)[j - 1] = r[j - i] /\ r[j - i] = s[j]
      BY <1>4, <1>5, <3>1
    <3> QED
      BY <1>6, <3>1, <3>2
  <2> QED
    BY <1>0, <1>7, <2>1, <2>2
<1>8. Len(l) + Len(r) = n - 1
  BY ONLY <1>0, <1>3, <1>4
<1>9. ASSUME NEW j \in 1..(n - 1) PROVE (l \o r)[j] = s[IF j < i THEN j ELSE j + 1]
  <2>1. CASE j < i
    <3>1. j \in 1..(i - 1) /\ j \in 1..(Len(l) + Len(r)) /\ j <= Len(l)
      BY ONLY <1>len, <2>1, j \in 1..(n - 1)
    <3> QED
      BY <1>3, <1>5, <2>1, <3>1
  <2>2. CASE ~(j < i)
    <3>1. /\ j \in 1..(Len(l) + Len(r)) /\ ~(j <= Len(l)) /\ j - Len(l) = j - i + 1
          /\ j - i + 1 \in 1..(n - i) /\ (i + 1) + (j - i + 1) - 1 = j + 1
      BY ONLY <1>len, <2>2, j \in 1..(n - 1), RightHalf
    <3>a. \A k \in 1..(n - i) : r[k] = s[(i + 1) + k - 1]
      BY ONLY <1>4
    <3>b. \A k \in 1..(Len(l) + Len(r)) : (l \o r)[k] = IF k <= Len(l) THEN l[k] ELSE r[k - Len(l)]
      BY ONLY <1>5
    <3>2. (l \o r)[j] = r[j - i + 1] /\ r[j - i + 1] = s[j + 1]
      BY ONLY <3>a, <3>b, <3>1
    <3> QED
      BY <2>2, <3>2
  <2> QED
    BY <2>1, <2>2
<1> QED
  BY <1>1, <1>5, <1>7, <1>8, <1>9 DEF n

LEMMA PrefixIn ==
    ASSUME NEW S, NEW s, s \in Seq(S), NEW n, n \in 0..Len(s)
    PROVE  SubSeq(s, 1, n) \in Seq(S)
<1>1. n \in Int /\ 1 \in Int /\ \A i \in 1..n : i \in 1..Len(s)
  OBVIOUS
<1>2. \A i \in 1..n : s[i] \in S
  BY <1>1
<1> QED
  BY <1>1, <1>2, SubSeqProperties

LEMMA MinIsIn ==
    ASSUME NEW S \in SUBSET Nat, S # {}
    PROVE  Min(S) \in S
<1> DEFINE less == {ss \in Nat \X Nat : ss[1] < ss[2]}
<1>1. IsWellFoundedOn(less, Nat)
  BY NatLessThanWellFounded DEF OpToRel
<1> HIDE DEF less
<1>2. PICK m \in S : \A y \in S : ~(<<y, m>> \in less)
  BY <1>1, WFMin
<1>3. \A y \in S : m <= y
  <2> SUFFICES ASSUME NEW y \in S PROVE m <= y
    OBVIOUS
  <2>1. m \in Nat /\ y \in Nat /\ ~(y < m)
    BY <1>2 DEF less
  <2> QED
    BY ONLY <2>1
<1> QED
  BY <1>2, <1>3 DEF Min

(* A bounded set of numbers has a largest element. *)
LEMMA MaxIsIn ==
    ASSUME NEW n \in Nat, NEW S \in SUBSET (1..n), S # {}
    PROVE  Max(S) \in S /\ \A y \in S : Max(S) >= y
<1> DEFINE above == {m \in Nat : \A x \in S : x <= m}
<1>1. n \in above
  OBVIOUS
<1>2. PICK m \in above : \A y \in above : ~(y < m)
  <2> DEFINE less == {ss \in Nat \X Nat : ss[1] < ss[2]}
  <2>1. above \subseteq Nat /\ above # {}
    BY <1>1
  <2>2. IsWellFoundedOn(less, Nat)
    BY NatLessThanWellFounded DEF OpToRel
  <2> HIDE DEF above, less
  <2>3. \E m \in above : \A y \in above : ~(<<y, m>> \in less)
    BY <2>1, <2>2, WFMin
  <2> QED
    BY <2>1, <2>3 DEF less
<1>3. m \in Nat /\ \A x \in S : x <= m
  OBVIOUS
<1>4. m \in S
  <2> SUFFICES ASSUME m \notin S PROVE FALSE
    OBVIOUS
  <2>1. PICK x : x \in S
    OBVIOUS
  <2>2. x \in Nat /\ x >= 1 /\ x <= m
    BY <1>3, <2>1
  <2>3. \A y \in S : y <= m - 1
    <3> SUFFICES ASSUME NEW y \in S PROVE y <= m - 1
      OBVIOUS
    <3>1. y \in Nat /\ y <= m /\ y # m
      BY <1>3
    <3> QED
      BY ONLY <1>3, <3>1
  <2>4. m - 1 \in above
    <3>1. m - 1 \in Nat
      BY ONLY <1>3, <2>2
    <3> QED
      BY <2>3, <3>1
  <2>5. m - 1 < m
    BY ONLY <1>3
  <2> QED
    BY <1>2, <2>4, <2>5
<1> QED
  BY <1>3, <1>4 DEF Max

LEMMA RemoveFirstIs ==
    ASSUME NEW S, NEW s \in Seq(S), NEW x
    PROVE  \/ x \notin Range(s) /\ RemoveFirst(s, x) = s
           \/ \E i \in 1..Len(s) : s[i] = x /\ RemoveFirst(s, x) = RemoveAt(s, i)
<1> DEFINE I == {i \in 1..Len(s) : s[i] = x}
<1>0. Range(s) = {s[i] : i \in 1..Len(s)}
  BY RangeOf
<1>1. CASE I = {}
  BY <1>0, <1>1 DEF RemoveFirst
<1>2. CASE I # {}
  <2>1. I \subseteq Nat
    OBVIOUS
  <2>2. SelectInSeq(s, LAMBDA v : v = x) = Min(I)
    BY <1>2 DEF SelectInSeq
  <2>3. Min(I) \in I
    <3> HIDE DEF I
    <3> QED
      BY <1>2, <2>1, MinIsIn
  <2>4. RemoveFirst(s, x) = RemoveAt(s, Min(I))
    BY <1>2, <2>2 DEF RemoveFirst
  <2> QED
    BY <2>3, <2>4
<1> QED
  BY <1>1, <1>2

(* A cut from a sequence. *)
LEMMA CutIs ==
    ASSUME NEW S, NEW s, s \in Seq(S), NEW m, m \in 0..Len(s)
    PROVE  /\ SubSeq(s, m + 1, Len(s)) \in Seq(S)
           /\ Len(SubSeq(s, m + 1, Len(s))) = Len(s) - m
           /\ \A i \in 1..(Len(s) - m) : SubSeq(s, m + 1, Len(s))[i] = s[m + i]
<1> DEFINE n == Len(s)
<1>0. n \in Nat /\ m \in 0..n /\ \A j \in 1..n : s[j] \in S
  OBVIOUS
<1> HIDE DEF n
<1>1. /\ m + 1 \in Int /\ n \in Int /\ \A j \in (m + 1)..n : j \in 1..n
      /\ n - (m + 1) + 1 = n - m /\ \A i \in 1..(n - m) : (m + 1) + i - 1 = m + i
      /\ (IF m + 1 <= n THEN n - (m + 1) + 1 ELSE 0) = n - m
  BY ONLY <1>0
<1>2. \A j \in (m + 1)..n : s[j] \in S
  BY ONLY <1>0, <1>1
<1>3. /\ SubSeq(s, m + 1, n) \in Seq(S)
      /\ Len(SubSeq(s, m + 1, n)) = IF m + 1 <= n THEN n - (m + 1) + 1 ELSE 0
      /\ \A i \in 1..(n - (m + 1) + 1) : SubSeq(s, m + 1, n)[i] = s[(m + 1) + i - 1]
  BY <1>1, <1>2, SubSeqProperties
<1>4. Len(SubSeq(s, m + 1, n)) = n - m
  BY <1>1, <1>3
<1>5. \A i \in 1..(n - m) : SubSeq(s, m + 1, n)[i] = s[m + i]
  BY <1>1, <1>3
<1> QED
  BY <1>3, <1>4, <1>5 DEF n

(* A prefix. *)
LEMMA PrefixIs ==
    ASSUME NEW S, NEW s, s \in Seq(S), NEW n, n \in 0..Len(s)
    PROVE  /\ SubSeq(s, 1, n) \in Seq(S) /\ Len(SubSeq(s, 1, n)) = n
           /\ \A i \in 1..n : SubSeq(s, 1, n)[i] = s[i]
           /\ Range(SubSeq(s, 1, n)) = {s[i] : i \in 1..n}
<1>1. n \in Int /\ n \in Nat /\ 1 \in Int /\ \A i \in 1..n : i \in 1..Len(s)
  OBVIOUS
<1>2. \A i \in 1..n : s[i] \in S
  BY <1>1
<1>3. /\ SubSeq(s, 1, n) \in Seq(S) /\ Len(SubSeq(s, 1, n)) = IF 1 <= n THEN n - 1 + 1 ELSE 0
      /\ \A i \in 1..(n - 1 + 1) : SubSeq(s, 1, n)[i] = s[1 + i - 1]
  BY <1>1, <1>2, SubSeqProperties
<1>4. (IF 1 <= n THEN n - 1 + 1 ELSE 0) = n /\ n - 1 + 1 = n /\ \A i \in 1..n : 1 + i - 1 = i
  BY ONLY <1>1
<1>5. Len(SubSeq(s, 1, n)) = n /\ \A i \in 1..n : SubSeq(s, 1, n)[i] = s[i]
  BY <1>3, <1>4
<1>6. DOMAIN SubSeq(s, 1, n) = 1..n
  BY <1>3, <1>5
<1> QED
  BY <1>3, <1>5, <1>6 DEF Range

(* Where the elements of Tail and Append come from. *)
LEMMA TailIs ==
    ASSUME NEW S, NEW s, s \in Seq(S), s # <<>>
    PROVE  /\ Tail(s) \in Seq(S) /\ Len(Tail(s)) = Len(s) - 1 /\ Head(s) = s[1] /\ 1 \in 1..Len(s)
           /\ \A i \in 1..(Len(s) - 1) : Tail(s)[i] = s[i + 1] /\ i + 1 \in 1..Len(s)
OBVIOUS

LEMMA AppendIs ==
    ASSUME NEW S, NEW s, s \in Seq(S), NEW x \in S
    PROVE  /\ Append(s, x) \in Seq(S) /\ Len(Append(s, x)) = Len(s) + 1 /\ Append(s, x)[Len(s) + 1] = x
           /\ \A i \in 1..Len(s) : Append(s, x)[i] = s[i]
           /\ \A i \in 1..(Len(s) + 1) : i = Len(s) + 1 \/ i \in 1..Len(s)
OBVIOUS

(* A sequence without duplicates stays one. *)
LEMMA InjectiveTail ==
    ASSUME NEW S, NEW s, s \in Seq(S), s # <<>>, IsInjective(s)
    PROVE  IsInjective(Tail(s)) /\ Head(s) \notin Range(Tail(s))
<1> DEFINE n == Len(s)
           t == Tail(s)
<1>1. n \in Nat /\ DOMAIN s = 1..n
  OBVIOUS
<1>2. t \in Seq(S) /\ Len(t) = n - 1 /\ Head(s) = s[1] /\ 1 \in 1..n
      /\ \A i \in 1..(n - 1) : t[i] = s[i + 1] /\ i + 1 \in 1..n
  BY TailIs
<1>3. DOMAIN t = 1..(n - 1)
  BY <1>2
<1> HIDE DEF n, t
<1>4. \A i, j \in 1..n : s[i] = s[j] => i = j
  BY <1>1 DEF IsInjective
<1>5. \A i \in 1..(n - 1) : i + 1 # 1
  BY ONLY <1>1
<1>6. \A i, j \in 1..(n - 1) : i + 1 = j + 1 => i = j
  BY ONLY <1>1
<1>7. IsInjective(t)
  BY <1>2, <1>3, <1>4, <1>6 DEF IsInjective
<1>8. Head(s) \notin Range(t)
  BY <1>2, <1>3, <1>4, <1>5 DEF Range
<1> QED
  BY <1>7, <1>8 DEF t

LEMMA InjectiveAppend ==
    ASSUME NEW S, NEW s, s \in Seq(S), NEW x \in S, IsInjective(s), x \notin Range(s)
    PROVE  IsInjective(Append(s, x))
<1> DEFINE n == Len(s)
           t == Append(s, x)
<1>1. n \in Nat /\ DOMAIN s = 1..n
  OBVIOUS
<1>2. t \in Seq(S) /\ Len(t) = n + 1 /\ t[n + 1] = x /\ (\A i \in 1..n : t[i] = s[i])
      /\ \A i \in 1..(n + 1) : i = n + 1 \/ i \in 1..n
  BY AppendIs
<1>3. DOMAIN t = 1..(n + 1)
  BY <1>2
<1> HIDE DEF n, t
<1>4. \A i, j \in 1..n : s[i] = s[j] => i = j
  BY <1>1 DEF IsInjective
<1>5. \A i \in 1..n : s[i] # x
  BY <1>1 DEF Range
<1> QED
  BY <1>2, <1>3, <1>4, <1>5 DEF IsInjective, t

LEMMA ToSetIsRange == \A s : ToSet(s) = Range(s)
BY DEF ToSet, Range

(* A sequence without duplicates has as many elements as its length. *)
LEMMA InjectiveCount ==
    ASSUME NEW S, NEW s, s \in Seq(S), IsInjective(s)
    PROVE  IsFiniteSet(ToSet(s)) /\ Cardinality(ToSet(s)) = Len(s)
<1> DEFINE n == Len(s)
           T == ToSet(s)
<1>1. n \in Nat /\ DOMAIN s = 1..n /\ s \in [1..n -> S]
  OBVIOUS
<1>2. T = {s[i] : i \in 1..n}
  BY <1>1 DEF ToSet
<1> HIDE DEF n, T
<1>3. s \in Bijection(1..n, T)
  BY <1>1, <1>2 DEF Bijection, Injection, Surjection, IsInjective
<1>4. ExistsBijection(1..n, T)
  BY <1>3 DEF ExistsBijection
<1>5. Cardinality(T) = n
  BY <1>1, <1>4, FS_CountingElements
<1>6. IsFiniteSet(T)
  BY <1>1, <1>4, FS_NatBijection
<1> QED
  BY <1>5, <1>6 DEF n, T
===============================================================================

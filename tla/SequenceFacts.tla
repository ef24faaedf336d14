---------------------------- MODULE SequenceFacts ----------------------------
(***************************************************************************)
(* Facts about sequences that the proofs share.                            *)
(***************************************************************************)
EXTENDS Integers, Sequences, SequencesExt, SequenceTheorems, TLAPS

\* The elements of a sequence, each at its place.
LEMMA ElementsOfSeq ==
  ASSUME NEW S, NEW s \in Seq(S)
  PROVE  /\ Range(s) \subseteq S
         /\ \A x \in Range(s) : \E i \in 1..Len(s) : s[i] = x
         /\ \A i \in 1..Len(s) : s[i] \in Range(s)
  BY RangeEquality, ElementOfSeq

\* What Append does to the elements of a sequence.
LEMMA RangeAppend ==
  ASSUME NEW S, NEW s \in Seq(S), NEW e \in S
  PROVE  Range(Append(s, e)) = Range(s) \cup {e}
  <1>1. /\ Append(s, e) \in Seq(S)
        /\ Len(Append(s, e)) = Len(s) + 1
        /\ \A i \in 1..Len(s) : Append(s, e)[i] = s[i]
        /\ Append(s, e)[Len(s) + 1] = e
    OBVIOUS
  <1>2. /\ DOMAIN s = 1..Len(s)
        /\ DOMAIN Append(s, e) = 1..(Len(s) + 1)
    BY <1>1
  <1>3. 1..(Len(s) + 1) = 1..Len(s) \cup {Len(s) + 1}
    OBVIOUS
  <1> QED BY <1>1, <1>2, <1>3 DEF Range

\* Taking the head off loses that element at most.
LEMMA RangeTail ==
  ASSUME NEW S, NEW s \in Seq(S), s # <<>>
  PROVE  /\ Head(s) \in S
         /\ Tail(s) \in Seq(S)
         /\ Range(s) = Range(Tail(s)) \cup {Head(s)}
  <1> DEFINE t == Tail(s)
  <1>1. /\ Head(s) \in S /\ Head(s) = s[1]
        /\ t \in Seq(S)
        /\ Len(s) \in Nat \ {0}
        /\ Len(t) = Len(s) - 1
        /\ \A i \in 1..Len(t) : t[i] = s[i + 1]
    BY HeadTailProperties
  <1>2. DOMAIN s = 1..Len(s) /\ DOMAIN t = 1..Len(t)
    BY <1>1
  <1> HIDE DEF t
  <1>3. \A i \in 1..Len(s) : i = 1 \/ (i - 1 \in 1..Len(t) /\ s[i] = t[i - 1])
    BY <1>1
  <1>4. \A i \in 1..Len(t) : i + 1 \in 1..Len(s)
    BY <1>1
  <1>5. Range(s) \subseteq Range(t) \cup {Head(s)}
    BY <1>1, <1>2, <1>3 DEF Range
  <1>6. Range(t) \subseteq Range(s) /\ Head(s) \in Range(s)
    BY <1>1, <1>2, <1>4, SMTT(30) DEF Range
  <1> QED BY <1>1, <1>5, <1>6 DEF t

\* What is left of a sequence of two or more.
LEMMA TailNotEmpty ==
  ASSUME NEW S, NEW s \in Seq(S), Len(s) > 1
  PROVE  Tail(s) # <<>>
  <1> DEFINE n == Len(s)
  <1>1. Len(<<>>) = 0 /\ ~(0 > 1)
    BY EmptySeq
  <1>2. s # <<>>
    BY <1>1
  <1>3. Len(Tail(s)) = n - 1 /\ n \in Nat /\ n > 1
    BY <1>2, HeadTailProperties, LenProperties
  <1> HIDE DEF n
  <1>4. n - 1 # 0
    BY <1>3
  <1> QED BY <1>1, <1>3, <1>4

\* The first part and the last element of a sequence that is not empty.
LEMMA FrontLast ==
  ASSUME NEW S, NEW s \in Seq(S), s # <<>>
  PROVE  /\ Front(s) \in Seq(S)
         /\ Len(Front(s)) = Len(s) - 1
         /\ \A i \in 1..(Len(s) - 1) : Front(s)[i] = s[i]
         /\ Last(s) \in S
         /\ Last(s) = s[Len(s)]
  <1>1. Len(s) \in Nat \ {0}
    BY EmptySeq
  <1>2. Front(s) = SubSeq(s, 1, Len(s) - 1) /\ Last(s) = s[Len(s)]
    BY DEF Front, Last
  <1>3. Len(s) \in 1..Len(s) /\ Len(s) - 1 \in 0..Len(s)
    BY <1>1
  <1>4. Last(s) \in S
    BY <1>2, <1>3, ElementOfSeq
  <1>5. /\ SubSeq(s, 1, Len(s) - 1) \in Seq(S)
        /\ Len(SubSeq(s, 1, Len(s) - 1)) = Len(s) - 1
        /\ \A i \in 1..(Len(s) - 1) : SubSeq(s, 1, Len(s) - 1)[i] = s[i]
    <2> DEFINE m == Len(s) - 1
    <2>1. 1 \in Int /\ m \in Nat /\ m \in Int
      BY <1>1
    <2>2. \A i \in 1..m : s[i] \in S
      BY <1>1, ElementOfSeq
    <2> HIDE DEF m
    <2>3. /\ SubSeq(s, 1, m) \in Seq(S)
          /\ Len(SubSeq(s, 1, m)) = IF 1 <= m THEN m - 1 + 1 ELSE 0
          /\ \A i \in 1..(m - 1 + 1) : SubSeq(s, 1, m)[i] = s[1 + i - 1]
      BY <2>1, <2>2, SubSeqProperties
    <2>4. (IF 1 <= m THEN m - 1 + 1 ELSE 0) = m /\ m - 1 + 1 = m
      BY <2>1
    <2>5. \A i \in 1..m : 1 + i - 1 = i
      BY <2>1
    <2>6. \A i \in 1..m : SubSeq(s, 1, m)[i] = s[i]
      BY <2>3, <2>4, <2>5
    <2> QED BY <2>3, <2>4, <2>6 DEF m
  <1> QED BY <1>2, <1>4, <1>5

\* What has been passed on, and what is still to pass on, in the order it leaves.
LEMMA PassOn ==
  ASSUME NEW S, NEW s \in Seq(S), NEW t \in Seq(S), t # <<>>
  PROVE  /\ Append(s, Head(t)) \o Tail(t) = s \o t
         /\ Len(t) = 1 => Append(s, Head(t)) = s \o t
  <1> DEFINE h == <<Head(t)>>
  <1>1. /\ Head(t) \in S /\ Tail(t) \in Seq(S) /\ Len(Tail(t)) = Len(t) - 1
        /\ Len(t) \in Nat \ {0}
        /\ \A i \in 1..Len(Tail(t)) : Tail(t)[i] = t[i + 1]
        /\ Head(t) = t[1]
    BY HeadTailProperties, EmptySeq
  <1>2. h \in Seq(S) /\ Len(h) = 1 /\ h[1] = Head(t)
    BY <1>1
  <1>3. Append(s, Head(t)) = s \o h
    BY <1>1, AppendIsConcat
  <1> HIDE DEF h
  <1>4. h \o Tail(t) = t
    <2> DEFINE u == Tail(t)
    <2>1. /\ h \o u \in Seq(S) /\ Len(h \o u) = Len(h) + Len(u)
          /\ \A i \in 1..Len(h) + Len(u) :
               (h \o u)[i] = IF i <= Len(h) THEN h[i] ELSE u[i - Len(h)]
      BY <1>1, <1>2, ConcatProperties
    <2> HIDE DEF u
    <2>2. Len(h \o u) = Len(t)
      BY <1>1, <1>2, <2>1 DEF u
    <2>3. ASSUME NEW i \in 1..Len(t)
          PROVE  (h \o u)[i] = t[i]
      <3>1. i \in 1..Len(h) + Len(u)
        BY <1>1, <1>2 DEF u
      <3>2. CASE i = 1
        BY <1>1, <1>2, <2>1, <3>1, <3>2
      <3>3. CASE i # 1
        <4>1. i - 1 \in 1..Len(u) /\ ~(i <= 1) /\ i - 1 + 1 = i
          BY <1>1, <3>3 DEF u
        <4>2. u[i - 1] = t[i]
          BY <1>1, <4>1 DEF u
        <4> QED BY <1>2, <2>1, <3>1, <4>1, <4>2
      <3> QED BY <3>2, <3>3
    <2>4. h \o u = t
      BY <2>1, <2>2, <2>3, SeqEqual
    <2> QED BY <2>4 DEF u
  <1>5. Append(s, Head(t)) \o Tail(t) = s \o t
    <2> DEFINE u == Tail(t)
    <2>1. u \in Seq(S)
      BY <1>1
    <2> HIDE DEF u
    <2>2. (s \o h) \o u = s \o (h \o u)
      BY <1>2, <2>1, ConcatAssociative, SMTT(30)
    <2>3. Append(s, Head(t)) \o u = s \o t
      BY <1>3, <1>4, <2>2 DEF u
    <2> QED BY <2>3 DEF u
  <1>6. ASSUME Len(t) = 1 PROVE Append(s, Head(t)) = s \o t
    <2>1. h = t
      BY <1>1, <1>2, <1>6, SeqEqual
    <2> QED BY <1>3, <2>1
  <1> QED BY <1>5, <1>6

\* A first part of a sequence.
LEMMA Prefix ==
  ASSUME NEW S, NEW s \in Seq(S), NEW m \in 0..Len(s)
  PROVE  /\ SubSeq(s, 1, m) \in Seq(S)
         /\ Len(SubSeq(s, 1, m)) = m
         /\ \A i \in 1..m : SubSeq(s, 1, m)[i] = s[i]
         /\ m = Len(s) => SubSeq(s, 1, m) = s
         /\ m = 0 => SubSeq(s, 1, m) = <<>>
  <1>1. 1 \in Int /\ m \in Nat /\ m \in Int /\ Len(s) \in Nat
    OBVIOUS
  <1>2. \A i \in 1..m : s[i] \in S
    BY <1>1, ElementOfSeq
  <1>3. /\ SubSeq(s, 1, m) \in Seq(S)
        /\ Len(SubSeq(s, 1, m)) = IF 1 <= m THEN m - 1 + 1 ELSE 0
        /\ \A i \in 1..(m - 1 + 1) : SubSeq(s, 1, m)[i] = s[1 + i - 1]
    BY <1>1, <1>2, SubSeqProperties
  <1>4. (IF 1 <= m THEN m - 1 + 1 ELSE 0) = m /\ m - 1 + 1 = m
    BY <1>1
  <1>5. \A i \in 1..m : 1 + i - 1 = i
    BY <1>1
  <1>6. /\ Len(SubSeq(s, 1, m)) = m
        /\ \A i \in 1..m : SubSeq(s, 1, m)[i] = s[i]
    BY <1>3, <1>4, <1>5
  <1> DEFINE t == SubSeq(s, 1, m)
  <1>7. t \in Seq(S) /\ Len(t) = m /\ \A i \in 1..m : t[i] = s[i]
    BY <1>3, <1>6
  <1> HIDE DEF t
  <1>8. m = Len(s) => t = s
    BY <1>7, SeqEqual
  <1>9. m = 0 => t = <<>>
    BY <1>7, EmptySeq
  <1> QED BY <1>7, <1>8, <1>9 DEF t

\* A sequence whose last p elements are the first p of another one.
EndsWithFirst(s, d, p) ==
  /\ p \in 0..Len(s) /\ p <= Len(d)
  /\ \A j \in 1..p : s[Len(s) - p + j] = d[j]

\* Such a sequence is what comes before them, and they.
LEMMA BeforeAndAfter ==
  ASSUME NEW S, NEW s \in Seq(S), NEW d \in Seq(S), NEW p, EndsWithFirst(s, d, p)
  PROVE  s = SubSeq(s, 1, Len(s) - p) \o SubSeq(d, 1, p)
  <1> DEFINE n == Len(s)
             a == SubSeq(s, 1, n - p)
             b == SubSeq(d, 1, p)
  <1>1. /\ n \in Nat /\ Len(d) \in Nat /\ p \in 0..n /\ p \in 0..Len(d) /\ n - p \in 0..n
        /\ \A j \in 1..p : s[n - p + j] = d[j]
    BY LenProperties DEF EndsWithFirst
  <1>2. /\ a \in Seq(S) /\ Len(a) = n - p /\ \A i \in 1..(n - p) : a[i] = s[i]
        /\ b \in Seq(S) /\ Len(b) = p /\ \A i \in 1..p : b[i] = d[i]
    BY <1>1, Prefix
  <1>3. n = Len(s)
    OBVIOUS
  <1> HIDE DEF n, a, b
  <1>4. /\ a \o b \in Seq(S) /\ Len(a \o b) = Len(a) + Len(b)
        /\ \A i \in 1..Len(a) + Len(b) :
             (a \o b)[i] = IF i <= Len(a) THEN a[i] ELSE b[i - Len(a)]
    BY <1>2, ConcatProperties
  <1>5. Len(a \o b) = n
    BY <1>1, <1>2, <1>4
  <1>6. ASSUME NEW i \in 1..n PROVE (a \o b)[i] = s[i]
    <2>1. CASE i <= n - p
      BY <1>1, <1>2, <1>4, <2>1
    <2>2. CASE ~(i <= n - p)
      <3>1. i - (n - p) \in 1..p /\ n - p + (i - (n - p)) = i
        BY <1>1, <2>2
      <3>2. b[i - (n - p)] = s[i]
        BY <1>1, <1>2, <3>1
      <3>3. i \in 1..Len(a) + Len(b)
        BY <1>1, <1>2
      <3> QED BY <1>2, <1>4, <2>2, <3>2, <3>3
    <2> QED BY <2>1, <2>2
  <1>7. a \o b = s
    BY <1>3, <1>4, <1>5, <1>6, SeqEqual
  <1> QED BY <1>7 DEF n, a, b

\* ... and goes on to end so with the next element of the other one.
LEMMA NextOfFirst ==
  ASSUME NEW S, NEW s \in Seq(S), NEW d \in Seq(S), NEW p, EndsWithFirst(s, d, p), p < Len(d)
  PROVE  /\ EndsWithFirst(Append(s, d[p + 1]), d, p + 1)
         /\ SubSeq(Append(s, d[p + 1]), 1, Len(Append(s, d[p + 1])) - (p + 1))
              = SubSeq(s, 1, Len(s) - p)
  <1> DEFINE n == Len(s)
             e == d[p + 1]
             t == Append(s, e)
  <1>1. /\ n \in Nat /\ Len(d) \in Nat /\ p \in 0..n /\ n - p \in 0..n
        /\ \A j \in 1..p : s[n - p + j] = d[j]
    BY LenProperties DEF EndsWithFirst
  <1>2. p + 1 \in 1..Len(d) /\ e \in S
    BY <1>1, ElementOfSeq
  <1>3. /\ t \in Seq(S) /\ Len(t) = n + 1
        /\ \A i \in 1..n : t[i] = s[i]
        /\ t[n + 1] = e
    BY <1>2, AppendProperties
  <1>4. e = d[p + 1] /\ n = Len(s)
    OBVIOUS
  <1> HIDE DEF n, e, t
  <1>5. ASSUME NEW j \in 1..(p + 1) PROVE t[n + 1 - (p + 1) + j] = d[j]
    <2>1. n + 1 - (p + 1) + j = n - p + j
      BY <1>1
    <2>2. CASE j = p + 1
      <3>1. n - p + j = n + 1
        BY <1>1, <2>2
      <3> QED BY <1>3, <1>4, <2>1, <2>2, <3>1
    <2>3. CASE j \in 1..p
      <3>1. n - p + j \in 1..n
        BY <1>1, <2>3
      <3> QED BY <1>1, <1>3, <2>1, <2>3, <3>1
    <2> QED BY <1>1, <2>2, <2>3
  <1>6. EndsWithFirst(t, d, p + 1)
    BY <1>1, <1>2, <1>3, <1>5 DEF EndsWithFirst
  <1>7. Len(t) - (p + 1) = n - p /\ n - p \in 0..Len(t)
    BY <1>1, <1>3
  <1> DEFINE u == SubSeq(t, 1, n - p)
             v == SubSeq(s, 1, n - p)
  <1>8. /\ u \in Seq(S) /\ Len(u) = n - p /\ \A i \in 1..(n - p) : u[i] = t[i]
        /\ v \in Seq(S) /\ Len(v) = n - p /\ \A i \in 1..(n - p) : v[i] = s[i]
    BY <1>1, <1>3, <1>4, <1>7, Prefix
  <1>9. \A i \in 1..(n - p) : t[i] = s[i]
    BY <1>1, <1>3
  <1> HIDE DEF u, v
  <1>10. u = v
    BY <1>8, <1>9, SeqEqual
  <1> QED BY <1>6, <1>7, <1>10 DEF n, e, t, u, v

\* The last element of a sequence that is one element longer, or shorter.
LEMMA LastOf ==
  ASSUME NEW S, NEW s \in Seq(S)
  PROVE  /\ \A e \in S : Last(Append(s, e)) = e
         /\ Len(s) > 1 => Last(Tail(s)) = Last(s)
         /\ Len(s) = 1 => Last(s) = Head(s)
  <1> DEFINE n == Len(s)
  <1>1. n \in Nat /\ n = Len(s)
    BY LenProperties
  <1>2. Last(s) = s[n]
    BY DEF Last
  <1> HIDE DEF n
  <1>3. ASSUME NEW e \in S PROVE Last(Append(s, e)) = e
    <2> DEFINE t == Append(s, e)
    <2>1. Len(t) = n + 1 /\ t[n + 1] = e
      BY <1>1, AppendProperties
    <2> HIDE DEF t
    <2>2. Last(t) = e
      BY <2>1 DEF Last
    <2> QED BY <2>2 DEF t
  <1>4. ASSUME n > 1 PROVE Last(Tail(s)) = Last(s)
    <2>1. s # <<>>
      BY <1>1, <1>4, EmptySeq
    <2>2. /\ Len(Tail(s)) = n - 1
          /\ \A i \in 1..Len(Tail(s)) : Tail(s)[i] = s[i + 1]
      BY <1>1, <2>1, HeadTailProperties
    <2>3. n - 1 \in 1..(n - 1) /\ (n - 1) + 1 = n
      BY <1>1, <1>4
    <2>4. Tail(s)[n - 1] = s[n]
      BY <2>2, <2>3
    <2> QED BY <1>2, <2>2, <2>4 DEF Last
  <1>5. ASSUME n = 1 PROVE Last(s) = Head(s)
    <2>1. s # <<>>
      <3>1. n # 0
        BY <1>5
      <3> QED BY <1>1, <3>1, EmptySeq
    <2> QED BY <1>2, <1>5, <2>1, HeadTailProperties
  <1> QED BY <1>1, <1>3, <1>4, <1>5

=============================================================================

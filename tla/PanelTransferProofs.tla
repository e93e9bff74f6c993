------------------------ MODULE PanelTransferProofs ------------------------
(* The safety properties of the LogFile treatment, for any marker, texts   *)
(* that do not hold it, packet and stream sizes, and contents of the       *)
(* uninitialised buffers.                                                  *)
EXTENDS PanelTransfer, SequenceTheorems, TLAPS

LEMMA Constants ==
  /\ Marker \in Strings /\ Texts \subseteq Strings /\ Memory \subseteq Strings
  /\ Len(Marker) \in Nat \ {0}
<1>1. ASSUME NEW s \in Texts \cup Memory \cup {Marker} PROVE s \in Strings
  <2>1. s \in Seq(Range(s)) BY PanelTransferAssumption
  <2>2. Range(s) \subseteq Chars BY DEF Chars
  <2> QED BY <2>1, <2>2, SeqMonotonic DEF Strings
<1>2. Marker \in Strings BY <1>1
<1>3. Len(Marker) \in Nat \ {0}
  BY <1>2, EmptySeq, PanelTransferAssumption DEF Strings
<1> QED BY <1>1, <1>3

(* A sequence cut in two is the two pieces.                                *)
LEMMA CutInTwo ==
  ASSUME NEW s \in Strings, NEW n \in 0..Len(s)
  PROVE  /\ SubSeq(s, 1, n) \in Strings /\ SubSeq(s, n + 1, Len(s)) \in Strings
         /\ Len(SubSeq(s, 1, n)) = n
         /\ SubSeq(s, 1, n) \o SubSeq(s, n + 1, Len(s)) = s
<1>1. Len(s) \in Nat /\ \A i \in 1..Len(s) : s[i] \in Chars
  BY LenProperties, ElementOfSeq DEF Strings
<1>2. SubSeq(s, 1, n) \in Strings /\ Len(SubSeq(s, 1, n)) = n
  BY <1>1, SubSeqProperties DEF Strings
<1>3. SubSeq(s, n + 1, Len(s)) \in Strings
  BY <1>1, SubSeqProperties DEF Strings
<1>4. SubSeq(s, 1, n) \o SubSeq(s, n + 1, Len(s)) = SubSeq(s, 1, Len(s))
  <2>1. s \in Seq(Chars) /\ 1 \in 1..(Len(s) + 1) /\ n \in (1 - 1)..Len(s) /\ Len(s) \in n..Len(s)
    BY <1>1 DEF Strings
  <2> HIDE DEF Strings
  <2> QED BY <2>1, ConcatAdjacentSubSeq
<1> QED BY <1>2, <1>3, <1>4, SubSeqFull DEF Strings

LEMMA Regroup ==
  ASSUME NEW a \in Strings, NEW b \in Strings, NEW c \in Strings
  PROVE  /\ (a \o b) \o c = a \o (b \o c)
         /\ Len((a \o b) \o c) = Len(a) + Len(b) + Len(c)
<1>1. a \o b \in Strings /\ Len(a \o b) = Len(a) + Len(b)
  BY ConcatProperties DEF Strings
<1>2. Len((a \o b) \o c) = Len(a \o b) + Len(c)
  BY <1>1, ConcatProperties DEF Strings
<1> QED BY <1>1, <1>2, ConcatAssociative DEF Strings

LEMMA Suffix ==
  ASSUME NEW s \in Strings, NEW t \in Strings
  PROVE  IsSuffix(s, t) <=>
           /\ Len(s) <= Len(t)
           /\ \A i \in 1..Len(s) : s[i] = t[Len(t) - Len(s) + i]
<1> DEFINE rs == Reverse(s)
           rt == Reverse(t)
<1>1. Len(s) \in Nat /\ Len(t) \in Nat BY LenProperties DEF Strings
<1>2. /\ rs \in Strings /\ Len(rs) = Len(s) /\ \A i \in 1..Len(s) : rs[i] = s[Len(s) - i + 1]
      /\ rt \in Strings /\ Len(rt) = Len(t) /\ \A i \in 1..Len(t) : rt[i] = t[Len(t) - i + 1]
  BY <1>1 DEF Reverse, Strings
<1>3. CASE Len(s) <= Len(t)
  <2>1. /\ SubSeq(rs, 1, Len(s)) = rs
        /\ SubSeq(rt, 1, Len(s)) \in Strings /\ Len(SubSeq(rt, 1, Len(s))) = Len(s)
        /\ \A i \in 1..Len(s) : SubSeq(rt, 1, Len(s))[i] = rt[i]
    BY <1>1, <1>2, <1>3 DEF Strings
  <2>2. IsSuffix(s, t) <=> rs = SubSeq(rt, 1, Len(s))
    BY <1>1, <1>2, <1>3, <2>1 DEF IsSuffix, IsPrefix
  <2>3. rs = SubSeq(rt, 1, Len(s)) <=> \A i \in 1..Len(s) : rs[i] = rt[i]
    BY <1>1, <1>2, <2>1, SeqEqual DEF Strings
  <2>4. (\A i \in 1..Len(s) : rs[i] = rt[i])
          <=> (\A i \in 1..Len(s) : s[i] = t[Len(t) - Len(s) + i])
    <3>1. ASSUME \A i \in 1..Len(s) : rs[i] = rt[i], NEW i \in 1..Len(s)
          PROVE  s[i] = t[Len(t) - Len(s) + i]
      <4> DEFINE j == Len(s) - i + 1
      <4>1. j \in 1..Len(s) /\ j \in 1..Len(t) BY <1>1, <1>3
      <4>2. rs[j] = s[Len(s) - j + 1] /\ rt[j] = t[Len(t) - j + 1] BY <1>2, <4>1
      <4>3. Len(s) - j + 1 = i /\ Len(t) - j + 1 = Len(t) - Len(s) + i BY <1>1
      <4> QED BY <3>1, <4>1, <4>2, <4>3
    <3>2. ASSUME \A i \in 1..Len(s) : s[i] = t[Len(t) - Len(s) + i], NEW i \in 1..Len(s)
          PROVE  rs[i] = rt[i]
      <4> DEFINE j == Len(s) - i + 1
      <4>1. j \in 1..Len(s) /\ i \in 1..Len(t) BY <1>1, <1>3
      <4>2. Len(t) - i + 1 = Len(t) - Len(s) + j BY <1>1
      <4> QED BY <1>2, <3>2, <4>1, <4>2
    <3> QED BY <3>1, <3>2
  <2> QED BY <1>3, <2>2, <2>3, <2>4
<1>4. CASE ~(Len(s) <= Len(t))
  BY <1>2, <1>4 DEF IsSuffix, IsPrefix
<1> QED BY <1>3, <1>4

(* Suffixes of a concatenation, of a suffix, and of the same sequence.     *)
LEMMA SuffixLaws ==
  ASSUME NEW s \in Strings, NEW t \in Strings, NEW u \in Strings
  PROVE  /\ IsSuffix(t, s \o t)
         /\ IsSuffix(s, t) => IsSuffix(s \o u, t \o u)
         /\ IsSuffix(s, t) /\ IsSuffix(t, u) => IsSuffix(s, u)
         /\ IsSuffix(s, u) /\ IsSuffix(t, u) /\ Len(s) <= Len(t) => IsSuffix(s, t)
<1>1. Len(s) \in Nat /\ Len(t) \in Nat /\ Len(u) \in Nat BY LenProperties DEF Strings
<1>2. /\ s \o t \in Strings /\ Len(s \o t) = Len(s) + Len(t)
      /\ \A i \in 1..(Len(s) + Len(t)) : (s \o t)[i] = IF i <= Len(s) THEN s[i] ELSE t[i - Len(s)]
      /\ s \o u \in Strings /\ Len(s \o u) = Len(s) + Len(u)
      /\ \A i \in 1..(Len(s) + Len(u)) : (s \o u)[i] = IF i <= Len(s) THEN s[i] ELSE u[i - Len(s)]
      /\ t \o u \in Strings /\ Len(t \o u) = Len(t) + Len(u)
      /\ \A i \in 1..(Len(t) + Len(u)) : (t \o u)[i] = IF i <= Len(t) THEN t[i] ELSE u[i - Len(t)]
  BY ConcatProperties DEF Strings
<1>3. IsSuffix(t, s \o t)
  <2>1. \A i \in 1..Len(t) : t[i] = (s \o t)[Len(s \o t) - Len(t) + i]
    BY <1>1, <1>2
  <2>2. Len(t) <= Len(s \o t) /\ s \o t \in Strings
    BY <1>1, <1>2
  <2> QED BY <2>1, <2>2, Suffix
<1>4. ASSUME IsSuffix(s, t) PROVE IsSuffix(s \o u, t \o u)
  <2>1. Len(s) <= Len(t) /\ \A i \in 1..Len(s) : s[i] = t[Len(t) - Len(s) + i]
    BY <1>4, Suffix
  <2>2. ASSUME NEW i \in 1..Len(s \o u) PROVE (s \o u)[i] = (t \o u)[Len(t \o u) - Len(s \o u) + i]
    <3>1. Len(t \o u) - Len(s \o u) + i = Len(t) - Len(s) + i BY <1>1, <1>2
    <3>2. CASE i <= Len(s)
      <4>1. (s \o u)[i] = s[i] /\ s[i] = t[Len(t) - Len(s) + i] BY <1>1, <1>2, <2>1, <3>2
      <4>2. Len(t) - Len(s) + i \in 1..Len(t) BY <1>1, <2>1, <3>2
      <4>3. (t \o u)[Len(t) - Len(s) + i] = t[Len(t) - Len(s) + i] BY <1>1, <1>2, <4>2
      <4> QED BY <3>1, <4>1, <4>3
    <3>3. CASE ~(i <= Len(s))
      <4> DEFINE j == Len(t) - Len(s) + i
      <4>1. (s \o u)[i] = u[i - Len(s)] BY <1>1, <1>2, <3>3
      <4>2. j \in 1..(Len(t) + Len(u)) /\ ~(j <= Len(t)) /\ j - Len(t) = i - Len(s)
        BY <1>1, <1>2, <2>1, <3>3
      <4>3. (t \o u)[j] = u[i - Len(s)]
        <5> HIDE DEF j
        <5> QED BY <1>2, <4>2
      <4> QED BY <3>1, <4>1, <4>3
    <3> QED BY <3>2, <3>3
  <2>3. Len(s \o u) <= Len(t \o u) BY <1>1, <1>2, <2>1
  <2> QED BY <1>2, <2>2, <2>3, Suffix
<1>5. ASSUME IsSuffix(s, t), IsSuffix(t, u) PROVE IsSuffix(s, u)
  <2>1. Len(s) <= Len(t) /\ \A i \in 1..Len(s) : s[i] = t[Len(t) - Len(s) + i]
    BY <1>5, Suffix
  <2>2. Len(t) <= Len(u) /\ \A i \in 1..Len(t) : t[i] = u[Len(u) - Len(t) + i]
    BY <1>5, Suffix
  <2>3. ASSUME NEW i \in 1..Len(s) PROVE s[i] = u[Len(u) - Len(s) + i]
    <3> DEFINE j == Len(t) - Len(s) + i
    <3>1. j \in 1..Len(t) /\ Len(u) - Len(t) + j = Len(u) - Len(s) + i BY <1>1, <2>1
    <3>2. s[i] = t[j] BY <2>1
    <3>3. t[j] = u[Len(u) - Len(t) + j] BY <2>2, <3>1
    <3> QED BY <3>1, <3>2, <3>3
  <2>4. Len(s) <= Len(u) BY <1>1, <2>1, <2>2
  <2> QED BY <2>3, <2>4, Suffix
<1>6. ASSUME IsSuffix(s, u), IsSuffix(t, u), Len(s) <= Len(t) PROVE IsSuffix(s, t)
  <2>1. Len(s) <= Len(u) /\ \A i \in 1..Len(s) : s[i] = u[Len(u) - Len(s) + i]
    BY <1>6, Suffix
  <2>2. Len(t) <= Len(u) /\ \A i \in 1..Len(t) : t[i] = u[Len(u) - Len(t) + i]
    BY <1>6, Suffix
  <2>3. ASSUME NEW i \in 1..Len(s) PROVE s[i] = t[Len(t) - Len(s) + i]
    <3> DEFINE j == Len(t) - Len(s) + i
    <3>1. j \in 1..Len(t) /\ Len(u) - Len(t) + j = Len(u) - Len(s) + i BY <1>1, <1>6
    <3>2. t[j] = u[Len(u) - Len(t) + j] BY <2>2, <3>1
    <3> QED BY <2>1, <3>1, <3>2
  <2> QED BY <1>6, <2>3, Suffix
<1> QED BY <1>3, <1>4, <1>5, <1>6

LEMMA SuffixOfSame ==
  ASSUME NEW s \in Strings, NEW t \in Strings, NEW u \in Strings,
         IsSuffix(s, u), IsSuffix(t, u), Len(s) <= Len(t)
  PROVE  IsSuffix(s, t)
BY SuffixLaws

(* One sequence cut in two ways: what is before the shorter end.           *)
(* (Join is \o; the provers take an equation of sequences apart, and then  *)
(* do not recognise this lemma where it is used.)                          *)
Join(a, b) == a \o b

LEMMA TwoCuts ==
  ASSUME NEW r \in Strings, NEW p \in Strings, NEW t \in Strings, NEW m \in Strings,
         Join(r, p) = Join(t, m), Len(p) <= Len(m)
  PROVE  r = Join(t, Cut(m, Len(p)))
<1>0. r \o p = t \o m BY DEF Join
<1>1. Len(r) \in Nat /\ Len(p) \in Nat /\ Len(t) \in Nat /\ Len(m) \in Nat
  BY LenProperties DEF Strings
<1>2. /\ Len(r \o p) = Len(r) + Len(p) /\ Len(t \o m) = Len(t) + Len(m)
      /\ \A i \in 1..(Len(r) + Len(p)) : (r \o p)[i] = IF i <= Len(r) THEN r[i] ELSE p[i - Len(r)]
      /\ \A i \in 1..(Len(t) + Len(m)) : (t \o m)[i] = IF i <= Len(t) THEN t[i] ELSE m[i - Len(t)]
  BY <1>0, ConcatProperties DEF Strings
<1>3. PICK k \in Nat : k = Len(m) - Len(p) /\ Len(r) = Len(t) + k
  <2>1. Len(m) - Len(p) \in Nat /\ Len(r) = Len(t) + (Len(m) - Len(p)) BY <1>0, <1>1, <1>2
  <2> QED BY <2>1
<1> DEFINE h == SubSeq(m, 1, k)
<1>4. h \in Strings /\ Len(h) = k
  <2>1. k \in 0..Len(m) BY <1>1, <1>3
  <2> QED BY <2>1, CutInTwo
<1>5. \A i \in 1..k : h[i] = m[i] BY <1>1, <1>3
<1> HIDE DEF h
<1>6. /\ t \o h \in Strings /\ Len(t \o h) = Len(t) + k
      /\ \A i \in 1..(Len(t) + k) : (t \o h)[i] = IF i <= Len(t) THEN t[i] ELSE h[i - Len(t)]
  BY <1>4, ConcatProperties DEF Strings
<1>7. ASSUME NEW i \in 1..Len(r) PROVE r[i] = (t \o h)[i]
  <2>1. r[i] = (t \o m)[i] BY <1>0, <1>1, <1>2
  <2>2. CASE i <= Len(t) BY <1>1, <1>2, <1>3, <1>6, <2>1, <2>2
  <2>3. CASE ~(i <= Len(t))
    <3>1. i - Len(t) \in 1..k BY <1>1, <1>3, <2>3
    <3>2. (t \o m)[i] = m[i - Len(t)] BY <1>1, <1>2, <1>3, <2>3
    <3>3. (t \o h)[i] = h[i - Len(t)] BY <1>1, <1>3, <1>6, <2>3
    <3> QED BY <1>5, <2>1, <3>1, <3>2, <3>3
  <2> QED BY <2>2, <2>3
<1>8. r = t \o h BY <1>1, <1>3, <1>6, <1>7, SeqEqual DEF Strings
<1> QED BY <1>3, <1>8 DEF h, Cut, Join

(* What has arrived ends in a marker only if all has arrived.              *)
LEMMA MarkerIsTheEnd ==
  ASSUME NEW t \in Texts, NEW r \in Strings, NEW l \in Strings,
         r \o l = t \o Marker, IsSuffix(Marker, r)
  PROVE  l = <<>> /\ r = t \o Marker
<1> DEFINE k == Len(r) - Len(Marker) + 1
           tm == t \o Marker
<1>1. t \in Strings /\ Marker \in Strings /\ Len(Marker) \in Nat \ {0} BY Constants
<1>2. /\ Len(t) \in Nat /\ Len(r) \in Nat /\ Len(l) \in Nat
      /\ tm \in Strings /\ Len(tm) = Len(t) + Len(Marker) /\ Len(tm) = Len(r) + Len(l)
      /\ \A i \in 1..Len(r) : tm[i] = r[i]
  BY <1>1, LenProperties, ConcatProperties DEF Strings
<1>3. Len(Marker) <= Len(r) /\ \A i \in 1..Len(Marker) : Marker[i] = r[Len(r) - Len(Marker) + i]
  BY <1>1, Suffix
<1>4. k \in 1..(Len(tm) - Len(Marker) + 1)
  BY <1>1, <1>2, <1>3
<1>5. SubSeq(tm, k, k + Len(Marker) - 1) = Marker
  <2> DEFINE s == SubSeq(tm, k, k + Len(Marker) - 1)
  <2>1. \A i \in k..(k + Len(Marker) - 1) : tm[i] \in Chars
    BY <1>1, <1>2, <1>4, ElementOfSeq DEF Strings
  <2> DEFINE n == k + Len(Marker) - 1
  <2>2. /\ s \in Strings /\ Len(s) = Len(Marker)
        /\ \A i \in 1..Len(Marker) : s[i] = tm[k + i - 1]
    <3>1. tm \in Seq(Chars) /\ k \in 1..(Len(tm) + 1) /\ n \in 0..Len(tm) /\ k \in Int /\ n \in Int
      BY <1>1, <1>2, <1>4 DEF Strings
    <3>2. n - k + 1 = Len(Marker) /\ k <= n
      BY <1>1, <1>2, <1>4
    <3>3. SubSeq(tm, k, n) = s
      OBVIOUS
    <3> HIDE DEF tm, k, n, s
    <3>4. \A i \in k..n : tm[i] \in Chars
      BY <2>1 DEF n
    <3>5. /\ SubSeq(tm, k, n) \in Seq(Chars)
          /\ Len(SubSeq(tm, k, n)) = IF k <= n THEN n - k + 1 ELSE 0
          /\ \A i \in 1..(n - k + 1) : SubSeq(tm, k, n)[i] = tm[k + i - 1]
      BY <3>1, <3>4, SubSeqProperties
    <3> QED BY <3>2, <3>3, <3>5 DEF Strings
  <2>3. \A i \in 1..Len(Marker) : s[i] = Marker[i]
    <3> TAKE i \in 1..Len(Marker)
    <3>1. k + i - 1 = Len(r) - Len(Marker) + i /\ k + i - 1 \in 1..Len(r)
      BY <1>1, <1>2, <1>3
    <3> QED BY <1>2, <1>3, <2>2, <3>1
  <2> QED BY <1>1, <2>2, <2>3, SeqEqual DEF Strings
<1>6. k > Len(t)
  <2>1. \A i \in 1..Len(t) : SubSeq(tm, i, i + Len(Marker) - 1) # Marker
    BY PanelTransferAssumption
  <2>2. k \notin 1..Len(t)
    <3> HIDE DEF k, tm
    <3> QED BY <2>1, <1>5
  <2> QED BY <1>2, <1>4, <2>2
<1>7. Len(l) = 0
  BY <1>1, <1>2, <1>6
<1>8. l = <<>>
  BY <1>7, EmptySeq DEF Strings
<1> QED BY <1>8, ConcatEmptySeq DEF Strings

(* The invariant: what has arrived is in the file or its ofstream, and     *)
(* ends in the last packet, which is all of it if it is the first.         *)
Arrived == disk \o stream
Untouched == left = text \o Marker

ArrivedInv ==
  pc = "text" =>
    /\ text \in Texts
    /\ Arrived \o left = text \o Marker
    /\ Untouched => Arrived = <<>>
    /\ ~Untouched => /\ lastMsg # <<>> /\ Len(lastMsg) <= MaxPacket
                     /\ IsSuffix(lastMsg, Arrived)
                     /\ before = 0 => lastMsg = Arrived

IInv == TypeOK /\ ArrivedInv /\ AcknowledgedIsComplete /\ EndIsSeen

LEMMA InitInv == Init => IInv
<1> SUFFICES ASSUME Init PROVE IInv OBVIOUS
<1>1. <<>> \in Strings /\ Len(<<>>) = 0 BY EmptySeq DEF Strings
<1>2. MaxPacket \in Nat /\ MaxFiles \in Nat /\ MaxSessions \in Nat /\ 0 < StreamBuffer
  BY PanelTransferAssumption
<1>3. TypeOK
  <2>1. lastMsg \in Strings /\ text \in Strings /\ left \in Strings
    BY <1>1 DEF Init
  <2>2. disk \in Strings /\ stream \in Strings /\ Len(stream) < StreamBuffer
    BY <1>1, <1>2 DEF Init
  <2>3. before \in 0..MaxPacket /\ files \in 0..MaxFiles /\ sessions \in 0..MaxSessions
    BY <1>2 DEF Init
  <2> QED BY <2>1, <2>2, <2>3 DEF Init, TypeOK
<1>4. ArrivedInv /\ AcknowledgedIsComplete /\ EndIsSeen
  BY DEF Init, ArrivedInv, AcknowledgedIsComplete, EndIsSeen
<1> QED BY <1>3, <1>4 DEF IInv

(* Write keeps what is written, in order.                                  *)
LEMMA Written ==
  ASSUME TypeOK, NEW s \in Strings, Write(s)
  PROVE  /\ disk' \in Strings /\ stream' \in Strings /\ Len(stream') < StreamBuffer
         /\ Arrived' = Arrived \o s
<1>1. disk \in Strings /\ stream \in Strings /\ <<>> \in Strings /\ Len(<<>>) = 0
  BY EmptySeq DEF TypeOK, Strings
<1>2. disk \o stream \in Strings /\ stream \o s \in Strings /\ (disk \o stream) \o s \in Strings
  BY <1>1, ConcatProperties DEF Strings
<1>3. CASE Len(stream) + Len(s) < StreamBuffer
  <2>1. stream' = stream \o s /\ disk' = disk BY <1>3 DEF Write
  <2>2. Len(stream \o s) = Len(stream) + Len(s) BY <1>1, ConcatProperties DEF Strings
  <2>3. disk \o (stream \o s) = (disk \o stream) \o s
    <3>1. disk \in Seq(Chars) /\ stream \in Seq(Chars) /\ s \in Seq(Chars)
      BY <1>1 DEF Strings
    <3> QED BY <3>1, ConcatAssociative
  <2> QED BY <1>1, <1>2, <1>3, <2>1, <2>2, <2>3 DEF Arrived
<1>4. CASE ~(Len(stream) + Len(s) < StreamBuffer)
  <2>1. stream' = <<>> /\ disk' = (disk \o stream) \o s BY <1>4 DEF Write
  <2>2. ((disk \o stream) \o s) \o <<>> = (disk \o stream) \o s
    BY <1>2, ConcatEmptySeq DEF Strings
  <2>3. disk' \in Strings /\ stream' \in Strings
    BY <1>1, <1>2, <2>1
  <2>4. Len(stream') < StreamBuffer
    BY <1>1, <2>1, PanelTransferAssumption
  <2>5. Arrived' = Arrived \o s
    BY <2>1, <2>2 DEF Arrived
  <2> QED BY <2>3, <2>4, <2>5
<1> QED BY <1>3, <1>4

(* Rewriting what is on the disk over itself changes nothing.              *)
LEMMA RewritingKeeps ==
  ASSUME TypeOK, NEW k \in Nat \ {0}, Rewrite(k)
  PROVE  /\ disk' \in Strings /\ stream' \in Strings /\ Len(stream') < StreamBuffer
         /\ pc' = "ack" => Arrived' = Arrived
         /\ pc' \in {"ack", "undefined"}
<1>1. disk \in Strings /\ stream \in Strings /\ <<>> \in Strings /\ Len(<<>>) = 0
  BY EmptySeq DEF TypeOK, Strings
<1>2. disk \o stream \in Strings
  BY <1>1, ConcatProperties DEF Strings
<1>3. CASE Len(disk) < k
  BY <1>1, <1>3 DEF Rewrite, TypeOK
<1>4. CASE ~(Len(disk) < k)
  <2> DEFINE whole == disk \o stream
             new == Cut(disk, k)
  <2>1. /\ Len(disk) \in Nat /\ Len(whole) \in Nat /\ DOMAIN whole = 1..Len(whole)
        /\ Len(whole) >= Len(disk)
        /\ \A i \in 1..Len(disk) : whole[i] = disk[i]
        /\ whole \in [1..Len(whole) -> Chars]
    <3>1. disk \in Seq(Chars) /\ stream \in Seq(Chars) /\ whole \in Seq(Chars)
      BY <1>1, <1>2 DEF Strings
    <3>2. Len(disk) \in Nat /\ Len(stream) \in Nat
      BY <3>1, LenProperties
    <3>3. Len(whole) \in Nat /\ DOMAIN whole = 1..Len(whole) /\ whole \in [1..Len(whole) -> Chars]
      <4> HIDE DEF whole
      <4> QED BY <3>1, LenProperties
    <3>4. Len(whole) >= Len(disk) /\ \A i \in 1..Len(disk) : whole[i] = disk[i]
      BY <3>1, <3>2, ConcatProperties
    <3> QED BY <3>2, <3>3, <3>4
  <2>2. Len(new) = Len(disk) - k /\ \A i \in 1..Len(new) : new[i] = disk[i]
    <3>1. \A i \in 1..(Len(disk) - k) : disk[i] \in Chars
      BY <1>1, <2>1, ElementOfSeq DEF Strings
    <3>2. Len(disk) - k \in Nat BY <1>4, <2>1
    <3> QED BY <2>1, <3>1, <3>2, SubSeqProperties DEF Cut
  <2>3. \A i \in DOMAIN whole : (IF i <= Len(new) THEN new[i] ELSE whole[i]) = whole[i]
    BY <1>4, <2>1, <2>2
  <2>4. Overwritten(whole, new) = [i \in DOMAIN whole |-> whole[i]]
    BY <2>3 DEF Overwritten
  <2>5. Overwritten(whole, new) = whole
    BY <2>1, <2>4
  <2>6. pc' = "ack" /\ stream' = <<>> /\ disk' = whole
    BY <1>4, <2>5 DEF Rewrite
  <2>7. whole \o <<>> = whole
    BY <1>2, ConcatEmptySeq DEF Strings
  <2>8. disk' \in Strings /\ stream' \in Strings
    BY <1>1, <1>2, <2>6
  <2>9. Len(stream') < StreamBuffer
    BY <1>1, <2>6, PanelTransferAssumption
  <2>10. Arrived' = Arrived
    BY <2>6, <2>7 DEF Arrived
  <2> QED BY <2>6, <2>8, <2>9, <2>10
<1> QED BY <1>3, <1>4

(* What a packet adds to what has arrived, and what a match means.         *)
LEMMA Packet ==
  ASSUME IInv, pc = "text", NEW n \in Nat \ {0},
         NEW p \in Strings, NEW rest \in Strings, Len(p) = n, p \o rest = left
  PROVE  /\ p # <<>>
         /\ text \in Texts /\ Arrived \in Strings /\ lastMsg \in Strings
         /\ (Arrived \o p) \o rest = text \o Marker
         /\ rest # text \o Marker
         /\ Seen(p) /\ (n >= Len(Marker) \/ ~Untouched) =>
              rest = <<>> /\ Arrived \o p = text \o Marker
         /\ ~Seen(p) /\ rest = <<>> =>
              ~Untouched /\ Len(lastMsg) + n < Len(Marker)
<1>1. /\ left \in Strings /\ lastMsg \in Strings /\ text \in Strings /\ disk \in Strings
      /\ stream \in Strings /\ text \in Texts /\ Arrived \o left = text \o Marker
      /\ Untouched => Arrived = <<>>
      /\ ~Untouched => IsSuffix(lastMsg, Arrived)
  BY DEF IInv, TypeOK, ArrivedInv
<1>2. Len(p) \in Nat \ {0} /\ Len(rest) \in Nat
  BY LenProperties DEF Strings
<1>3. p \in Strings /\ rest \in Strings /\ Len(p) = n
  OBVIOUS
<1>4. p # <<>>
  BY <1>2, <1>3, EmptySeq DEF Strings
<1>5. Arrived \in Strings
  BY <1>1, ConcatProperties DEF Arrived, Strings
<1>6. (Arrived \o p) \o rest = text \o Marker
  <2>1. (Arrived \o p) \o rest = Arrived \o (p \o rest)
    BY <1>3, <1>5, Regroup
  <2> QED BY <1>1, <2>1
<1>7. /\ Arrived \o p \in Strings /\ lastMsg \o p \in Strings
      /\ Len(lastMsg) \in Nat /\ Len(Marker) \in Nat \ {0} /\ Marker \in Strings
      /\ Len(lastMsg \o p) = Len(lastMsg) + n
  <2>1. Arrived \o p \in Strings
    BY <1>3, <1>5, ConcatProperties DEF Strings
  <2>2. lastMsg \o p \in Strings /\ Len(lastMsg \o p) = Len(lastMsg) + Len(p)
    BY <1>1, <1>3, ConcatProperties DEF Strings
  <2> QED BY <1>1, <1>3, <2>1, <2>2, Constants, LenProperties DEF Strings
<1>8. rest # text \o Marker
  <2>1. Len((Arrived \o p) \o rest) = Len(Arrived) + n + Len(rest)
    <3>1. Len((Arrived \o p) \o rest) = Len(Arrived) + Len(p) + Len(rest)
      BY <1>3, <1>5, Regroup
    <3> QED BY <1>3, <3>1
  <2>2. Len(Arrived) \in Nat /\ Len(rest) \in Nat
    BY <1>3, <1>5, LenProperties DEF Strings
  <2>3. Len(text \o Marker) = Len(Arrived) + n + Len(rest)
    BY <1>6, <2>1
  <2> SUFFICES ASSUME rest = text \o Marker PROVE FALSE OBVIOUS
  <2>4. Len(rest) = Len(Arrived) + n + Len(rest)
    BY <2>3
  <2> QED BY <1>2, <2>2, <2>4
<1>9. ~Untouched => IsSuffix(lastMsg \o p, Arrived \o p)
  BY <1>1, <1>3, <1>5, SuffixLaws
<1>10. IsSuffix(p, lastMsg \o p) /\ IsSuffix(p, Arrived \o p)
  BY <1>1, <1>3, <1>5, SuffixLaws
<1>11. ASSUME Seen(p), n >= Len(Marker) \/ ~Untouched
       PROVE  rest = <<>> /\ Arrived \o p = text \o Marker
  <2>1. IsSuffix(Marker, lastMsg \o p) BY <1>11 DEF Seen
  <2>2. CASE n >= Len(Marker)
    <3>1. IsSuffix(Marker, p)
      <4>1. Len(Marker) <= Len(p) BY <1>3, <2>2
      <4> QED BY <1>3, <1>7, <1>10, <2>1, <4>1, SuffixOfSame
    <3>2. IsSuffix(Marker, Arrived \o p) BY <1>3, <1>7, <1>10, <3>1, SuffixLaws
    <3> QED BY <1>1, <1>3, <1>6, <1>7, <3>2, MarkerIsTheEnd
  <2>3. CASE ~Untouched
    <3>1. IsSuffix(Marker, Arrived \o p) BY <1>7, <1>9, <2>1, <2>3, SuffixLaws
    <3> QED BY <1>1, <1>3, <1>6, <1>7, <3>1, MarkerIsTheEnd
  <2> QED BY <1>11, <2>2, <2>3
<1>12. ASSUME ~Seen(p), rest = <<>>
       PROVE  ~Untouched /\ Len(lastMsg) + n < Len(Marker)
  <2>1. Arrived \o p = text \o Marker
    BY <1>6, <1>7, <1>12, ConcatEmptySeq DEF Strings
  <2>2. IsSuffix(Marker, Arrived \o p)
    BY <1>1, <1>7, <2>1, SuffixLaws
  <2>3. ~Untouched
    <3> SUFFICES ASSUME Untouched PROVE FALSE OBVIOUS
    <3>1. Arrived \o p = p BY <1>1, <1>3, ConcatEmptySeq DEF Strings
    <3>2. IsSuffix(Marker, lastMsg \o p)
      BY <1>3, <1>7, <1>10, <2>2, <3>1, SuffixLaws
    <3> QED BY <1>12, <3>2 DEF Seen
  <2>4. Len(lastMsg) + n < Len(Marker)
    <3> SUFFICES ASSUME Len(Marker) <= Len(lastMsg \o p) PROVE FALSE BY <1>2, <1>7
    <3>1. IsSuffix(Marker, lastMsg \o p)
      BY <1>7, <1>9, <2>2, <2>3, SuffixOfSame
    <3> QED BY <1>12, <3>1 DEF Seen
  <2> QED BY <2>3, <2>4
<1> QED BY <1>1, <1>3, <1>4, <1>5, <1>6, <1>8, <1>11, <1>12

LEMMA PacketKeeps ==
  ASSUME IInv, NEW n \in 1..MaxPacket, ReceivePacket(n)
  PROVE  IInv'
<1> DEFINE p == SubSeq(left, 1, n)
           rest == SubSeq(left, n + 1, Len(left))
<1>1. /\ pc = "text" /\ n <= Len(left)
      /\ left' = rest /\ lastMsg' = p /\ match' = Seen(p)
      /\ before' = IF Untouched THEN 0 ELSE Len(lastMsg)
      /\ text' = text /\ files' = files /\ sessions' = sessions
  BY DEF ReceivePacket, Untouched
<1>2. /\ p \in Strings /\ rest \in Strings /\ Len(p) = n /\ p # <<>>
      /\ text \in Texts /\ Arrived \in Strings /\ lastMsg \in Strings
      /\ (Arrived \o p) \o rest = text \o Marker
      /\ rest # text \o Marker
      /\ Seen(p) /\ (n >= Len(Marker) \/ ~Untouched) =>
           rest = <<>> /\ Arrived \o p = text \o Marker
      /\ ~Seen(p) /\ rest = <<>> =>
           ~Untouched /\ Len(lastMsg) + n < Len(Marker)
  <2>1. left \in Strings /\ n \in Nat \ {0} /\ IInv
    BY PanelTransferAssumption DEF IInv, TypeOK
  <2>2. Len(left) \in Nat BY <2>1, LenProperties DEF Strings
  <2>3. n \in 0..Len(left) BY <1>1, <2>1, <2>2
  <2>4. p \in Strings /\ rest \in Strings /\ Len(p) = n /\ p \o rest = left
    BY <2>1, <2>3, CutInTwo
  <2>5. lastMsg \in Strings BY DEF IInv, TypeOK
  <2> HIDE DEF p, rest
  <2> QED BY <1>1, <2>1, <2>4, <2>5, Packet
<1> HIDE DEF p, rest
<1>3. TypeOK /\ ArrivedInv BY DEF IInv
<1>4. Marker \in Strings /\ Len(Marker) \in Nat \ {0} /\ n \in Nat \ {0} /\ MaxPacket \in Nat
  BY Constants, PanelTransferAssumption
<1>5. Len(lastMsg) \in Nat BY <1>2, LenProperties DEF Strings
<1>6. ~Untouched => lastMsg # <<>> /\ Len(lastMsg) > 0 /\ before' > 0
  <2>1. ~Untouched => lastMsg # <<>> BY <1>1, <1>3 DEF ArrivedInv
  <2>2. lastMsg # <<>> => Len(lastMsg) > 0 BY <1>2, EmptySeq DEF Strings
  <2> QED BY <1>1, <2>1, <2>2
<1>7. Untouched => before' = 0 /\ Arrived = <<>>
  BY <1>1, <1>3 DEF ArrivedInv
<1>8. /\ pc' \in {"idle", "name", "text", "ack", "undefined"}
      /\ disk' \in Strings /\ stream' \in Strings /\ Len(stream') < StreamBuffer
      /\ pc' = "text" => ~Seen(p) /\ Arrived' = Arrived \o p
      /\ pc' = "ack" =>
           /\ rest = <<>>
           /\ \E k \in 0..(Len(Marker) - 1) : Arrived' = text \o SubSeq(Marker, 1, k)
  <2>1. CASE ~Seen(p) /\ Write(p) /\ pc' = "text"
    BY <1>2, <1>3, <2>1, Written
  <2>2. CASE Seen(p) /\ n >= Len(Marker) /\ Write(WithoutMarker(p)) /\ pc' = "ack"
    <3> DEFINE q == Cut(p, Len(Marker))
    <3>1. Write(q) BY <2>2 DEF WithoutMarker
    <3>2. q \in Strings
      <4>1. n - Len(Marker) \in 0..Len(p) BY <1>2, <1>4, <2>2
      <4> QED BY <1>2, <4>1, CutInTwo DEF Cut
    <3>3. /\ disk' \in Strings /\ stream' \in Strings /\ Len(stream') < StreamBuffer
          /\ Arrived' = Arrived \o q
      <4> HIDE DEF q
      <4> QED BY <1>3, <3>1, <3>2, Written
    <3>4. rest = <<>> /\ Arrived \o p = text \o Marker
      BY <1>2, <2>2
    <3>5. text \in Strings BY <1>2, Constants
    <3>6. Arrived \o q = text
      <4>1. Len(p) >= Len(Marker) BY <1>2, <2>2
      <4>2. Arrived \in Strings /\ p \in Strings BY <1>2
      <4>3. Join(text, Marker) = Join(Arrived, p) BY <3>4 DEF Join
      <4>4. text = Join(Arrived, q) BY <1>4, <3>5, <4>1, <4>2, <4>3, TwoCuts
      <4> QED BY <4>4 DEF Join
    <3>7. SubSeq(Marker, 1, 0) = <<>> /\ text \o <<>> = text /\ 0 \in 0..(Len(Marker) - 1)
      BY <1>4, <3>5, SubSeqEmpty, ConcatEmptySeq DEF Strings
    <3>8. Arrived' = text \o SubSeq(Marker, 1, 0)
      BY <3>3, <3>6, <3>7
    <3> QED BY <2>2, <3>3, <3>4, <3>7, <3>8
  <2>3. CASE Seen(p) /\ n < Len(Marker) /\ Rewrite(Len(Marker) - n)
    <3>1. PICK k \in 0..(Len(Marker) - 1) : k = Len(Marker) - n /\ k \in Nat \ {0}
      <4>1. Len(Marker) - n \in 0..(Len(Marker) - 1) /\ Len(Marker) - n \in Nat \ {0}
        BY <1>4, <2>3
      <4> QED BY <4>1
    <3>2. /\ disk' \in Strings /\ stream' \in Strings /\ Len(stream') < StreamBuffer
          /\ pc' = "ack" => Arrived' = Arrived
          /\ pc' \in {"ack", "undefined"}
      BY <1>3, <2>3, <3>1, RewritingKeeps
    <3>3. ASSUME pc' = "ack"
          PROVE  rest = <<>> /\ Arrived' = text \o SubSeq(Marker, 1, k)
      <4>1. ~Untouched
        <5>1. disk # <<>>
          BY <2>3, <3>1, <3>3, EmptySeq DEF Rewrite
        <5>2. disk \in Strings /\ stream \in Strings
          BY <1>3 DEF TypeOK
        <5>3. disk \o stream # <<>>
          BY <5>1, <5>2, ConcatProperties, EmptySeq, LenProperties DEF Strings
        <5> QED BY <1>7, <5>3 DEF Arrived
      <4>2. rest = <<>> /\ Arrived \o p = text \o Marker BY <1>2, <2>3, <4>1
      <4>3. text \in Strings BY <1>2, Constants
      <4>4. Len(p) + k = Len(Marker) /\ k \in Nat BY <1>2, <1>4, <3>1
      <4>5. Arrived \in Strings /\ p \in Strings /\ Marker \in Strings BY <1>2, <1>4
      <4>6. Arrived = text \o SubSeq(Marker, 1, k)
        <5>1. Len(p) <= Len(Marker) BY <1>2, <1>4, <2>3
        <5>2. Arrived = Join(text, Cut(Marker, Len(p)))
          <6>1. Join(Arrived, p) = Join(text, Marker) BY <4>2 DEF Join
          <6> QED BY <4>3, <4>5, <5>1, <6>1, TwoCuts
        <5>3. Cut(Marker, Len(p)) = SubSeq(Marker, 1, k) BY <1>2, <3>1 DEF Cut
        <5> QED BY <5>2, <5>3 DEF Join
      <4> QED BY <3>2, <3>3, <4>2, <4>6
    <3> QED BY <3>1, <3>2, <3>3
  <2> QED BY <2>1, <2>2, <2>3 DEF ReceivePacket, p
<1>9. TypeOK'
  <2>1. before' \in 0..MaxPacket
    <3>1. Len(lastMsg) <= MaxPacket \/ Untouched
      BY <1>1, <1>3 DEF ArrivedInv
    <3> QED BY <1>1, <1>4, <1>5, <3>1
  <2>2. match' \in BOOLEAN BY <1>1 DEF Seen, IsSuffix, IsPrefix
  <2>3. left' \in Strings /\ lastMsg' \in Strings BY <1>1, <1>2
  <2> QED BY <1>1, <1>3, <1>8, <2>1, <2>2, <2>3 DEF TypeOK
<1>10. ArrivedInv'
  <2> SUFFICES ASSUME pc' = "text" PROVE ArrivedInv' BY DEF ArrivedInv
  <2>1. Arrived' = Arrived \o p BY <1>8
  <2>2. (Arrived \o p) \o left' = text' \o Marker /\ left' # text' \o Marker
    BY <1>1, <1>2
  <2>3. IsSuffix(p, Arrived \o p) BY <1>2, SuffixLaws
  <2>4. before' = 0 => p = Arrived \o p
    <3>1. <<>> \o p = p BY <1>2, ConcatEmptySeq DEF Strings
    <3>2. before' = 0 => Untouched BY <1>1, <1>5, <1>6
    <3> QED BY <1>7, <3>1, <3>2
  <2>5. p # <<>> /\ Len(p) <= MaxPacket /\ text' \in Texts
    BY <1>1, <1>2, <1>4
  <2>6. lastMsg' = p BY <1>1
  <2> QED BY <2>1, <2>2, <2>3, <2>4, <2>5, <2>6 DEF ArrivedInv, Untouched
<1>11. AcknowledgedIsComplete'
  BY <1>1, <1>8 DEF AcknowledgedIsComplete, Arrived
<1>12. EndIsSeen'
  BY <1>1, <1>2, <1>6, <1>8 DEF EndIsSeen
<1> QED BY <1>9, <1>10, <1>11, <1>12 DEF IInv

(* A treatment, a name and the ends of a treatment leave no file in hand;  *)
(* a name starts one that is untouched.                                    *)
LEMMA StepInv == IInv /\ [Next]_vars => IInv'
<1> SUFFICES ASSUME IInv, [Next]_vars PROVE IInv' OBVIOUS
<1>1. /\ TypeOK /\ disk \o stream \in Strings /\ <<>> \in Strings /\ Len(<<>>) < StreamBuffer
      /\ MaxFiles \in Nat /\ MaxSessions \in Nat /\ MaxPacket \in Nat
  BY EmptySeq, ConcatProperties, PanelTransferAssumption DEF IInv, TypeOK, Strings
<1>2. CASE Begin
  <2>1. TypeOK'
    <3>1. lastMsg' \in Strings BY <1>1, <1>2, Constants DEF Begin, TypeOK
    <3> QED BY <1>1, <1>2, <3>1 DEF Begin, TypeOK
  <2>2. pc' = "name" BY <1>2 DEF Begin
  <2> QED BY <2>1, <2>2 DEF IInv, ArrivedInv, AcknowledgedIsComplete, EndIsSeen
<1>3. CASE ReceiveEnd
  <2>1. TypeOK' BY <1>1, <1>3 DEF ReceiveEnd, TypeOK
  <2>2. pc' = "idle" BY <1>3 DEF ReceiveEnd
  <2> QED BY <2>1, <2>2 DEF IInv, ArrivedInv, AcknowledgedIsComplete, EndIsSeen
<1>4. CASE Fail \/ Acknowledge
  <2>1. TypeOK' BY <1>1, <1>4 DEF Fail, Acknowledge, TypeOK
  <2>2. pc' \in {"idle", "name"} BY <1>4 DEF Fail, Acknowledge
  <2> QED BY <2>1, <2>2 DEF IInv, ArrivedInv, AcknowledgedIsComplete, EndIsSeen
<1>5. ASSUME NEW long \in BOOLEAN, NEW t \in Texts, ReceiveName(long, t) PROVE IInv'
  <2>1. t \in Strings /\ t \o Marker \in Strings /\ <<>> \o (t \o Marker) = t \o Marker
        /\ Len(t \o Marker) = Len(t) + Len(Marker) /\ Len(t) \in Nat /\ Len(Marker) \in Nat \ {0}
        /\ <<>> \o <<>> = <<>>
    BY Constants, ConcatProperties, ConcatEmptySeq, LenProperties, EmptySeq DEF Strings
  <2>2. t \o Marker # <<>> BY <1>1, <2>1, EmptySeq
  <2>3. CASE ~long /\ match
    <3>1. pc' = "idle" /\ TypeOK' BY <1>1, <1>5, <2>3 DEF ReceiveName, TypeOK
    <3> QED BY <3>1 DEF IInv, ArrivedInv, AcknowledgedIsComplete, EndIsSeen
  <2>4. CASE ~(~long /\ match)
    <3>1. /\ pc' = "text" /\ match' = FALSE /\ text' = t /\ left' = t \o Marker
          /\ disk' = <<>> /\ stream' = <<>> /\ before' = 0
      BY <1>5, <2>4 DEF ReceiveName
    <3>2. TypeOK'
      <4>1. lastMsg' = lastMsg /\ sessions' = sessions /\ files' \in 0..MaxFiles
        BY <1>1, <1>5 DEF ReceiveName, TypeOK
      <4>2. 0 \in 0..MaxPacket BY <1>1
      <4>3. Len(stream') < StreamBuffer BY <1>1, <3>1
      <4>4. /\ text' \in Strings /\ left' \in Strings /\ disk' \in Strings /\ stream' \in Strings
            /\ match' \in BOOLEAN
        BY <1>1, <2>1, <3>1
      <4> QED BY <1>1, <3>1, <4>1, <4>2, <4>3, <4>4 DEF TypeOK
    <3>3. ArrivedInv' BY <2>1, <3>1 DEF ArrivedInv, Arrived, Untouched
    <3> QED BY <2>2, <3>1, <3>2, <3>3 DEF IInv, AcknowledgedIsComplete, EndIsSeen
  <2> QED BY <2>3, <2>4
<1>6. ASSUME NEW n \in 1..MaxPacket, ReceivePacket(n) PROVE IInv'
  BY <1>6, PacketKeeps
<1>7. CASE UNCHANGED vars
  BY <1>7 DEF vars, IInv, TypeOK, ArrivedInv, AcknowledgedIsComplete, EndIsSeen,
              Arrived, Untouched
<1> QED BY <1>2, <1>3, <1>4, <1>5, <1>6, <1>7 DEF Next

THEOREM Inductive == Spec => []IInv
<1>1. Init => IInv BY InitInv
<1>2. IInv /\ [Next]_vars => IInv' BY StepInv
<1> QED BY <1>1, <1>2, PTL DEF Spec

(* Every variable keeps its type: no packet is longer than its buffer, and *)
(* the ofstream never holds more than it can.                              *)
THEOREM TypeCorrect == Spec => []TypeOK
<1>1. IInv => TypeOK BY DEF IInv
<1> QED BY <1>1, Inductive, PTL

LEMMA Prefix ==
  ASSUME NEW a \in Strings, NEW b \in Strings PROVE IsPrefix(a, a \o b)
<1> DEFINE w == a \o b
<1>1. /\ Len(a) \in Nat /\ w \in Strings /\ Len(w) >= Len(a)
      /\ \A i \in 1..Len(a) : w[i] = a[i]
  BY ConcatProperties, LenProperties DEF Strings
<1> HIDE DEF w
<1>2. SubSeq(a, 1, Len(a)) \in Strings /\ SubSeq(w, 1, Len(a)) \in Strings
      /\ Len(SubSeq(a, 1, Len(a))) = Len(a) /\ Len(SubSeq(w, 1, Len(a))) = Len(a)
  <2>1. Len(a) \in 0..Len(a) /\ Len(a) \in 0..Len(w)
    BY <1>1, LenProperties DEF Strings
  <2> QED BY <1>1, <2>1, CutInTwo
<1>3. \A i \in 1..Len(a) : SubSeq(a, 1, Len(a))[i] = a[i] /\ SubSeq(w, 1, Len(a))[i] = w[i]
  BY <1>1 DEF Strings
<1>4. SubSeq(a, 1, Len(a)) = SubSeq(w, 1, Len(a))
  BY <1>1, <1>2, <1>3, SeqEqual DEF Strings
<1> QED BY <1>1, <1>4 DEF IsPrefix, w

(* While a packet is awaited and after the last one the file is as the     *)
(* invariant says; afterwards nothing but closing it happens to it.        *)
LEMMA FileInHand == IInv /\ pc \in {"text", "ack"} => FileIsWhatArrived
<1> SUFFICES ASSUME IInv, pc \in {"text", "ack"} PROVE FileIsWhatArrived OBVIOUS
<1>1. /\ Arrived \in Strings /\ left \in Strings /\ text \in Strings /\ Marker \in Strings
      /\ Len(Arrived) \in Nat /\ Len(left) \in Nat /\ Len(text) \in Nat /\ Len(Marker) \in Nat
  BY Constants, ConcatProperties, LenProperties DEF IInv, TypeOK, Arrived, Strings
<1>2. CASE pc = "text"
  <2>1. Arrived \o left = text \o Marker
    BY <1>2 DEF IInv, ArrivedInv
  <2>2. Len(Arrived) + Len(left) = Len(text) + Len(Marker)
    BY <1>1, <2>1, ConcatProperties DEF Strings
  <2>3. IsPrefix(Arrived, text \o Marker)
    BY <1>1, <2>1, Prefix
  <2> QED BY <1>1, <2>2, <2>3 DEF FileIsWhatArrived, Arrived
<1>3. CASE pc = "ack"
  <2>1. PICK k \in 0..(Len(Marker) - 1) : Arrived = text \o SubSeq(Marker, 1, k)
    BY <1>3 DEF IInv, AcknowledgedIsComplete, Arrived
  <2> DEFINE h == SubSeq(Marker, 1, k)
             r == SubSeq(Marker, k + 1, Len(Marker))
  <2>2. h \in Strings /\ r \in Strings /\ h \o r = Marker /\ Len(h) \in Nat
    <3>1. k \in 0..Len(Marker) /\ k \in Nat /\ Marker \in Strings BY <1>1
    <3>2. h \in Strings /\ r \in Strings /\ Len(h) = k BY <3>1, CutInTwo
    <3>3. h \o r = Marker BY <3>1, CutInTwo
    <3> QED BY <3>1, <3>2, <3>3
  <2> HIDE DEF h, r
  <2>3. Arrived \o r = text \o Marker /\ Len(Arrived) = Len(text) + Len(h)
    <3>1. Arrived = text \o h BY <2>1 DEF h
    <3>2. (text \o h) \o r = text \o (h \o r)
      <4>1. text \in Strings /\ h \in Strings /\ r \in Strings BY <1>1, <2>2
      <4> QED BY <4>1, Regroup
    <3>3. Len(text \o h) = Len(text) + Len(h) BY <1>1, <2>2, ConcatProperties DEF Strings
    <3> QED BY <2>2, <3>1, <3>2, <3>3
  <2>4. IsPrefix(Arrived, text \o Marker)
    BY <1>1, <2>2, <2>3, Prefix
  <2> QED BY <1>1, <2>2, <2>3, <2>4 DEF FileIsWhatArrived, Arrived
<1> QED BY <1>2, <1>3

LEMMA FileStep == IInv /\ IInv' /\ FileIsWhatArrived /\ [Next]_vars => FileIsWhatArrived'
<1> SUFFICES ASSUME IInv, IInv', FileIsWhatArrived, [Next]_vars PROVE FileIsWhatArrived' OBVIOUS
<1>1. CASE pc' = "undefined"
  BY <1>1 DEF FileIsWhatArrived
<1>2. CASE pc' \in {"text", "ack"}
  <2>1. (IInv /\ pc \in {"text", "ack"} => FileIsWhatArrived)'
    BY FileInHand, PTL
  <2> QED BY <1>2, <2>1
<1>3. CASE pc' \in {"idle", "name"}
  <2>1. CASE UNCHANGED <<disk, stream, text, left>>
    <3>1. pc # "undefined"
      BY <1>3 DEF Next, vars, Begin, ReceiveEnd, Fail, Acknowledge, ReceiveName, ReceivePacket, Rewrite
    <3> QED BY <2>1, <3>1 DEF FileIsWhatArrived
  <2>2. CASE Fail \/ Acknowledge
    <3>1. disk \o stream \in Strings
      BY ConcatProperties DEF IInv, TypeOK, Strings
    <3>2. (disk \o stream) \o <<>> = disk \o stream
      BY <3>1, ConcatEmptySeq DEF Strings
    <3>3. disk' \o stream' = disk \o stream /\ UNCHANGED <<text, left>> /\ pc # "undefined"
      BY <2>2, <3>2 DEF Fail, Acknowledge
    <3> QED BY <3>3 DEF FileIsWhatArrived
  <2>3. ASSUME NEW long \in BOOLEAN, NEW t \in Texts, ReceiveName(long, t)
        PROVE  UNCHANGED <<disk, stream, text, left>>
    BY <1>3, <2>3 DEF ReceiveName
  <2>4. ASSUME NEW n \in 1..MaxPacket, ReceivePacket(n) PROVE FALSE
    BY <1>3, <2>4 DEF ReceivePacket, Rewrite
  <2>5. CASE Begin \/ ReceiveEnd \/ UNCHANGED vars
    BY <2>1, <2>5 DEF Begin, ReceiveEnd, vars
  <2> QED BY <2>1, <2>2, <2>3, <2>4, <2>5 DEF Next
<1> QED BY <1>1, <1>2, <1>3 DEF IInv, TypeOK

(* What arrives of a file is in the driver's file once and in order, after *)
(* it has been rewritten, closed or broken off as well.                    *)
THEOREM Kept == Spec => []FileIsWhatArrived
<1>1. Init => FileIsWhatArrived
  <2> SUFFICES ASSUME Init PROVE FileIsWhatArrived OBVIOUS
  <2>1. <<>> \in Strings /\ <<>> \o Marker = Marker /\ <<>> \o <<>> = <<>> /\ Len(<<>>) = 0
    BY Constants, ConcatEmptySeq, EmptySeq DEF Strings
  <2>2. IsPrefix(<<>>, Marker)
    BY <2>1, Constants, Prefix
  <2> QED BY <2>1, <2>2 DEF Init, FileIsWhatArrived
<1>2. IInv /\ IInv' /\ FileIsWhatArrived /\ [Next]_vars => FileIsWhatArrived'
  BY FileStep
<1> QED BY Inductive, <1>1, <1>2, PTL DEF Spec

(* A file that the driver acknowledges is the panel's whole text and at    *)
(* most the beginning of a marker.                                         *)
THEOREM Complete == Spec => []AcknowledgedIsComplete
<1>1. IInv => AcknowledgedIsComplete BY DEF IInv
<1> QED BY <1>1, Inductive, PTL

(* The end of a file is missed only if its marker came in three packets.   *)
THEOREM EndFound == Spec => []EndIsSeen
<1>1. IInv => EndIsSeen BY DEF IInv
<1> QED BY <1>1, Inductive, PTL
=============================================================================

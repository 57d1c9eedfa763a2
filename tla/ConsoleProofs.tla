---------------------------- MODULE ConsoleProofs ----------------------------
(***************************************************************************)
(* Proofs about console input, for any ring size, any receiver and any     *)
(* number of readers: the ring is a bounded first-in first-out line, and   *)
(* a reader that has joined the queue does not sleep through a byte.       *)
(*                                                                         *)
(* The interrupt handler pushes as many bytes as the receiver has in one   *)
(* step.  That its loop pushes them in order is an induction on a number,  *)
(* done here by looking at the least one for which it would fail.          *)
(***************************************************************************)
EXTENDS Console, SequenceTheorems, WellFoundedInduction, TLAPS

Slots == 0 .. CAP - 1
Vals  == Bytes \cup {0}
Rings == [buf : [Slots -> Vals], head : Slots, tail : Slots]

\* How many bytes a ring holds, and which.
Length(r) == (r.tail - r.head) % CAP
LineOf(r) == [i \in 1 .. Length(r) |-> r.buf[(r.head + i - 1) % CAP]]

Ring == [buf |-> buf, head |-> head, tail |-> tail]

\* g[i] is the ring after i of the first n bytes of the receiver.
Unfolds(g, n) ==
  /\ g \in [0 .. n -> Rings]
  /\ \A i \in 0 .. n : g[i] = IF i = 0 THEN Ring ELSE PushByte(g[i - 1], fifo[i])

\* A wrapping index needs one subtraction at most.
LEMMA Wraps ==
  ASSUME NEW i \in Int
  PROVE  /\ i \in Slots => i % CAP = i
         /\ i - CAP \in Slots => i % CAP = i - CAP
         /\ i + CAP \in Slots => i % CAP = i + CAP
BY ConsoleAssumption DEF Slots

\* A set of numbers has a least one.
LEMMA Least ==
  ASSUME NEW S, S \subseteq Nat, S # {}
  PROVE  \E m \in S : \A n \in S : m <= n
<1> DEFINE R == {p \in Nat \X Nat : p[1] < p[2]}
<1>1. IsWellFoundedOn(R, Nat)
  BY NatLessThanWellFounded DEF OpToRel
<1> HIDE DEF R
<1>2. PICK m \in S : \A n \in S : ~(<<n, m>> \in R)
  BY <1>1, WFMin
<1>3. \A n, k \in Nat : n < k => <<n, k>> \in R
  BY Zenon DEF R
<1>4. m \in Nat /\ \A n \in S : n \in Nat /\ ~(n < m)
  BY <1>2, <1>3
<1> QED BY <1>4

\* The slots that hold the bytes of a ring are different ones.
LEMMA SlotsDiffer ==
  ASSUME NEW h \in Slots, NEW i \in 1 .. CAP, NEW j \in 1 .. CAP
  PROVE  /\ (h + i - 1) % CAP \in Slots
         /\ (h + i - 1) % CAP = (h + j - 1) % CAP => i = j
<1>1. \A k \in 1 .. CAP : (h + k - 1) % CAP = IF h + k - 1 < CAP THEN h + k - 1 ELSE h + k - 1 - CAP
  BY Wraps, ConsoleAssumption DEF Slots
<1> QED BY <1>1, ConsoleAssumption DEF Slots

\* A ring holds at most one byte less than it has slots, and then it is full.
LEMMA RingLength ==
  ASSUME NEW r \in Rings
  PROVE  /\ Length(r) \in 0 .. CAP - 1
         /\ Full(r) <=> Length(r) = CAP - 1
         /\ Advance(r.tail) \in Slots /\ Advance(r.head) \in Slots
         /\ (r.head + Length(r)) % CAP = r.tail
         /\ r.head # r.tail <=> Length(r) > 0
<1> DEFINE h == r.head  t == r.tail
<1>1. h \in Slots /\ t \in Slots
  BY DEF Rings
<1> HIDE DEF h, t
<1>2. (t - h) % CAP = IF h <= t THEN t - h ELSE t - h + CAP
  BY <1>1, Wraps, ConsoleAssumption DEF Slots
<1>3. \A i \in Slots : (i + 1) % CAP = IF i + 1 < CAP THEN i + 1 ELSE 0
  BY Wraps, ConsoleAssumption DEF Slots
<1>4. \A k \in Slots : (h + k) % CAP = IF h + k < CAP THEN h + k ELSE h + k - CAP
  BY <1>1, Wraps, ConsoleAssumption DEF Slots
<1>5. Length(r) = (t - h) % CAP /\ Advance(r.tail) = (t + 1) % CAP /\ Advance(r.head) = (h + 1) % CAP
  BY DEF Length, Advance, h, t
<1>6. Full(r) <=> Advance(r.tail) = h
  BY DEF Full, h
<1>7. Length(r) \in 0 .. CAP - 1
  BY <1>1, <1>2, <1>5, ConsoleAssumption DEF Slots
<1>8. (h + Length(r)) % CAP = t
  <2>1. PICK k \in Slots : k = Length(r)
    BY <1>7 DEF Slots
  <2>2. k = IF h <= t THEN t - h ELSE t - h + CAP
    BY <1>2, <1>5, <2>1
  <2>3. (h + k) % CAP = IF h + k < CAP THEN h + k ELSE h + k - CAP
    BY <1>4
  <2>4. (h + k) % CAP = t
    BY <1>1, <2>2, <2>3, ConsoleAssumption DEF Slots
  <2> QED BY <2>1, <2>4
<1>9. h # t <=> Length(r) > 0
  BY <1>1, <1>2, <1>5, <1>7, ConsoleAssumption DEF Slots
<1>10. Full(r) <=> Length(r) = CAP - 1
  BY <1>1, <1>2, <1>3, <1>5, <1>6, ConsoleAssumption DEF Slots
<1>11. Advance(r.tail) \in Slots /\ Advance(r.head) \in Slots
  BY <1>1, <1>3, <1>5, ConsoleAssumption DEF Slots
<1> QED BY <1>7, <1>8, <1>9, <1>10, <1>11 DEF h, t

\* The bytes of a ring are a sequence.
LEMMA LineShape ==
  ASSUME NEW r \in Rings
  PROVE  /\ LineOf(r) \in Seq(Vals)
         /\ Len(LineOf(r)) = Length(r)
         /\ \A i \in 1 .. Length(r) : LineOf(r)[i] = r.buf[(r.head + i - 1) % CAP]
<1>1. PICK k \in 0 .. CAP - 1 : k = Length(r)
  BY RingLength
<1>2. r.head \in Slots /\ r.buf \in [Slots -> Vals]
  BY DEF Rings
<1>3. \A i \in 1 .. k : r.buf[(r.head + i - 1) % CAP] \in Vals
  <2> TAKE i \in 1 .. k
  <2>1. i \in 1 .. CAP
    BY ConsoleAssumption
  <2> QED BY <1>2, <2>1, SlotsDiffer
<1>4. LineOf(r) = [i \in 1 .. k |-> r.buf[(r.head + i - 1) % CAP]]
  BY <1>1 DEF LineOf
<1>5. LineOf(r) \in [1 .. k -> Vals]
  BY <1>3, <1>4
<1>6. k \in Nat
  BY ConsoleAssumption
<1>7. LineOf(r) \in Seq(Vals) /\ Len(LineOf(r)) = k
  BY <1>5, <1>6
<1> QED BY <1>1, <1>4, <1>7

\* push puts the byte at the end of the line, or leaves a full ring as it was.
LEMMA PushLine ==
  ASSUME NEW r \in Rings, NEW b \in Vals
  PROVE  /\ PushByte(r, b) \in Rings
         /\ PushByte(r, b).head = r.head
         /\ LineOf(PushByte(r, b)) =
              IF Length(r) = CAP - 1 THEN LineOf(r) ELSE Append(LineOf(r), b)
<1>1. CASE Full(r)
  BY <1>1, RingLength DEF PushByte
<1>2. CASE ~Full(r)
  <2> DEFINE s == PushByte(r, b)
  <2>1. /\ s = [r EXCEPT !.buf[r.tail] = b, !.tail = Advance(r.tail)]
        /\ r.buf \in [Slots -> Vals] /\ r.head \in Slots /\ r.tail \in Slots
        /\ Advance(r.tail) \in Slots
    BY <1>2, RingLength DEF PushByte, Rings
  <2>2. /\ s.head = r.head /\ s.tail = Advance(r.tail)
        /\ s.buf = [r.buf EXCEPT ![r.tail] = b]
        /\ s \in Rings
    BY <2>1 DEF Rings
  <2> HIDE DEF s
  <2>3. Length(s) = Length(r) + 1
    <3>1. PICK h \in Slots, t \in Slots : h = r.head /\ t = r.tail
      BY <2>1
    <3>2. \A i \in Slots : (i - h) % CAP = IF h <= i THEN i - h ELSE i - h + CAP
      BY Wraps, ConsoleAssumption DEF Slots
    <3>3. (t + 1) % CAP = IF t + 1 < CAP THEN t + 1 ELSE 0
      BY Wraps, ConsoleAssumption DEF Slots
    <3>4. PICK u \in Slots : u = Advance(t) /\ u # h
      BY <1>2, <2>1, <3>1 DEF Full
    <3>5. (u - h) % CAP = ((t - h) % CAP) + 1
      BY <3>2, <3>3, <3>4, ConsoleAssumption DEF Slots, Advance
    <3> QED BY <2>2, <3>1, <3>4, <3>5 DEF Length
  <2>4. PICK k \in 0 .. CAP - 2 : k = Length(r)
    BY <1>2, RingLength, ConsoleAssumption
  <2>5. /\ LineOf(r) \in Seq(Vals) /\ Len(LineOf(r)) = k
        /\ \A i \in 1 .. k : LineOf(r)[i] = r.buf[(r.head + i - 1) % CAP]
    BY <2>4, LineShape
  <2>6. (r.head + (k + 1) - 1) % CAP = r.tail
    BY <2>1, <2>4, RingLength DEF Slots
  <2>7. \A i \in 1 .. k : (r.head + i - 1) % CAP \in Slots /\ (r.head + i - 1) % CAP # r.tail
    <3> SUFFICES ASSUME NEW i \in 1 .. k
                 PROVE  (r.head + i - 1) % CAP \in Slots /\ (r.head + i - 1) % CAP # r.tail
      OBVIOUS
    <3>1. i \in 1 .. CAP /\ k + 1 \in 1 .. CAP /\ i # k + 1
      BY ConsoleAssumption
    <3> QED BY <2>1, <2>6, <3>1, SlotsDiffer
  <2>8. /\ LineOf(s) \in Seq(Vals) /\ Len(LineOf(s)) = k + 1
        /\ \A i \in 1 .. k + 1 : LineOf(s)[i] = s.buf[(r.head + i - 1) % CAP]
    BY <2>2, <2>3, <2>4, LineShape
  <2>9. \A i \in 1 .. k + 1 : s.buf[(r.head + i - 1) % CAP] =
          IF i = k + 1 THEN b ELSE r.buf[(r.head + i - 1) % CAP]
    BY <2>1, <2>2, <2>6, <2>7
  <2>10. LineOf(s) = Append(LineOf(r), b)
    <3>1. /\ Append(LineOf(r), b) \in Seq(Vals) /\ Len(Append(LineOf(r), b)) = k + 1
          /\ \A i \in 1 .. k : Append(LineOf(r), b)[i] = LineOf(r)[i]
          /\ Append(LineOf(r), b)[k + 1] = b
      BY <2>5, AppendProperties
    <3>2. ASSUME NEW i \in 1 .. k + 1 PROVE LineOf(s)[i] = Append(LineOf(r), b)[i]
      <4>1. i \in 1 .. k \/ i = k + 1
        BY ConsoleAssumption
      <4>2. LineOf(s)[i] = IF i = k + 1 THEN b ELSE r.buf[(r.head + i - 1) % CAP]
        BY <2>8, <2>9
      <4>3. CASE i = k + 1
        BY <3>1, <4>2, <4>3
      <4>4. CASE i \in 1 .. k /\ i # k + 1
        BY <2>5, <3>1, <4>2, <4>4
      <4> QED BY <4>1, <4>3, <4>4
    <3> QED BY <2>8, <3>1, <3>2, SeqEqual
  <2> QED BY <1>2, <2>2, <2>10, RingLength DEF s
<1> QED BY <1>1, <1>2

\* read_byte takes the first byte of the line.
LEMMA PopLine ==
  ASSUME NEW r \in Rings, r.head # r.tail, NEW s \in Rings,
         s.buf = r.buf, s.tail = r.tail, s.head = Advance(r.head)
  PROVE  /\ LineOf(r) # <<>>
         /\ Head(LineOf(r)) = r.buf[r.head]
         /\ LineOf(s) = Tail(LineOf(r))
<1>1. PICK h \in Slots, t \in Slots, u \in Slots : h = r.head /\ t = r.tail /\ u = s.head
  BY DEF Rings
<1>2. PICK k \in 1 .. CAP - 1 : k = Length(r)
  BY RingLength
<1>3. u = IF h + 1 < CAP THEN h + 1 ELSE 0
  BY <1>1, Wraps, ConsoleAssumption DEF Slots, Advance
<1>4. \A i \in Slots : (t - i) % CAP = IF i <= t THEN t - i ELSE t - i + CAP
  BY Wraps, ConsoleAssumption DEF Slots
<1>5. Length(s) = k - 1
  <2>0. /\ (t - u) % CAP = IF u <= t THEN t - u ELSE t - u + CAP
        /\ (t - h) % CAP = IF h <= t THEN t - h ELSE t - h + CAP
        /\ h # t
    BY <1>1, <1>4
  <2>1. (t - u) % CAP = ((t - h) % CAP) - 1
    BY <1>3, <2>0, ConsoleAssumption DEF Slots
  <2> QED BY <1>1, <1>2, <2>1 DEF Length
<1>6. /\ LineOf(r) \in Seq(Vals) /\ Len(LineOf(r)) = k
      /\ \A i \in 1 .. k : LineOf(r)[i] = r.buf[(h + i - 1) % CAP]
  BY <1>1, <1>2, LineShape
<1>7. /\ LineOf(s) \in Seq(Vals) /\ Len(LineOf(s)) = k - 1
      /\ \A i \in 1 .. k - 1 : LineOf(s)[i] = r.buf[(u + i - 1) % CAP]
  BY <1>1, <1>5, LineShape
<1>8. LineOf(r) # <<>>
  BY <1>6, EmptySeq
<1>9. (h + 1 - 1) % CAP = h
  BY Wraps, ConsoleAssumption DEF Slots
<1>10. Head(LineOf(r)) = r.buf[r.head]
  <2>1. LineOf(r)[1] = r.buf[h]
    BY <1>6, <1>9, ConsoleAssumption
  <2> QED BY <1>1, <1>6, <1>8, <2>1
<1>11. \A i \in 1 .. k - 1 : (u + i - 1) % CAP = (h + (i + 1) - 1) % CAP
  <2> TAKE i \in 1 .. k - 1
  <2>1. i \in 1 .. CAP /\ i + 1 \in 1 .. CAP
    BY ConsoleAssumption
  <2>2. (u + i - 1) % CAP = IF u + i - 1 < CAP THEN u + i - 1 ELSE u + i - 1 - CAP
    BY <2>1, Wraps, ConsoleAssumption DEF Slots
  <2>3. (h + (i + 1) - 1) % CAP = IF h + i < CAP THEN h + i ELSE h + i - CAP
    BY <2>1, Wraps, ConsoleAssumption DEF Slots
  <2> QED BY <1>3, <2>1, <2>2, <2>3, ConsoleAssumption DEF Slots
<1>12. LineOf(s) = Tail(LineOf(r))
  <2>1. /\ Tail(LineOf(r)) \in Seq(Vals) /\ Len(Tail(LineOf(r))) = k - 1
        /\ \A i \in 1 .. k - 1 : Tail(LineOf(r))[i] = LineOf(r)[i + 1]
    BY <1>6, <1>8, HeadTailProperties
  <2>2. \A i \in 1 .. k - 1 : LineOf(r)[i + 1] = r.buf[(h + (i + 1) - 1) % CAP]
    BY <1>6
  <2>3. \A i \in 1 .. k - 1 : LineOf(s)[i] = Tail(LineOf(r))[i]
    BY <1>7, <1>11, <2>1, <2>2
  <2> QED BY <1>7, <2>1, <2>3, SeqEqual
<1> QED BY <1>8, <1>10, <1>12

\* A sequence grows by one element.
LEMMA SubSeqGrows ==
  ASSUME NEW T, NEW s \in Seq(T), NEW k \in 0 .. Len(s) - 1
  PROVE  SubSeq(s, 1, k + 1) = Append(SubSeq(s, 1, k), s[k + 1])
<1>1. 1 \in 1 .. Len(s) /\ k + 1 \in 1 .. Len(s) /\ k \in Int /\ (k + 1) - 1 = k
  BY LenProperties
<1>2. SubSeq(s, 1, k + 1) = SubSeq(s, 1, k) \o <<s[k + 1]>>
  BY <1>1, SubSeqRecursiveSecond
<1>3. \A i \in 1 .. k + 1 : s[i] \in T
  BY <1>1, LenProperties
<1>4. SubSeq(s, 1, k) \in Seq(T)
  BY <1>1, <1>3, SubSeqProperties
<1> QED BY <1>1, <1>2, <1>3, <1>4, AppendIsConcat

\* handle_interrupt's loop goes through the rings that its definition says.
LEMMA PushedUnfolds ==
  ASSUME Ring \in Rings, fifo \in Seq(Bytes)
  PROVE  \A n \in 0 .. Len(fifo) :
           Pushed[n] = IF n = 0 THEN Ring ELSE PushByte(Pushed[n - 1], fifo[n])
<1>0. Len(fifo) \in Nat /\ \A i \in 1 .. Len(fifo) : fifo[i] \in Vals
  BY DEF Vals
<1>1. ASSUME NEW n \in 0 .. Len(fifo) PROVE \E g : Unfolds(g, n)
  <2> DEFINE S == {k \in 0 .. Len(fifo) : ~\E g : Unfolds(g, k)}
  <2> SUFFICES ASSUME S # {} PROVE FALSE
    OBVIOUS
  <2>1. PICK m \in S : \A k \in S : m <= k
    <3>1. S \subseteq Nat
      BY <1>0
    <3> HIDE DEF S
    <3> QED BY <3>1, Least
  <2>2. m \in 0 .. Len(fifo) /\ ~\E g : Unfolds(g, m)
    OBVIOUS
  <2>3. CASE m = 0
    <3> DEFINE g == [i \in 0 .. 0 |-> Ring]
    <3>1. Unfolds(g, 0)
      BY DEF Unfolds
    <3> HIDE DEF g
    <3> QED BY <2>2, <2>3, <3>1
  <2>4. CASE m # 0
    <3>1. m - 1 \in 0 .. Len(fifo) /\ m - 1 \notin S
      BY <1>0, <2>1, <2>2, <2>4
    <3>2. PICK g : Unfolds(g, m - 1)
      BY <3>1
    <3> DEFINE f == [i \in 0 .. m |-> IF i = m THEN PushByte(g[m - 1], fifo[m]) ELSE g[i]]
    <3>3. g[m - 1] \in Rings /\ fifo[m] \in Vals
      BY <1>0, <2>2, <2>4, <3>2 DEF Unfolds
    <3>4. PushByte(g[m - 1], fifo[m]) \in Rings
      BY <3>3, PushLine
    <3>5. f \in [0 .. m -> Rings]
      BY <1>0, <2>2, <3>2, <3>4 DEF Unfolds
    <3>6. ASSUME NEW i \in 0 .. m
          PROVE  f[i] = IF i = 0 THEN Ring ELSE PushByte(f[i - 1], fifo[i])
      <4>1. CASE i = m
        <5>1. f[i] = PushByte(g[m - 1], fifo[m]) /\ f[m - 1] = g[m - 1]
          BY <1>0, <2>2, <2>4, <4>1
        <5> QED BY <2>4, <4>1, <5>1
      <4>2. CASE i # m
        <5>1. i \in 0 .. m - 1 /\ f[i] = g[i] /\ (i # 0 => f[i - 1] = g[i - 1])
          BY <1>0, <2>2, <4>2
        <5>2. g[i] = IF i = 0 THEN Ring ELSE PushByte(g[i - 1], fifo[i])
          BY <3>2, <5>1 DEF Unfolds
        <5> QED BY <5>1, <5>2
      <4> QED BY <4>1, <4>2
    <3>7. Unfolds(f, m)
      BY <3>5, <3>6 DEF Unfolds
    <3> HIDE DEF f
    <3> QED BY <2>2, <3>7
  <2> QED BY <2>3, <2>4
<1>2. PICK g : Unfolds(g, Len(fifo))
  BY <1>0, <1>1
<1>3. g = [n \in 0 .. Len(fifo) |-> IF n = 0 THEN Ring ELSE PushByte(g[n - 1], fifo[n])]
  BY <1>2 DEF Unfolds
<1>4. Pushed = [n \in 0 .. Len(fifo) |-> IF n = 0 THEN Ring ELSE PushByte(Pushed[n - 1], fifo[n])]
  BY <1>3, Zenon DEF Pushed, Ring
<1> QED BY <1>4, Zenon

\* As many bytes of the receiver have joined the line as there was room for.
LEMMA PushedLine ==
  ASSUME Ring \in Rings, fifo \in Seq(Bytes), NEW n \in 0 .. Len(fifo)
  PROVE  LET all == LineOf(Ring) \o fifo
             k   == Len(LineOf(Ring)) + n
         IN  /\ Pushed[n] \in Rings
             /\ Pushed[n].head = head
             /\ LineOf(Pushed[n]) = SubSeq(all, 1, IF k < CAP - 1 THEN k ELSE CAP - 1)
<1> DEFINE line == LineOf(Ring)
           all == line \o fifo
           Upto(i) == IF Len(line) + i < CAP - 1 THEN Len(line) + i ELSE CAP - 1
           Good(i) == /\ Pushed[i] \in Rings
                      /\ Pushed[i].head = head
                      /\ LineOf(Pushed[i]) = SubSeq(all, 1, Upto(i))
           S == {i \in 0 .. Len(fifo) : ~Good(i)}
<1>1. /\ line \in Seq(Vals) /\ Len(line) \in 0 .. CAP - 1 /\ fifo \in Seq(Vals)
      /\ Len(fifo) \in Nat
  BY LineShape, RingLength DEF Vals
<1>2. all \in Seq(Vals) /\ Len(all) = Len(line) + Len(fifo)
      /\ \A i \in 1 .. Len(all) : all[i] = IF i <= Len(line) THEN line[i] ELSE fifo[i - Len(line)]
  BY <1>1, ConcatProperties
<1>3. Ring.head = head
  BY DEF Ring
<1> HIDE DEF line, all
<1> SUFFICES ASSUME S # {} PROVE FALSE
  BY DEF line, all
<1>4. PICK m \in S : \A k \in S : m <= k
  <2>1. S \subseteq Nat
    BY <1>1
  <2> HIDE DEF S
  <2> QED BY <2>1, Least
<1>5. m \in 0 .. Len(fifo) /\ ~Good(m)
  OBVIOUS
<1>6. CASE m = 0
  <2>1. Pushed[0] = Ring
    BY <1>5, <1>6, PushedUnfolds
  <2>2. Upto(0) = Len(line)
    BY <1>1, ConsoleAssumption
  <2>3. SubSeq(all, 1, Len(line)) = line
    <3>1. \A i \in 1 .. Len(line) : all[i] = line[i] /\ all[i] \in Vals
      BY <1>1, <1>2, LenProperties, ConsoleAssumption
    <3>2. Len(line) \in Int
      BY <1>1
    <3>3. /\ SubSeq(all, 1, Len(line)) \in Seq(Vals)
          /\ Len(SubSeq(all, 1, Len(line))) = Len(line)
          /\ \A i \in 1 .. Len(line) : SubSeq(all, 1, Len(line))[i] = all[i]
      BY <1>1, <3>1, <3>2, SubSeqProperties
    <3> QED BY <1>1, <3>1, <3>3, SeqEqual
  <2> QED BY <1>3, <1>5, <1>6, <2>1, <2>2, <2>3 DEF line
<1>7. CASE m # 0
  <2>1. m - 1 \in 0 .. Len(fifo) /\ m \in 1 .. Len(fifo) /\ m - 1 \notin S
    BY <1>1, <1>4, <1>5, <1>7
  <2>2. Good(m - 1)
    BY <2>1
  <2>3. Pushed[m] = PushByte(Pushed[m - 1], fifo[m]) /\ fifo[m] \in Vals
    BY <1>1, <1>5, <1>7, <2>1, PushedUnfolds
  <2> DEFINE u == Upto(m - 1)
  <2>4. u \in 0 .. Len(all) /\ Upto(m - 1) \in 0 .. CAP - 1
    BY <1>1, <1>2, <2>1, ConsoleAssumption
  <2>5. Length(Pushed[m - 1]) = u
    <3>1. \A i \in 1 .. u : all[i] \in Vals
      BY <1>2, <2>4, LenProperties
    <3>2. Len(SubSeq(all, 1, u)) = u
      BY <2>4, <3>1, SubSeqProperties, ConsoleAssumption
    <3> QED BY <2>2, <3>2, LineShape
  <2>6. /\ Pushed[m] \in Rings /\ Pushed[m].head = head
        /\ LineOf(Pushed[m]) =
             IF u = CAP - 1 THEN SubSeq(all, 1, u) ELSE Append(SubSeq(all, 1, u), fifo[m])
    BY <2>2, <2>3, <2>5, PushLine
  <2>7. CASE u = CAP - 1
    <3>1. Upto(m) = u
      BY <1>1, <2>1, <2>7, ConsoleAssumption
    <3> QED BY <1>5, <2>6, <2>7, <3>1
  <2>8. CASE u # CAP - 1
    <3>1. Upto(m) = u + 1 /\ u = Len(line) + m - 1 /\ u + 1 \in 1 .. Len(all)
      <4>1. PICK a \in Nat, b \in Nat : a = Len(line) /\ b = Len(fifo)
        BY <1>1
      <4>2. /\ u = IF a + (m - 1) < CAP - 1 THEN a + (m - 1) ELSE CAP - 1
            /\ Upto(m) = IF a + m < CAP - 1 THEN a + m ELSE CAP - 1
            /\ m \in 1 .. b /\ Len(all) = a + b
        BY <1>2, <2>1, <4>1
      <4> HIDE DEF Upto, u
      <4>3. u = a + m - 1 /\ Upto(m) = a + m
        BY <2>8, <4>2, ConsoleAssumption
      <4>4. u + 1 \in 1 .. Len(all) /\ Upto(m) = u + 1
        BY <4>2, <4>3
      <4> QED BY <4>1, <4>3, <4>4
    <3>2. all[u + 1] = fifo[m]
      BY <1>1, <1>2, <2>1, <3>1
    <3>3. SubSeq(all, 1, u + 1) = Append(SubSeq(all, 1, u), all[u + 1])
      BY <1>1, <1>2, <3>1, SubSeqGrows
    <3> QED BY <1>5, <2>6, <2>8, <3>1, <3>2, <3>3
  <2> QED BY <2>7, <2>8
<1> QED BY <1>6, <1>7

------------------------------------------------------------------------------
(* The inductive invariant                                                    *)

Labels == {"user", "check", "push", "park", "unqueue", "pop", "copy"}

Types ==
  /\ parked \subseteq Tasks /\ pending \subseteq Tasks
  /\ fifo \in Seq(Bytes)
  /\ Ring \in Rings
  /\ readers \in Seq(Tasks)
  /\ pc \in [Tasks -> Labels]

\* An entry of READERS is that of a reader between its push_back and its wakeup:
\* on its way to block_current without a note, or asleep.
Entries ==
  \A t \in Tasks : Contains(readers, t) =>
    /\ t \notin heard
    /\ \/ pc[t] = "park" /\ t \notin pending
       \/ pc[t] = "unqueue" /\ t \in parked

\* A sleeper has an entry; a reader about to sleep has an entry or a note.
Sleepers ==
  /\ \A t \in parked : pc[t] = "unqueue" /\ Contains(readers, t)
  /\ \A t \in pending : pc[t] = "park"
  /\ \A t \in Tasks : pc[t] = "park" => Contains(readers, t) \/ t \in pending

IInv == Types /\ Entries /\ Sleepers

\* The interrupt leaves the ring that holds what fitted, and no entry.
LEMMA ExternalRing ==
  ASSUME Types, HandleExternal
  PROVE  Ring' = Drained /\ Ring' \in Rings
<1>1. Drained \in Rings /\ Drained.head = head
  BY PushedLine, LenProperties DEF Types, Drained
<1>2. head' = Drained.head /\ buf' = Drained.buf /\ tail' = Drained.tail
  BY <1>1 DEF HandleExternal
<1>3. Drained = [buf |-> Drained.buf, head |-> Drained.head, tail |-> Drained.tail]
  BY <1>1 DEF Rings
<1> QED BY <1>1, <1>2, <1>3 DEF Ring

\* Taking a byte leaves a ring.
LEMMA PopRing ==
  ASSUME Types, NEW t \in Tasks, PopByte(t)
  PROVE  Ring' \in Rings
<1>1. Ring.head = head /\ Ring.tail = tail /\ Ring.buf = buf
  BY DEF Ring
<1>2. Advance(head) \in Slots /\ head \in Slots /\ tail \in Slots /\ buf \in [Slots -> Vals]
  BY <1>1, RingLength DEF Types, Rings
<1>3. head' \in {head, Advance(head)} /\ buf' = buf /\ tail' = tail
  BY DEF PopByte
<1> QED BY <1>2, <1>3 DEF Ring, Rings

\* wait finds no entry of its own when it wakes: whoever woke it took the entry.
LEMMA UnqueueNothing ==
  ASSUME Entries, NEW t \in Tasks, WaitUnqueue(t)
  PROVE  readers' = readers /\ ~Contains(readers, t)
<1>1. ~Contains(readers, t)
  BY DEF Entries, WaitUnqueue, Step
<1> QED BY <1>1 DEF WaitUnqueue, Without

\* Every step keeps every variable in its type.
LEMMA TypesStep == IInv /\ [Next]_vars => Types'
<1> SUFFICES ASSUME Types, Entries, [Next]_vars PROVE Types'
  BY DEF IInv
<1>1. ASSUME NEW t \in Tasks,
             (\E n \in Lengths : Read(t, n)) \/ WaitCheck(t) \/ WaitPark(t) \/ ReadReturn(t)
      PROVE  Types'
  <2>1. UNCHANGED <<fifo, buf, head, tail, readers>>
    BY <1>1 DEF Read, WaitCheck, WaitPark, ReadReturn, ringVars
  <2>2. parked' \subseteq Tasks /\ pending' \subseteq Tasks
    BY <1>1 DEF Types, Read, WaitCheck, WaitPark, ReadReturn, Park, parkingVars
  <2>3. pc' \in [Tasks -> Labels]
    BY <1>1 DEF Types, Labels, Read, WaitCheck, WaitPark, ReadReturn, Step
  <2>4. Ring' = Ring
    BY <2>1 DEF Ring
  <2> QED BY <2>1, <2>2, <2>3, <2>4 DEF Types
<1>2. ASSUME NEW t \in Tasks, WaitPush(t) \/ WaitUnqueue(t) PROVE Types'
  <2>1. UNCHANGED <<fifo, buf, head, tail, parked, pending>>
    BY <1>2 DEF WaitPush, WaitUnqueue, ringVars, parkingVars
  <2>2. readers' \in Seq(Tasks)
    BY <1>2, UnqueueNothing, AppendProperties DEF WaitPush, Types
  <2>3. pc' \in [Tasks -> Labels]
    BY <1>2 DEF Types, Labels, WaitPush, WaitUnqueue, Step
  <2>4. Ring' = Ring
    BY <2>1 DEF Ring
  <2> QED BY <2>1, <2>2, <2>3, <2>4 DEF Types
<1>3. ASSUME NEW t \in Tasks, PopByte(t) PROVE Types'
  <2>1. UNCHANGED <<fifo, readers, parked, pending>>
    BY <1>3 DEF PopByte, parkingVars
  <2>2. pc' \in [Tasks -> Labels]
    BY <1>3 DEF Types, Labels, PopByte, Step
  <2> QED BY <1>3, <2>1, <2>2, PopRing DEF Types
<1>4. ASSUME NEW b \in Bytes, Receive(b) PROVE Types'
  <2>1. UNCHANGED <<buf, head, tail, readers, parked, pending, pc>> /\ fifo' = Append(fifo, b)
    BY <1>4 DEF Receive, parkingVars, ringVars
  <2>2. fifo' \in Seq(Bytes)
    BY <2>1, AppendProperties DEF Types
  <2>3. Ring' = Ring
    BY <2>1 DEF Ring
  <2> QED BY <2>1, <2>2, <2>3 DEF Types
<1>5. CASE HandleExternal
  <2>1. UNCHANGED pc /\ fifo' = <<>> /\ fifo' \in Seq(Bytes)
    BY <1>5, EmptySeq DEF HandleExternal
  <2>2. /\ parked' \subseteq Tasks /\ pending' \subseteq Tasks /\ readers' \in Seq(Tasks)
    BY <1>5, EmptySeq DEF HandleExternal, WakeReaders, Types, parkingVars
  <2> QED BY <1>5, <2>1, <2>2, ExternalRing DEF Types
<1>6. CASE UNCHANGED vars
  <2>1. UNCHANGED <<parked, pending, fifo, buf, head, tail, readers, pc>>
    BY <1>6 DEF vars, parkingVars, ringVars
  <2>2. Ring' = Ring
    BY <2>1 DEF Ring
  <2> QED BY <2>1, <2>2 DEF Types
<1>7. ASSUME NEW t \in Tasks, ReaderStep(t) PROVE Types'
  BY <1>1, <1>2, <1>3, <1>7, Zenon DEF ReaderStep
<1> QED BY <1>4, <1>5, <1>6, <1>7 DEF Next

\* What an append and an empty queue contain.
LEMMA QueueEntries ==
  ASSUME NEW s \in Seq(Tasks), NEW t \in Tasks
  PROVE  /\ \A u \in Tasks : Contains(Append(s, t), u) <=> Contains(s, u) \/ u = t
         /\ \A u \in Tasks : ~Contains(<<>>, u)
<1>1. Len(s) \in Nat /\ Len(Append(s, t)) = Len(s) + 1 /\ Append(s, t)[Len(s) + 1] = t
      /\ \A i \in 1 .. Len(s) : Append(s, t)[i] = s[i]
  BY AppendProperties, LenProperties
<1>2. ASSUME NEW u \in Tasks PROVE Contains(Append(s, t), u) <=> Contains(s, u) \/ u = t
  <2>1. \A i \in 1 .. Len(s) + 1 : i \in 1 .. Len(s) \/ i = Len(s) + 1
    BY <1>1
  <2>2. \A i \in 1 .. Len(s) : i \in 1 .. Len(s) + 1
    BY <1>1
  <2>3. Len(s) + 1 \in 1 .. Len(s) + 1
    BY <1>1
  <2> QED BY <1>1, <2>1, <2>2, <2>3, Zenon DEF Contains
<1>3. Len(<<>>) = 0 /\ 1 .. 0 = {}
  OBVIOUS
<1>4. \A u \in Tasks : ~Contains(<<>>, u)
  BY <1>3, Zenon DEF Contains
<1> QED BY <1>2, <1>4

\* Readers keep their entries, and are reached by who owes them a wakeup.
LEMMA QueueStep == IInv /\ [Next]_vars => (Entries /\ Sleepers)'
<1> SUFFICES ASSUME Types, Entries, Sleepers, [Next]_vars PROVE (Entries /\ Sleepers)'
  BY DEF IInv
<1>1. ASSUME NEW t \in Tasks, NEW from, NEW to, Step(t, from, to)
      PROVE  /\ t \notin parked /\ pc[t] = from
             /\ \A u \in Tasks : pc'[u] = IF u = t THEN to ELSE pc[u]
  BY <1>1 DEF Step, Types
<1>2. ASSUME NEW t \in Tasks, NEW from \in {"user", "check", "pop", "copy"},
             NEW to \in {"user", "check", "push", "pop", "copy"}, Step(t, from, to),
             UNCHANGED <<parked, pending, readers, heard>>
      PROVE  (Entries /\ Sleepers)'
  <2>1. /\ pc[t] \notin {"park", "unqueue"}
        /\ \A u \in Tasks : pc'[u] = IF u = t THEN to ELSE pc[u]
    BY <1>1, <1>2
  <2>2. \A u \in Tasks : Contains(readers', u) <=> Contains(readers, u)
    BY <1>2
  <2> QED BY <1>2, <2>1, <2>2 DEF Entries, Sleepers, Types
<1>3. ASSUME NEW t \in Tasks,
             (\E n \in Lengths : Read(t, n)) \/ WaitCheck(t) \/ ReadReturn(t) \/ PopByte(t)
      PROVE  (Entries /\ Sleepers)'
  <2>1. UNCHANGED <<parked, pending, readers, heard>>
    BY <1>3 DEF Read, WaitCheck, ReadReturn, PopByte, parkingVars
  <2>2. PICK from \in {"user", "check", "pop", "copy"},
             to \in {"user", "check", "push", "pop", "copy"} : Step(t, from, to)
    BY <1>3 DEF Read, WaitCheck, ReadReturn, PopByte
  <2> QED BY <1>2, <2>1, <2>2
<1>4. ASSUME NEW t \in Tasks, WaitPush(t) PROVE (Entries /\ Sleepers)'
  <2>1. /\ pc[t] = "push" /\ t \notin parked /\ UNCHANGED <<parked, pending>>
        /\ heard' = heard \ {t}
        /\ \A u \in Tasks : pc'[u] = IF u = t THEN "park" ELSE pc[u]
    BY <1>1, <1>4 DEF WaitPush, parkingVars
  <2>2. \A u \in Tasks : Contains(readers', u) <=> Contains(readers, u) \/ u = t
    BY <1>4, QueueEntries DEF WaitPush, Types
  <2> QED BY <2>1, <2>2 DEF Entries, Sleepers, Types
<1>5. ASSUME NEW t \in Tasks, WaitPark(t) PROVE (Entries /\ Sleepers)'
  <2>1. /\ pc[t] = "park" /\ t \notin parked /\ UNCHANGED <<readers, heard>>
        /\ \A u \in Tasks : pc'[u] = IF u = t THEN "unqueue" ELSE pc[u]
    BY <1>1, <1>5 DEF WaitPark
  <2>2. \A u \in Tasks : Contains(readers', u) <=> Contains(readers, u)
    BY <2>1
  <2> QED BY <1>5, <2>1, <2>2 DEF WaitPark, Park, Entries, Sleepers, Types
<1>6. ASSUME NEW t \in Tasks, WaitUnqueue(t) PROVE (Entries /\ Sleepers)'
  <2>1. /\ pc[t] = "unqueue" /\ t \notin parked /\ UNCHANGED <<parked, pending>>
        /\ heard' = heard \ {t}
        /\ \A u \in Tasks : pc'[u] = IF u = t THEN "check" ELSE pc[u]
    BY <1>1, <1>6 DEF WaitUnqueue, parkingVars
  <2>2. /\ \A u \in Tasks : Contains(readers', u) <=> Contains(readers, u)
        /\ ~Contains(readers, t)
    BY <1>6, UnqueueNothing
  <2> QED BY <2>1, <2>2 DEF Entries, Sleepers, Types
<1>7. CASE HandleExternal
  <2>1. CASE tail' # tail
    <3>1. /\ UNCHANGED pc /\ readers' = <<>>
          /\ \A u \in Tasks : u \in parked' <=> (u \in parked /\ ~Contains(readers, u))
          /\ \A u \in Tasks : u \in pending' <=>
               (u \in pending \/ (Contains(readers, u) /\ u \notin parked))
          /\ parked' \subseteq parked
          /\ pending' \subseteq Tasks
      BY <1>7, <2>1 DEF HandleExternal, WakeReaders, Types, parkingVars
    <3>2. \A u \in Tasks : ~Contains(readers', u)
      BY <3>1, QueueEntries, EmptySeq
    <3>3. Entries'
      BY <3>2 DEF Entries
    <3>4. \A u \in Tasks : u \notin parked'
      BY <3>1 DEF Sleepers
    <3>5. \A u \in Tasks : u \in pending' <=> pc[u] = "park"
      BY <3>1 DEF Entries, Sleepers
    <3> QED BY <3>1, <3>3, <3>4, <3>5 DEF Sleepers, Types
  <2>2. CASE tail' = tail
    <3>1. UNCHANGED <<pc, parked, pending, readers, heard>>
      BY <1>7, <2>2 DEF HandleExternal, parkingVars
    <3> QED BY <3>1 DEF Entries, Sleepers
  <2> QED BY <2>1, <2>2
<1>8. ASSUME NEW b \in Bytes, Receive(b) PROVE (Entries /\ Sleepers)'
  <2>1. UNCHANGED <<pc, parked, pending, readers, heard>>
    BY <1>8 DEF Receive, parkingVars
  <2> QED BY <2>1 DEF Entries, Sleepers
<1>9. CASE UNCHANGED vars
  <2>1. UNCHANGED <<pc, parked, pending, readers, heard>>
    BY <1>9 DEF vars, parkingVars
  <2> QED BY <2>1 DEF Entries, Sleepers
<1>10. ASSUME NEW t \in Tasks, ReaderStep(t) PROVE (Entries /\ Sleepers)'
  BY <1>3, <1>4, <1>5, <1>6, <1>10, Zenon DEF ReaderStep
<1> QED BY <1>7, <1>8, <1>9, <1>10 DEF Next

\* The ring is empty and nobody waits.
LEMMA InitInv == Init => IInv
<1> SUFFICES ASSUME Init PROVE IInv
  OBVIOUS
<1>1. Ring \in Rings
  <2>1. buf \in [Slots -> Vals] /\ head \in Slots /\ tail \in Slots
    BY ConsoleAssumption DEF Init, Slots, Vals
  <2> QED BY <2>1 DEF Ring, Rings
<1>2. Types
  BY <1>1, EmptySeq DEF Init, ParkingInit, Types, Labels
<1>3. \A t \in Tasks : ~Contains(readers, t)
  BY QueueEntries, EmptySeq DEF Init
<1>4. Entries /\ Sleepers
  BY <1>3 DEF Init, ParkingInit, Entries, Sleepers
<1> QED BY <1>2, <1>4 DEF IInv

\* The inductive invariant: what READERS holds follows from where its readers are.
THEOREM Invariance == Spec => []IInv
<1>1. IInv /\ [Next]_vars => IInv'
  BY TypesStep, QueueStep DEF IInv
<1> QED BY <1>1, InitInv, PTL DEF Spec

\* A reader that has joined READERS does not sleep through a byte, and a sleeping
\* reader can be reached, for any number of readers and any size of the ring.
THEOREM ReadersAwake == Spec => []AwakeForInput
<1>1. IInv => AwakeForInput
  BY DEF IInv, Types, Entries, Sleepers, AwakeForInput
<1> QED BY <1>1, Invariance, PTL

------------------------------------------------------------------------------
(* The ring implements the line                                               *)

\* The line is that of the ring, before and after a step.
LEMMA LineIsLineOf == Line = LineOf(Ring) /\ Line' = LineOf(Ring')
BY DEF Line, LineOf, Ring, Used, Length

\* The empty ring is the empty line.
LEMMA LineInitial == Init => L!LineInit
<1> SUFFICES ASSUME Init PROVE L!LineInit
  OBVIOUS
<1>1. Used = 0
  BY Wraps, ConsoleAssumption DEF Init, Used, Slots
<1>2. Line = <<>>
  BY <1>1 DEF Line
<1> QED BY <1>2 DEF Init, L!LineInit

\* The interrupt handler's loop is one arrival.
LEMMA ExternalIsArrival ==
  ASSUME IInv, HandleExternal
  PROVE  L!Arrival
<1>1. Ring \in Rings /\ fifo \in Seq(Bytes) /\ Types
  BY DEF IInv, Types
<1>2. Line' = LineOf(Drained)
  BY <1>1, LineIsLineOf, ExternalRing
<1>3. Len(fifo) \in 0 .. Len(fifo)
  BY <1>1, LenProperties
<1> DEFINE all == Line \o fifo
           k   == Len(Line) + Len(fifo)
<1>4. LineOf(Drained) = SubSeq(all, 1, IF k < CAP - 1 THEN k ELSE CAP - 1)
  BY <1>1, <1>3, LineIsLineOf, PushedLine DEF Drained
<1>5. Len(all) = k
  BY <1>1, LineShape, LineIsLineOf
<1>6. fifo' = <<>> /\ got' = got
  BY DEF HandleExternal
<1> QED BY <1>2, <1>4, <1>5, <1>6 DEF L!Arrival

\* read_byte takes the front of the line.
LEMMA PopIsTake ==
  ASSUME IInv, NEW t \in Tasks, PopByte(t)
  PROVE  L!Take(t) \/ UNCHANGED L!lineVars
<1>1. Types /\ Ring \in Rings /\ Ring' \in Rings
  BY PopRing DEF IInv, Types
<1>2. CASE UNCHANGED <<got, head>>
  <2>1. UNCHANGED <<fifo, got, buf, head, tail>>
    BY <1>2 DEF PopByte
  <2>2. Line' = Line
    BY <2>1 DEF Line, Used
  <2> QED BY <2>1, <2>2 DEF L!lineVars
<1>3. CASE ~UNCHANGED <<got, head>>
  <2>1. /\ head # tail
        /\ got' = [got EXCEPT ![t] = Append(@, buf[head])]
        /\ head' = Advance(head)
        /\ UNCHANGED <<fifo, buf, tail>>
    BY <1>3 DEF PopByte, HasInput
  <2>2. PICK r \in Rings, s \in Rings : r = Ring /\ s = Ring'
    BY <1>1
  <2>3. /\ r.head = head /\ r.tail = tail /\ r.buf = buf
        /\ s.head = Advance(head) /\ s.tail = tail /\ s.buf = buf
    BY <2>1, <2>2 DEF Ring
  <2>4. LineOf(r) # <<>> /\ Head(LineOf(r)) = buf[head] /\ LineOf(s) = Tail(LineOf(r))
    BY <2>1, <2>3, PopLine
  <2>5. Line = LineOf(r) /\ Line' = LineOf(s)
    BY <2>2, LineIsLineOf
  <2> QED BY <2>1, <2>4, <2>5 DEF L!Take
<1> QED BY <1>2, <1>3

\* An interrupt adds to the line, a pop takes its first byte, and no other step
\* touches it.
LEMMA LineStep == IInv /\ [Next]_vars => [L!LineNext]_(L!lineVars)
<1> SUFFICES ASSUME IInv, [Next]_vars PROVE [L!LineNext]_(L!lineVars)
  OBVIOUS
<1>1. ASSUME UNCHANGED ringVars PROVE Line' = Line
  BY <1>1 DEF Line, Used, ringVars
<1>2. ASSUME NEW t \in Tasks,
             \/ (\E n \in Lengths : Read(t, n))
             \/ WaitCheck(t) \/ WaitPush(t) \/ WaitPark(t) \/ WaitUnqueue(t)
      PROVE  UNCHANGED L!lineVars
  BY <1>1, <1>2 DEF Read, WaitCheck, WaitPush, WaitPark, WaitUnqueue, L!lineVars
<1>3. ASSUME NEW t \in Tasks, ReadReturn(t) PROVE L!Return(t)
  BY <1>1, <1>3 DEF ReadReturn, L!Return
<1>4. ASSUME NEW b \in Bytes, Receive(b) PROVE L!Come(b)
  BY <1>1, <1>4 DEF Receive, L!Come
<1>5. CASE UNCHANGED vars
  BY <1>1, <1>5 DEF vars, L!lineVars
<1>6. ASSUME NEW t \in Tasks, ReaderStep(t) PROVE [L!LineNext]_(L!lineVars)
  BY <1>2, <1>3, <1>6, PopIsTake DEF ReaderStep, L!LineNext
<1>7. CASE HandleExternal
  BY <1>7, ExternalIsArrival DEF L!LineNext
<1> QED BY <1>4, <1>5, <1>6, <1>7 DEF Next, L!LineNext

\* Console input is a bounded line: no byte overtakes another, is delivered twice or
\* overwrites one, and one is dropped only when CAP - 1 are waiting, for any ring,
\* any readers and bursts of any length.
THEOREM LineRefinement == Spec => ImplementsInputLine
<1>1. IInv /\ [Next]_vars => [L!LineNext]_(L!lineVars)
  BY LineStep
<1> QED BY <1>1, Invariance, LineInitial, PTL DEF Spec, ImplementsInputLine, L!LineSpec

=============================================================================

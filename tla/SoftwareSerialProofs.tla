----------------------- MODULE SoftwareSerialProofs -------------------------
(* Theorems about SoftwareSerial for every set of ports, speeds and bytes,   *)
(* every size of the ring and every bound.  HearInv says how far recv() is   *)
(* with a frame that the port hears from its start, tick by tick; it needs   *)
(* no assumption on the sketch.  WriteInv adds how far send() is with the    *)
(* byte on its way, and the peer with reading it; it holds for a sketch that *)
(* does what Careful says.                                                   *)
EXTENDS SoftwareSerial, TLAPS

-----------------------------------------------------------------------------
(* Bits, frames and rings.                                                   *)

Bits == {0, 1}

\* Sequences, as the provers need them.
LEMMA ElementOfSeq ==
    ASSUME NEW S, NEW s \in Seq(S), NEW n \in 1..Len(s) PROVE s[n] \in S
  OBVIOUS

LEMMA ConcatEmptySeq == ASSUME NEW S, NEW s \in Seq(S) PROVE s \o <<>> = s
  OBVIOUS

LEMMA AppendProperties ==
    ASSUME NEW S, NEW s \in Seq(S), NEW e \in S
    PROVE  /\ Append(s, e) \in Seq(S) /\ Len(Append(s, e)) = Len(s) + 1
           /\ \A i \in 1..Len(s) : Append(s, e)[i] = s[i]
           /\ Append(s, e)[Len(s) + 1] = e
  OBVIOUS

\* The rest of a sequence.
LEMMA TailProperties ==
    ASSUME NEW S, NEW s \in Seq(S), Len(s) >= 1
    PROVE  /\ Tail(s) \in Seq(S) /\ Len(Tail(s)) = Len(s) - 1
           /\ \A i \in 1..(Len(s) - 1) : Tail(s)[i] = s[i + 1]
  OBVIOUS

LEMMA SingleSeq == ASSUME NEW b \in Int PROVE <<>> \o <<b>> = <<b>>
  OBVIOUS

\* All but the last.
LEMMA FrontOf ==
    ASSUME NEW g \in Seq(Int), NEW b \in Int
    PROVE  SubSeq(Append(g, b), 1, Len(g)) = g
  <1>1. PICK w \in Seq(Int) : w = Append(g, b)  BY AppendProperties
  <1>2. Len(w) = Len(g) + 1 /\ \A i \in 1..Len(g) : w[i] = g[i]  BY <1>1, AppendProperties
  <1>3. PICK s : s = SubSeq(w, 1, Len(g))  OBVIOUS
  <1>4. s \in Seq(Int) /\ Len(s) = Len(g) /\ \A i \in 1..Len(g) : s[i] = w[i]
    BY <1>2, <1>3
  <1>5. s = g
    <2>1. \A i \in 1..Len(g) : s[i] = g[i]  BY <1>2, <1>4
    <2>2. PICK n \in Nat : n = Len(g)  OBVIOUS
    <2>3. s = [i \in 1..n |-> s[i]] /\ g = [i \in 1..n |-> g[i]]  BY <1>4, <2>2
    <2>4. [i \in 1..n |-> s[i]] = [i \in 1..n |-> g[i]]  BY <2>1, <2>2
    <2> QED  BY <2>3, <2>4
  <1> QED  BY <1>1, <1>3, <1>5

\* The powers of two of a byte.
LEMMA Powers ==
    /\ 2^0 = 1 /\ 2^1 = 2 /\ 2^2 = 4 /\ 2^3 = 8 /\ 2^4 = 16 /\ 2^5 = 32 /\ 2^6 = 64 /\ 2^7 = 128
  OBVIOUS

\* The bits of a byte.
LEMMA BitIs ==
    ASSUME NEW b \in 0..255
    PROVE  /\ \A i \in 0..7 : Bit(b, i) \in Bits
           /\ b = Bit(b, 0) + 2 * Bit(b, 1) + 4 * Bit(b, 2) + 8 * Bit(b, 3)
                  + 16 * Bit(b, 4) + 32 * Bit(b, 5) + 64 * Bit(b, 6) + 128 * Bit(b, 7)
  <1>1. /\ Bit(b, 0) = b % 2 /\ Bit(b, 1) = (b \div 2) % 2 /\ Bit(b, 2) = (b \div 4) % 2
        /\ Bit(b, 3) = (b \div 8) % 2 /\ Bit(b, 4) = (b \div 16) % 2 /\ Bit(b, 5) = (b \div 32) % 2
        /\ Bit(b, 6) = (b \div 64) % 2 /\ Bit(b, 7) = (b \div 128) % 2
    BY Powers DEF Bit
  <1>2. \A i \in 0..7 : i = 0 \/ i = 1 \/ i = 2 \/ i = 3 \/ i = 4 \/ i = 5 \/ i = 6 \/ i = 7
    OBVIOUS
  <1>3. b = (b % 2) + 2 * ((b \div 2) % 2) + 4 * ((b \div 4) % 2) + 8 * ((b \div 8) % 2)
            + 16 * ((b \div 16) % 2) + 32 * ((b \div 32) % 2) + 64 * ((b \div 64) % 2)
            + 128 * ((b \div 128) % 2)
    OBVIOUS
  <1>4. /\ Bit(b, 0) \in Bits /\ Bit(b, 1) \in Bits /\ Bit(b, 2) \in Bits /\ Bit(b, 3) \in Bits
        /\ Bit(b, 4) \in Bits /\ Bit(b, 5) \in Bits /\ Bit(b, 6) \in Bits /\ Bit(b, 7) \in Bits
    BY <1>1 DEF Bits
  <1> QED  BY <1>1, <1>2, <1>3, <1>4

\* A frame: the start bit, the byte's bits, the stop bit.
LEMMA FrameIs ==
    ASSUME NEW b \in 0..255
    PROVE  /\ Frame(b) \in Seq(Bits) /\ Len(Frame(b)) = 10
           /\ Frame(b)[1] = 0 /\ Frame(b)[10] = 1
           /\ \A i \in 1..8 : Frame(b)[i + 1] = Bit(b, i - 1)
           /\ \A i \in 1..10 : Frame(b)[i] \in Bits
  <1> DEFINE d == [i \in 1..8 |-> Bit(b, i - 1)]
  <1>1. \A i \in 1..8 : i - 1 \in 0..7 /\ Bit(b, i - 1) \in Bits
    <2>1. TAKE i \in 1..8
    <2>2. i - 1 \in 0..7  OBVIOUS
    <2> QED  BY <2>2, BitIs
  <1>2. d \in [1..8 -> Bits]  BY <1>1
  <1>3. d \in Seq(Bits) /\ Len(d) = 8  BY <1>2
  <1> HIDE DEF d
  <1>4. PICK a : a = <<0>> \o d  OBVIOUS
  <1>5. /\ a \in Seq(Bits) /\ Len(a) = 9 /\ a[1] = 0
        /\ \A i \in 1..8 : a[i + 1] = d[i]
    <2>1. PICK z : z = <<0>>  OBVIOUS
    <2>2. z \in Seq(Bits)  BY <2>1 DEF Bits
    <2>2a. Len(z) = 1 /\ z[1] = 0  BY <2>1
    <2>3. a = z \o d  BY <1>4, <2>1
    <2>3a. d \in Seq(Bits)  BY <1>3
    <2>4. /\ a \in Seq(Bits) /\ Len(a) = Len(z) + Len(d)
          /\ \A i \in 1..Len(z) : a[i] = z[i]
          /\ \A i \in 1..Len(d) : a[i + Len(z)] = d[i]
      BY <2>2, <2>3, <2>3a
    <2> QED  BY <1>3, <2>2a, <2>4
  <1>6. Frame(b) = a \o <<1>>  BY <1>4 DEF Frame, d
  <1>7. /\ Frame(b) \in Seq(Bits) /\ Len(Frame(b)) = 10 /\ Frame(b)[10] = 1
        /\ \A i \in 1..9 : Frame(b)[i] = a[i]
    <2>1. PICK z : z = <<1>>  OBVIOUS
    <2>2. z \in Seq(Bits)  BY <2>1 DEF Bits
    <2>2a. Len(z) = 1 /\ z[1] = 1  BY <2>1
    <2>3. Frame(b) = a \o z  BY <1>6, <2>1
    <2>3a. a \in Seq(Bits)  BY <1>5
    <2>4. /\ Frame(b) \in Seq(Bits) /\ Len(Frame(b)) = Len(a) + Len(z)
          /\ \A i \in 1..Len(a) : Frame(b)[i] = a[i]
          /\ \A i \in 1..Len(z) : Frame(b)[i + Len(a)] = z[i]
      BY <2>2, <2>3, <2>3a
    <2>5. 1 \in 1..Len(z) /\ 1 + Len(a) = 10  BY <1>5, <2>2a
    <2> QED  BY <1>5, <2>2a, <2>4, <2>5
  <1>8. \A i \in 1..8 : i + 1 \in 1..9 /\ d[i] = Bit(b, i - 1)  BY DEF d
  <1>9. \A i \in 1..10 : Frame(b)[i] \in Bits  BY <1>7, ElementOfSeq
  <1> QED  BY <1>5, <1>7, <1>8, <1>9

\* What the bits of a frame come to.
LEMMA ValueIs ==
    ASSUME NEW x \in Seq(Bits), Len(x) = 8
    PROVE  Value(x) = x[1] + 2 * x[2] + 4 * x[3] + 8 * x[4]
                      + 16 * x[5] + 32 * x[6] + 64 * x[7] + 128 * x[8]
  <1> DEFINE P(f) == f = [i \in 0..8 |-> IF i = 0 THEN 0 ELSE f[i - 1] + x[i] * 2^(i - 1)]
             s1 == x[1]
             s2 == s1 + 2 * x[2]
             s3 == s2 + 4 * x[3]
             s4 == s3 + 8 * x[4]
             s5 == s4 + 16 * x[5]
             s6 == s5 + 32 * x[6]
             s7 == s6 + 64 * x[7]
             s8 == s7 + 128 * x[8]
             g == [i \in 0..8 |-> IF i = 0 THEN 0 ELSE IF i = 1 THEN s1 ELSE IF i = 2 THEN s2
                     ELSE IF i = 3 THEN s3 ELSE IF i = 4 THEN s4 ELSE IF i = 5 THEN s5
                     ELSE IF i = 6 THEN s6 ELSE IF i = 7 THEN s7 ELSE s8]
             h == CHOOSE f : P(f)
  <1>1. Value(x) = h[8]  BY DEF Value
  <1>2. \A i \in 1..8 : x[i] \in Bits /\ x[i] \in Int
    <2>1. \A i \in 1..8 : x[i] \in Bits  BY ElementOfSeq
    <2> QED  BY <2>1 DEF Bits
  <1>3. \A i \in 0..8 : i = 0 \/ i = 1 \/ i = 2 \/ i = 3 \/ i = 4 \/ i = 5 \/ i = 6 \/ i = 7 \/ i = 8
    OBVIOUS
  <1>4. \A i \in 0..8 : g[i] = IF i = 0 THEN 0 ELSE g[i - 1] + x[i] * 2^(i - 1)
    <2>1. /\ g[0] = 0 /\ g[1] = s1 /\ g[2] = s2 /\ g[3] = s3 /\ g[4] = s4 /\ g[5] = s5
          /\ g[6] = s6 /\ g[7] = s7 /\ g[8] = s8
      OBVIOUS
    <2> HIDE DEF g
    <2>2. g[1] = g[0] + x[1] * 2^0  BY <1>2, <2>1, Powers, SMTT(30)
    <2>3. g[2] = g[1] + x[2] * 2^1  BY <1>2, <2>1, Powers
    <2>4. g[3] = g[2] + x[3] * 2^2  BY <1>2, <2>1, Powers
    <2>5. g[4] = g[3] + x[4] * 2^3  BY <1>2, <2>1, Powers
    <2>6. g[5] = g[4] + x[5] * 2^4  BY <1>2, <2>1, Powers
    <2>7. g[6] = g[5] + x[6] * 2^5  BY <1>2, <2>1, Powers
    <2>8. g[7] = g[6] + x[7] * 2^6  BY <1>2, <2>1, Powers
    <2>9. g[8] = g[7] + x[8] * 2^7  BY <1>2, <2>1, Powers
    <2> HIDE DEF s1, s2, s3, s4, s5, s6, s7, s8
    <2>10. TAKE i \in 0..8
    <2>11. CASE i = 0  BY <2>1, <2>11
    <2>12. CASE i = 1  BY <2>2, <2>12
    <2>13. CASE i = 2  BY <2>3, <2>13
    <2>14. CASE i = 3  BY <2>4, <2>14
    <2>15. CASE i = 4  BY <2>5, <2>15
    <2>16. CASE i = 5  BY <2>6, <2>16
    <2>17. CASE i = 6  BY <2>7, <2>17
    <2>18. CASE i = 7  BY <2>8, <2>18
    <2>19. CASE i = 8  BY <2>9, <2>19
    <2> QED  BY <1>3, <2>11, <2>12, <2>13, <2>14, <2>15, <2>16, <2>17, <2>18, <2>19
  <1>5. P(g)
    <2>1. g = [i \in 0..8 |-> g[i]]  OBVIOUS
    <2> HIDE DEF g
    <2> QED  BY <1>4, <2>1
  <1>6. P(h)
    <2> HIDE DEF P, g
    <2> QED  BY <1>5
  <1> HIDE DEF h
  <1>7. \A i \in 0..8 : h[i] = IF i = 0 THEN 0 ELSE h[i - 1] + x[i] * 2^(i - 1)
    BY <1>6
  <1>8. /\ h[0] = 0 /\ h[1] = h[0] + x[1] /\ h[2] = h[1] + x[2] * 2 /\ h[3] = h[2] + x[3] * 4
        /\ h[4] = h[3] + x[4] * 8 /\ h[5] = h[4] + x[5] * 16 /\ h[6] = h[5] + x[6] * 32
        /\ h[7] = h[6] + x[7] * 64 /\ h[8] = h[7] + x[8] * 128
    <2>1. h[0] = 0  BY <1>7
    <2>2. h[1] = h[0] + x[1] * 2^0  BY <1>7
    <2>3. h[2] = h[1] + x[2] * 2^1  BY <1>7
    <2>4. h[3] = h[2] + x[3] * 2^2  BY <1>7
    <2>5. h[4] = h[3] + x[4] * 2^3  BY <1>7
    <2>6. h[5] = h[4] + x[5] * 2^4  BY <1>7
    <2>7. h[6] = h[5] + x[6] * 2^5  BY <1>7
    <2>8. h[7] = h[6] + x[7] * 2^6  BY <1>7
    <2>9. h[8] = h[7] + x[8] * 2^7  BY <1>7
    <2> QED  BY <1>2, <2>1, <2>2, <2>3, <2>4, <2>5, <2>6, <2>7, <2>8, <2>9, Powers
  <1> QED  BY <1>1, <1>2, <1>8

\* The bits of a frame make up the byte it was made from.
LEMMA ValueOfFrame ==
    ASSUME NEW b \in 0..255, NEW x \in Seq(Bits), Len(x) = 8, \A i \in 1..8 : x[i] = Frame(b)[i + 1]
    PROVE  Value(x) = b
  <1>1. \A i \in 1..8 : x[i] = Bit(b, i - 1)  BY FrameIs
  <1>2. /\ x[1] = Bit(b, 0) /\ x[2] = Bit(b, 1) /\ x[3] = Bit(b, 2) /\ x[4] = Bit(b, 3)
        /\ x[5] = Bit(b, 4) /\ x[6] = Bit(b, 5) /\ x[7] = Bit(b, 6) /\ x[8] = Bit(b, 7)
    BY <1>1
  <1>3. PICK v : v = Value(x)  OBVIOUS
  <1>4. v = x[1] + 2 * x[2] + 4 * x[3] + 8 * x[4] + 16 * x[5] + 32 * x[6] + 64 * x[7] + 128 * x[8]
    BY <1>3, ValueIs
  <1>5. b = x[1] + 2 * x[2] + 4 * x[3] + 8 * x[4] + 16 * x[5] + 32 * x[6] + 64 * x[7] + 128 * x[8]
    <2>1. b = Bit(b, 0) + 2 * Bit(b, 1) + 4 * Bit(b, 2) + 8 * Bit(b, 3)
              + 16 * Bit(b, 4) + 32 * Bit(b, 5) + 64 * Bit(b, 6) + 128 * Bit(b, 7)
      BY BitIs
    <2> QED  BY <1>2, <2>1
  <1> QED  BY <1>3, <1>4, <1>5

\* A modulus of less than twice the size.
LEMMA Wrap ==
    ASSUME NEW n \in Nat \ {0}, NEW a \in Nat, a < 2 * n
    PROVE  a % n = IF a < n THEN a ELSE a - n
  OBVIOUS

\* How many slots lie between head and tail.
Used(head, tail) == (tail + RingSize - head) % RingSize

\* What the indices of a ring come to.
LEMMA UsedIs ==
    ASSUME NEW head \in 0..RingSize - 1, NEW tail \in 0..RingSize - 1
    PROVE  /\ Used(head, tail) = IF tail >= head THEN tail - head ELSE tail + RingSize - head
           /\ Used(head, tail) \in 0..RingSize - 1
           /\ (tail + 1) % RingSize = IF tail = RingSize - 1 THEN 0 ELSE tail + 1
           /\ (tail + 1) % RingSize \in 0..RingSize - 1
           /\ \A i \in 1..RingSize : /\ (head + i - 1) % RingSize =
                                         IF head + i - 1 < RingSize THEN head + i - 1 ELSE head + i - 1 - RingSize
                                     /\ (head + i - 1) % RingSize \in 0..RingSize - 1
  <1>1. PICK n : n = RingSize  OBVIOUS
  <1>2. n \in Nat \ {0} /\ n >= 2 /\ head \in 0..n - 1 /\ tail \in 0..n - 1
    BY <1>1, SoftwareSerialAssumption
  <1>3. (tail + n - head) % n = IF tail >= head THEN tail - head ELSE tail + n - head
    <2>1. PICK a : a = tail + n - head  OBVIOUS
    <2>2. a \in Nat /\ a < 2 * n  BY <1>2, <2>1
    <2>3. a % n = IF a < n THEN a ELSE a - n  BY <1>2, <2>2, Wrap
    <2> QED  BY <1>2, <2>1, <2>3
  <1>4. (tail + 1) % n = IF tail = n - 1 THEN 0 ELSE tail + 1
    <2>1. PICK a : a = tail + 1  OBVIOUS
    <2>2. a \in Nat /\ a < 2 * n  BY <1>2, <2>1
    <2>3. a % n = IF a < n THEN a ELSE a - n  BY <1>2, <2>2, Wrap
    <2> QED  BY <1>2, <2>1, <2>3
  <1>5. ASSUME NEW i \in 1..n
        PROVE  (head + i - 1) % n = IF head + i - 1 < n THEN head + i - 1 ELSE head + i - 1 - n
    <2>1. PICK a : a = head + i - 1  OBVIOUS
    <2>2. a \in Nat /\ a < 2 * n  BY <1>2, <2>1
    <2>3. a % n = IF a < n THEN a ELSE a - n  BY <1>2, <2>2, Wrap
    <2> QED  BY <1>2, <2>1, <2>3
  <1>6. \A i \in 1..n : (head + i - 1) % n \in 0..n - 1
    <2>1. TAKE i \in 1..n
    <2>2. (head + i - 1) % n = IF head + i - 1 < n THEN head + i - 1 ELSE head + i - 1 - n  BY <1>5
    <2> QED  BY <1>2, <2>2
  <1>7. (tail + n - head) % n \in 0..n - 1 /\ (tail + 1) % n \in 0..n - 1  BY <1>2, <1>3, <1>4
  <1> QED  BY <1>1, <1>3, <1>4, <1>5, <1>6, <1>7 DEF Used

\* A byte more, at tail, when the ring is not full.
LEMMA RingAdds ==
    ASSUME NEW head \in 0..RingSize - 1, NEW tail \in 0..RingSize - 1,
           (tail + 1) % RingSize # head
    PROVE  /\ Used(head, (tail + 1) % RingSize) = Used(head, tail) + 1
           /\ \A i \in 1..Used(head, tail) : (head + i - 1) % RingSize # tail
           /\ (head + (Used(head, tail) + 1) - 1) % RingSize = tail
  <1>1. PICK n, c, next : n = RingSize /\ c = Used(head, tail) /\ next = (tail + 1) % RingSize
    OBVIOUS
  <1>2. n \in Nat /\ n >= 2 /\ head \in 0..n - 1 /\ tail \in 0..n - 1
    BY <1>1, SoftwareSerialAssumption
  <1>3. c = (IF tail >= head THEN tail - head ELSE tail + n - head) /\ c \in 0..n - 1  BY <1>1, UsedIs
  <1>4. next = (IF tail = n - 1 THEN 0 ELSE tail + 1) /\ next \in 0..n - 1 /\ next # head
    BY <1>1, UsedIs
  <1>5. Used(head, next) = IF next >= head THEN next - head ELSE next + n - head
    BY <1>1, <1>4, UsedIs
  <1>6. Used(head, next) = c + 1  BY <1>2, <1>3, <1>4, <1>5
  <1>7. \A i \in 1..n :
          (head + i - 1) % n = IF head + i - 1 < n THEN head + i - 1 ELSE head + i - 1 - n
    BY <1>1, UsedIs
  <1>8. ASSUME NEW i \in 1..c PROVE (head + i - 1) % n # tail
    <2>1. i \in 1..n  BY <1>2, <1>3
    <2>2. PICK s : s = (head + i - 1) % n  OBVIOUS
    <2>3. s = IF head + i - 1 < n THEN head + i - 1 ELSE head + i - 1 - n  BY <1>7, <2>1, <2>2
    <2>4. s # tail  BY <1>2, <1>3, <2>3
    <2> QED  BY <2>2, <2>4
  <1>9. (head + (c + 1) - 1) % n = tail
    <2>0. c + 1 \in 1..n  BY <1>2, <1>3
    <2>1. PICK i \in 1..n : i = c + 1  BY <2>0
    <2>2. (head + i - 1) % n = IF head + i - 1 < n THEN head + i - 1 ELSE head + i - 1 - n  BY <1>7
    <2>3. (head + i - 1) % n = tail  BY <1>2, <1>3, <2>1, <2>2
    <2> QED  BY <2>1, <2>3
  <1> QED  BY <1>1, <1>6, <1>8, <1>9

\* A byte less, at head, when the ring is not empty.
LEMMA RingTakes ==
    ASSUME NEW head \in 0..RingSize - 1, NEW tail \in 0..RingSize - 1, head # tail
    PROVE  /\ Used(head, tail) >= 1
           /\ Used((head + 1) % RingSize, tail) = Used(head, tail) - 1
           /\ \A i \in 1..(Used(head, tail) - 1) :
                (((head + 1) % RingSize) + i - 1) % RingSize = (head + (i + 1) - 1) % RingSize
  <1>1. PICK n, c, next : n = RingSize /\ c = Used(head, tail) /\ next = (head + 1) % RingSize
    OBVIOUS
  <1>2. n \in Nat /\ n >= 2 /\ head \in 0..n - 1 /\ tail \in 0..n - 1
    BY <1>1, SoftwareSerialAssumption
  <1>3. c = (IF tail >= head THEN tail - head ELSE tail + n - head) /\ c \in 0..n - 1  BY <1>1, UsedIs
  <1>4. next = (IF head = n - 1 THEN 0 ELSE head + 1) /\ next \in 0..n - 1  BY <1>1, UsedIs
  <1>5. Used(next, tail) = IF tail >= next THEN tail - next ELSE tail + n - next
    BY <1>1, <1>4, UsedIs
  <1>6. c >= 1 /\ Used(next, tail) = c - 1  BY <1>2, <1>3, <1>4, <1>5
  <1>7. \A h \in 0..n - 1 : \A i \in 1..n :
          (h + i - 1) % n = IF h + i - 1 < n THEN h + i - 1 ELSE h + i - 1 - n
    BY <1>1, UsedIs
  <1>8. ASSUME NEW i \in 1..(c - 1) PROVE (next + i - 1) % n = (head + (i + 1) - 1) % n
    <2>1. i \in 1..n  BY <1>2, <1>3
    <2>2. PICK k \in 1..n : k = i + 1  BY <1>2, <1>3
    <2>3. (next + i - 1) % n = IF next + i - 1 < n THEN next + i - 1 ELSE next + i - 1 - n
      BY <1>4, <1>7, <2>1
    <2>4. (head + k - 1) % n = IF head + k - 1 < n THEN head + k - 1 ELSE head + k - 1 - n
      BY <1>2, <1>7
    <2>5. (next + i - 1) % n = (head + k - 1) % n  BY <1>2, <1>4, <2>1, <2>2, <2>3, <2>4
    <2> QED  BY <2>2, <2>5
  <1> QED  BY <1>1, <1>6, <1>8

-----------------------------------------------------------------------------
(* What the listening port hears.                                            *)

Someone   == Ports \cup {NoPort}
PortType  == [speed : Nat, pending : BOOLEAN, overflow : BOOLEAN, head : 0..RingSize - 1,
              tail : 0..RingSize - 1, buffer : [0..RingSize - 1 -> Int]]
FrameType == [byte : Bytes \cup {-1}, at : Nat, slip : {-1, 0, 1}, whole : BOOLEAN,
              took : Seq(Int), lost : BOOLEAN]
CallNames == {"none", "listen", "arm", "stop", "write", "go"}

CallType ==
    /\ pc \in [call : CallNames, port : Someone, byte : Bytes \cup {-1}]
    /\ pc.call # "none" => pc.port \in Ports
    /\ pc.call = "arm" => in = NoPort

RxType ==
    /\ rxBit \in -1..8 /\ rxTick \in 0..4
    /\ rxBit = -1 => rxTick <= 1
    /\ rxBit # -1 => rxBuf \in Seq(Bits) /\ Len(rxBuf) = rxBit

\* Frames on the lines are at the speed of the port that listens.
FramesIn ==
    \A p \in Ports : peer[p].byte # -1 =>
        Hears(p) /\ peer[p].at <= 30 /\ (peer[p].at >= 5 => peer[p].at - peer[p].slip < 30)

HearType ==
    /\ port \in [Ports -> PortType] /\ unread \in [Ports -> Seq(Int)]
    /\ peer \in [Ports -> FrameType] /\ in \in Someone
    /\ CallType /\ RxType /\ FramesIn

\* How far recv() is with a frame that the port hears from its start.
Heard(p) ==
    LET f == peer[p]
    IN  /\ f.lost => port[p].overflow
        /\ f.at = 0 => rxBit = -1 /\ f.took = <<>> /\ ~f.lost
        /\ f.at \in 1..28 =>
             /\ rxBit # -1 /\ f.at = 3 * rxBit + 5 - rxTick
             /\ rxTick >= 1 /\ (rxBit # 0 => rxTick <= 3)
             /\ \A i \in 1..rxBit : rxBuf[i] = Frame(f.byte)[i + 1]
             /\ f.took = <<>> /\ ~f.lost
        /\ f.at > 28 => rxBit = -1 /\ (f.took = <<f.byte>> \/ f.lost)

HearInv == HearType /\ \A p \in Ports : peer[p].byte # -1 /\ peer[p].whole => Heard(p)

\* No byte is -1, which stands for none.
LEMMA BytesAre == Bytes \subseteq 0..255 /\ -1 \notin Bytes
  BY SoftwareSerialAssumption

\* The level on the line of a port, as recv() makes it out.
LEMMA LineIs ==
    ASSUME HearType, NEW p \in Ports
    PROVE  /\ Invert(p, LineLevel(p)) \in Bits
           /\ peer[p].byte = -1 => Invert(p, LineLevel(p)) = 1
           /\ peer[p].byte # -1 =>
                /\ Position(peer[p]) \in 0..29
                /\ Invert(p, LineLevel(p)) = Frame(peer[p].byte)[Position(peer[p]) \div 3 + 1]
  <1>1. peer[p] \in FrameType  BY DEF HearType
  <1>2. CASE peer[p].byte = -1  BY <1>2 DEF LineLevel, Invert, Bits
  <1>3. CASE peer[p].byte # -1
    <2>1. PICK b \in 0..255 : b = peer[p].byte  BY <1>1, <1>3, BytesAre DEF FrameType
    <2>2. PICK i : i = Position(peer[p])  OBVIOUS
    <2>3. i \in 0..29
      <3>1. peer[p].at \in Nat /\ peer[p].slip \in {-1, 0, 1}  BY <1>1 DEF FrameType
      <3>2. peer[p].at >= 5 => peer[p].at - peer[p].slip < 30  BY <1>3 DEF HearType, FramesIn
      <3> QED  BY <2>2, <3>1, <3>2 DEF Position
    <2>4. i \div 3 + 1 \in 1..10  BY <2>3
    <2>5. PICK v \in Bits : v = Frame(b)[i \div 3 + 1]  BY <2>4, FrameIs
    <2>6. LineLevel(p) = Invert(p, v)  BY <1>3, <2>1, <2>2, <2>5 DEF LineLevel
    <2>7. Invert(p, LineLevel(p)) = v  BY <2>6 DEF Invert, Bits
    <2> QED  BY <1>3, <2>1, <2>2, <2>3, <2>5, <2>7
  <1> QED  BY <1>2, <1>3

\* The element a sequence has grown by.
LEMMA LastOf ==
    ASSUME NEW t \in Seq(Int), NEW n \in Nat, Len(t) = n + 1
    PROVE  SubSeq(t, n + 1, Len(t)) = <<t[n + 1]>>
  <1>1. PICK k \in 1..Len(t) : k = n + 1  OBVIOUS
  <1>2. PICK u : u = SubSeq(t, k, k)  OBVIOUS
  <1>3. Len(u) = 1 /\ u[1] = t[k] /\ u \in Seq(Int)  BY <1>1, <1>2
  <1>4. u = <<t[k]>>  BY <1>3
  <1> QED  BY <1>1, <1>2, <1>4

\* What recv() has stored.
LEMMA StoredIs ==
    ASSUME unread \in [Ports -> Seq(Int)], NEW p \in Ports
    PROVE  /\ unread'[p] = unread[p] => Stored(p) = <<>>
           /\ \A v \in Int : unread'[p] = Append(unread[p], v) => Stored(p) = <<v>>
  <1>1. PICK s \in Seq(Int) : s = unread[p]  OBVIOUS
  <1>2. SubSeq(s, Len(s) + 1, Len(s)) = <<>>  BY <1>1
  <1>3. ASSUME NEW v \in Int, unread'[p] = Append(unread[p], v) PROVE Stored(p) = <<v>>
    <2>1. PICK t : t = Append(s, v)  OBVIOUS
    <2>2. Len(t) = Len(s) + 1 /\ t[Len(s) + 1] = v /\ t \in Seq(Int)  BY <1>1, <2>1
    <2>3. SubSeq(t, Len(s) + 1, Len(t)) = <<v>>  BY <1>1, <2>2, LastOf
    <2> QED  BY <1>1, <1>3, <2>1, <2>3 DEF Stored
  <1>4. unread'[p] = unread[p] => Stored(p) = <<>>  BY <1>1, <1>2 DEF Stored
  <1> QED  BY <1>3, <1>4

\* A byte is a number.
LEMMA ValueInt == ASSUME NEW x \in Seq(Bits), Len(x) = 8 PROVE Value(x) \in Int
  <1>1. PICK v : v = Value(x)  OBVIOUS
  <1>2. \A i \in 1..8 : x[i] \in Int
    <2>1. \A i \in 1..8 : x[i] \in Bits  BY ElementOfSeq
    <2> QED  BY <2>1 DEF Bits
  <1>3. v = x[1] + 2 * x[2] + 4 * x[3] + 8 * x[4] + 16 * x[5] + 32 * x[6] + 64 * x[7] + 128 * x[8]
    BY <1>1, ValueIs
  <1>4. /\ x[1] \in Int /\ x[2] \in Int /\ x[3] \in Int /\ x[4] \in Int
        /\ x[5] \in Int /\ x[6] \in Int /\ x[7] \in Int /\ x[8] \in Int
    BY <1>2
  <1>5. v \in Int  BY <1>3, <1>4, SMTT(30)
  <1> QED  BY <1>1, <1>5

\* A byte that arrives is stored behind those that wait, or dropped and the
\* overflow noted; of the other ports nothing changes.
LEMMA StoreIs ==
    ASSUME HearType, RingHoldsUnread, NEW p \in Ports, Store(p), rxBit = 8
    PROVE  /\ port' \in [Ports -> PortType] /\ unread' \in [Ports -> Seq(Int)]
           /\ RingHoldsUnread'
           /\ \A q \in Ports : port'[q].speed = port[q].speed /\ (port[q].overflow => port'[q].overflow)
           /\ \/ unread'[p] = Append(unread[p], Value(rxBuf))
              \/ unread'[p] = unread[p] /\ port'[p].overflow
           /\ Value(rxBuf) \in Int
  <1>1. PICK v \in Int : v = Value(rxBuf)  BY ValueInt DEF HearType, RxType
  <1>2. /\ port \in [Ports -> PortType] /\ unread \in [Ports -> Seq(Int)] /\ port[p] \in PortType
    BY DEF HearType
  <1>3. PICK head \in 0..RingSize - 1, tail \in 0..RingSize - 1 : head = port[p].head /\ tail = port[p].tail
    <2>1. port[p].head \in 0..RingSize - 1 /\ port[p].tail \in 0..RingSize - 1  BY <1>2 DEF PortType
    <2> QED  BY <2>1
  <1>4. PICK next \in 0..RingSize - 1 : next = (tail + 1) % RingSize  BY UsedIs
  <1>5. CASE next # head
    <2>1. /\ port' = [port EXCEPT ![p].buffer[tail] = v, ![p].tail = next]
          /\ unread' = [unread EXCEPT ![p] = Append(@, v)]
      BY <1>1, <1>3, <1>4, <1>5 DEF Store
    <2>2. /\ port'[p].head = head /\ port'[p].tail = next /\ port'[p].speed = port[p].speed
          /\ port'[p].overflow = port[p].overflow
          /\ port'[p].buffer = [port[p].buffer EXCEPT ![tail] = v]
          /\ port'[p] \in PortType
          /\ \A q \in Ports : q # p => port'[q] = port[q]
          /\ port' \in [Ports -> PortType]
      BY <1>2, <1>3, <2>1 DEF PortType
    <2>3. /\ unread' \in [Ports -> Seq(Int)] /\ unread'[p] = Append(unread[p], v)
          /\ \A q \in Ports : q # p => unread'[q] = unread[q]
      BY <1>2, <2>1
    <2>4. PICK s \in Seq(Int) : s = unread[p]  BY <1>2
    <2>5. Len(s) = Used(head, tail) /\ Len(s) \in Nat
      BY <1>3, <2>4 DEF RingHoldsUnread, Available, Used
    <2>6. \A i \in 1..Len(s) : s[i] = port[p].buffer[(head + i - 1) % RingSize]
      BY <1>3, <2>4 DEF RingHoldsUnread
    <2>7. /\ Used(head, next) = Len(s) + 1
          /\ \A i \in 1..Len(s) : (head + i - 1) % RingSize # tail
          /\ (head + (Len(s) + 1) - 1) % RingSize = tail
      BY <1>4, <1>5, <2>5, RingAdds
    <2>8. PICK b : b = port[p].buffer  OBVIOUS
    <2>9. b \in [0..RingSize - 1 -> Int]  BY <1>2, <2>8 DEF PortType
    <2>10. PICK c : c = port'[p].buffer  OBVIOUS
    <2>11. c = [b EXCEPT ![tail] = v]  BY <2>2, <2>8, <2>10
    <2>11a. v \in Int /\ s \in Seq(Int)  BY <1>1, <2>4
    <2>11b. Append(s, v) \in Seq(Int)  BY <2>11a
    <2>12. PICK t \in Seq(Int) : t = Append(s, v)  BY <2>11b
    <2>13. Len(t) = Used(head, next)  BY <2>7, <2>12
    <2>14. ASSUME NEW i \in 1..Len(t) PROVE t[i] = c[(head + i - 1) % RingSize]
      <3>1. CASE i \in 1..Len(s)
        <4>1. PICK k : k = (head + i - 1) % RingSize  OBVIOUS
        <4>2. Len(s) <= RingSize  BY <2>5, UsedIs, SoftwareSerialAssumption
        <4>3. i \in 1..RingSize  BY <2>5, <3>1, <4>2, SoftwareSerialAssumption
        <4>4. k \in 0..RingSize - 1  BY <4>1, <4>3, UsedIs
        <4>5. k # tail  BY <2>7, <3>1, <4>1
        <4>6. c[k] = b[k]  BY <2>9, <2>11, <4>4, <4>5
        <4>7. t[i] = s[i]  BY <2>12, <3>1
        <4> QED  BY <2>6, <2>8, <3>1, <4>1, <4>6, <4>7
      <3>2. CASE i = Len(s) + 1
        <4>1. t[i] = v  BY <2>12, <3>2
        <4>2. c[tail] = v  BY <2>9, <2>11
        <4> QED  BY <2>7, <3>2, <4>1, <4>2
      <3>3. Len(t) = Len(s) + 1  BY <2>12
      <3> QED  BY <3>1, <3>2, <3>3
    <2>15. /\ Len(unread'[p]) = Available(p)'
           /\ \A i \in 1..Len(unread'[p]) :
                unread'[p][i] = port'[p].buffer[(port'[p].head + i - 1) % RingSize]
      BY <2>2, <2>3, <2>4, <2>10, <2>12, <2>13, <2>14 DEF Available, Used
    <2>16. RingHoldsUnread'
      <3>1. SUFFICES ASSUME NEW q \in Ports
                     PROVE  /\ Len(unread'[q]) = Available(q)'
                            /\ \A i \in 1..Len(unread'[q]) :
                                 unread'[q][i] = port'[q].buffer[(port'[q].head + i - 1) % RingSize]
        BY DEF RingHoldsUnread
      <3>2. CASE q # p
        <4>1. port'[q] = port[q] /\ unread'[q] = unread[q]  BY <2>2, <2>3, <3>2
        <4>2. Len(unread[q]) = Available(q)  BY DEF RingHoldsUnread
        <4>3. Len(unread'[q]) = Available(q)'  BY <4>1, <4>2 DEF Available
        <4> QED  BY <4>1, <4>3 DEF RingHoldsUnread
      <3> QED  BY <2>15, <3>2
    <2> QED  BY <1>1, <2>2, <2>3, <2>16
  <1>6. CASE next = head
    <2>1. port' = [port EXCEPT ![p].overflow = TRUE] /\ unread' = unread
      BY <1>1, <1>3, <1>4, <1>6 DEF Store
    <2>2. /\ port' \in [Ports -> PortType] /\ port'[p].overflow
          /\ \A q \in Ports : /\ port'[q].head = port[q].head /\ port'[q].tail = port[q].tail
                              /\ port'[q].buffer = port[q].buffer /\ port'[q].speed = port[q].speed
                              /\ port[q].overflow => port'[q].overflow
      BY <1>2, <2>1 DEF PortType
    <2>3. RingHoldsUnread'  BY <2>1, <2>2 DEF RingHoldsUnread, Available
    <2> QED  BY <1>1, <1>2, <2>1, <2>2, <2>3
  <1> QED  BY <1>5, <1>6

\* recv() keeps its own state and the ring in order.
LEMMA RecvIs ==
    ASSUME HearType, RingHoldsUnread, NEW p \in Ports, Recv(p)
    PROVE  /\ RxType' /\ RingHoldsUnread'
           /\ port' \in [Ports -> PortType] /\ unread' \in [Ports -> Seq(Int)]
           /\ \A q \in Ports : port'[q].speed = port[q].speed /\ (port[q].overflow => port'[q].overflow)
           /\ \/ ~(rxBit = 8 /\ rxTick <= 1) /\ unread'[p] = unread[p]
              \/ /\ rxBit = 8 /\ rxTick <= 1
                 /\ \/ Invert(p, LineLevel(p)) = 1 /\ unread'[p] = Append(unread[p], Value(rxBuf))
                    \/ unread'[p] = unread[p] /\ (Invert(p, LineLevel(p)) = 1 => port'[p].overflow)
           /\ Value(rxBuf) \in Int \/ rxBit # 8
  <1>1. PICK bit \in Bits : bit = Invert(p, LineLevel(p))  BY LineIs
  <1>2. /\ rxBit \in -1..8 /\ rxTick \in 0..4 /\ (rxBit = -1 => rxTick <= 1)
        /\ rxBit # -1 => rxBuf \in Seq(Bits) /\ Len(rxBuf) = rxBit
        /\ port \in [Ports -> PortType] /\ unread \in [Ports -> Seq(Int)]
    BY DEF HearType, RxType
  <1>3. rxBit = 8 => Value(rxBuf) \in Int  BY <1>2, ValueInt
  <1>4. UNCHANGED <<port, unread>> => RingHoldsUnread'  BY DEF RingHoldsUnread, Available
  <1>5. CASE rxTick > 1
    <2>1. rxTick' = rxTick - 1 /\ UNCHANGED <<rxBit, rxBuf, port, unread>>  BY <1>5 DEF Recv
    <2>2. RxType'  BY <1>2, <1>5, <2>1 DEF RxType
    <2> QED  BY <1>2, <1>3, <1>4, <1>5, <2>1, <2>2
  <1>6. CASE ~(rxTick > 1) /\ rxBit = -1
    <2>1. /\ rxTick' = (IF bit = 0 THEN 4 ELSE 1) /\ rxBit' = (IF bit = 0 THEN 0 ELSE -1)
          /\ rxBuf' = (IF bit = 0 THEN <<>> ELSE rxBuf) /\ UNCHANGED <<port, unread>>
      BY <1>1, <1>6 DEF Recv, FirstWait, OVERSAMPLE
    <2>2. RxType'  BY <2>1 DEF RxType, Bits
    <2> QED  BY <1>2, <1>3, <1>4, <1>6, <2>1, <2>2
  <1>7. CASE ~(rxTick > 1) /\ rxBit = 8
    <2>1. /\ rxTick' = 1 /\ rxBit' = -1
          /\ IF bit = 1 THEN Store(p) ELSE UNCHANGED <<port, unread>>
      BY <1>1, <1>7 DEF Recv
    <2>2. RxType'  BY <2>1 DEF RxType
    <2>3. CASE bit = 1
      <3>1. Store(p)  BY <2>1, <2>3
      <3> QED  BY <1>1, <1>2, <1>7, <2>2, <2>3, <3>1, StoreIs
    <2>4. CASE bit # 1
      <3>1. UNCHANGED <<port, unread>>  BY <2>1, <2>4
      <3> QED  BY <1>1, <1>2, <1>3, <1>4, <1>7, <2>2, <2>4, <3>1
    <2> QED  BY <2>3, <2>4
  <1>8. CASE ~(rxTick > 1) /\ rxBit \notin {-1, 8}
    <2>1. /\ rxTick' = 3 /\ rxBit' = rxBit + 1 /\ rxBuf' = Append(rxBuf, bit)
          /\ UNCHANGED <<port, unread>>
      BY <1>1, <1>2, <1>8 DEF Recv, OVERSAMPLE
    <2>2. PICK s \in Seq(Bits) : s = rxBuf  BY <1>2, <1>8
    <2>3. Append(s, bit) \in Seq(Bits) /\ Len(Append(s, bit)) = Len(s) + 1  BY <1>1, <2>2, AppendProperties
    <2>4. RxType'
      <3>1. rxBuf' \in Seq(Bits) /\ Len(rxBuf') = rxBit'  BY <1>2, <1>8, <2>1, <2>2, <2>3
      <3> QED  BY <1>2, <1>8, <2>1, <3>1 DEF RxType
    <2> QED  BY <1>2, <1>3, <1>4, <1>8, <2>1, <2>4
  <1> QED  BY <1>5, <1>6, <1>7, <1>8

\* How recv() goes on with a frame it hears from its start.
LEMMA HeardGoesOn ==
    ASSUME HearInv, NEW p \in Ports, Recv(p), peer[p].byte # -1, peer[p].whole
    PROVE  LET f == peer[p]
           IN  /\ f.at = 0 => rxBit' = 0 /\ rxTick' = 4
               /\ f.at \in 1..27 =>
                    /\ rxBit' # -1 /\ f.at + 1 = 3 * rxBit' + 5 - rxTick'
                    /\ rxTick' >= 1 /\ (rxBit' # 0 => rxTick' <= 3)
                    /\ \A i \in 1..rxBit' : rxBuf'[i] = Frame(f.byte)[i + 1]
               /\ f.at < 28 => ~(rxBit = 8 /\ rxTick <= 1)
               /\ f.at = 28 => /\ rxBit = 8 /\ rxTick <= 1 /\ rxBit' = -1
                               /\ Invert(p, LineLevel(p)) = 1 /\ Value(rxBuf) = f.byte
               /\ f.at > 28 => rxBit = -1 /\ rxBit' = -1
  <1>1. PICK f : f = peer[p]  OBVIOUS
  <1>2. /\ f.byte \in 0..255 /\ f.at \in 0..30 /\ f.slip \in {-1, 0, 1}
        /\ f.at >= 5 => f.at - f.slip < 30
    <2>1. f \in FrameType  BY <1>1 DEF HearInv, HearType
    <2>2. f.at <= 30 /\ (f.at >= 5 => f.at - f.slip < 30)  BY <1>1 DEF HearInv, HearType, FramesIn
    <2>3. f.byte \in Bytes \cup {-1} /\ f.at \in Nat /\ f.slip \in {-1, 0, 1}
      BY <2>1 DEF FrameType
    <2>4. f.byte \in 0..255  BY <1>1, <2>3, BytesAre
    <2>5. f.at \in 0..30  BY <2>2, <2>3
    <2> QED  BY <2>2, <2>3, <2>4, <2>5
  <1>3. PICK b \in 0..255 : b = f.byte  BY <1>2
  <1>4. PICK at \in 0..30, slip \in {-1, 0, 1} : at = f.at /\ slip = f.slip  BY <1>2
  <1>5. PICK pos : pos = IF at >= 5 THEN at - slip ELSE at  OBVIOUS
  <1>6. PICK bit \in Bits : bit = Invert(p, LineLevel(p))  BY LineIs DEF HearInv
  <1>7. bit = Frame(b)[pos \div 3 + 1]
    <2>1. Position(peer[p]) = pos  BY <1>1, <1>4, <1>5 DEF Position
    <2> QED  BY <1>1, <1>3, <1>6, <2>1, LineIs DEF HearInv
  <1>8. /\ rxBit \in -1..8 /\ rxTick \in 0..4 /\ (rxBit = -1 => rxTick <= 1)
        /\ rxBit # -1 => rxBuf \in Seq(Bits) /\ Len(rxBuf) = rxBit
    BY DEF HearInv, HearType, RxType
  <1>9. /\ at = 0 => rxBit = -1
        /\ at \in 1..28 => /\ rxBit # -1 /\ at = 3 * rxBit + 5 - rxTick
                           /\ rxTick >= 1 /\ (rxBit # 0 => rxTick <= 3)
                           /\ \A i \in 1..rxBit : rxBuf[i] = Frame(b)[i + 1]
        /\ at > 28 => rxBit = -1
    BY <1>1, <1>3, <1>4 DEF HearInv, Heard
  <1>10. Frame(b)[1] = 0 /\ Frame(b)[10] = 1  BY FrameIs
  <1>11. CASE at = 0
    <2>1. pos \div 3 + 1 = 1  BY <1>5, <1>11
    <2>2. bit = 0  BY <1>7, <1>10, <2>1
    <2>3. rxBit' = 0 /\ rxTick' = 4
      BY <1>6, <1>8, <1>9, <1>11, <2>2 DEF Recv, FirstWait, OVERSAMPLE
    <2> QED  BY <1>1, <1>4, <1>9, <1>11, <2>3
  <1>12. CASE at \in 1..28 /\ rxTick > 1
    <2>1. rxTick' = rxTick - 1 /\ rxBit' = rxBit /\ rxBuf' = rxBuf  BY <1>12 DEF Recv
    <2>2. at # 28  BY <1>8, <1>9, <1>12
    <2> QED  BY <1>1, <1>3, <1>4, <1>8, <1>9, <1>12, <2>1, <2>2
  <1>13. CASE at \in 1..28 /\ ~(rxTick > 1) /\ rxBit # 8
    <2>1. rxBit \in 0..7 /\ rxTick = 1 /\ at = 3 * rxBit + 4  BY <1>8, <1>9, <1>13
    <2>2. pos \in 3 * rxBit + 3..3 * rxBit + 5  BY <1>4, <1>5, <2>1
    <2>3. pos \div 3 + 1 = rxBit + 2  BY <2>1, <2>2
    <2>4. rxTick' = 3 /\ rxBit' = rxBit + 1 /\ rxBuf' = Append(rxBuf, bit)
      BY <1>6, <1>13, <2>1 DEF Recv, OVERSAMPLE
    <2>5. PICK s \in Seq(Bits) : s = rxBuf  BY <1>8, <2>1
    <2>6. /\ \A i \in 1..Len(s) : Append(s, bit)[i] = s[i]
          /\ Append(s, bit)[Len(s) + 1] = bit
      BY <2>5, AppendProperties
    <2>7. Len(s) = rxBit /\ \A i \in 1..rxBit : s[i] = Frame(b)[i + 1]  BY <1>8, <1>9, <1>13, <2>1, <2>5
    <2>8. \A i \in 1..(rxBit + 1) : rxBuf'[i] = Frame(b)[i + 1]
      <3>1. TAKE i \in 1..(rxBit + 1)
      <3>2. CASE i \in 1..rxBit  BY <2>4, <2>5, <2>6, <2>7, <3>2
      <3>3. CASE i = rxBit + 1
        <4>1. rxBuf'[i] = bit  BY <2>4, <2>5, <2>6, <2>7, <3>3
        <4>2. i + 1 = rxBit + 2  BY <2>1, <3>3
        <4> QED  BY <1>7, <2>3, <4>1, <4>2
      <3> QED  BY <2>1, <3>2, <3>3
    <2>9. at < 28 /\ at + 1 = 3 * rxBit' + 5 - rxTick' /\ rxBit' # -1 /\ rxTick' = 3
      BY <2>1, <2>4
    <2>10. \A i \in 1..rxBit' : rxBuf'[i] = Frame(f.byte)[i + 1]  BY <1>3, <2>4, <2>8
    <2>11. ~(at = 0) /\ ~(at = 28) /\ ~(at > 28)  BY <1>13, <2>9
    <2>12. rxBit' # -1 /\ f.at + 1 = 3 * rxBit' + 5 - rxTick' /\ rxTick' >= 1 /\ rxTick' <= 3
      BY <1>4, <2>9
    <2> QED  BY <1>1, <1>4, <1>13, <2>10, <2>11, <2>12
  <1>14. CASE at \in 1..28 /\ ~(rxTick > 1) /\ rxBit = 8
    <2>1. at = 28 /\ rxTick = 1  BY <1>8, <1>9, <1>14
    <2>2. pos \in 27..29  BY <1>4, <1>5, <2>1
    <2>3. pos \div 3 + 1 = 10  BY <2>2
    <2>4. bit = 1  BY <1>7, <1>10, <2>3
    <2>5. rxBit' = -1  BY <1>14 DEF Recv
    <2>6. Value(rxBuf) = b  BY <1>3, <1>8, <1>9, <1>14, ValueOfFrame
    <2> QED  BY <1>1, <1>3, <1>4, <1>6, <1>14, <2>1, <2>4, <2>5, <2>6
  <1>15. CASE at > 28
    <2>1. pos \in 27..29  BY <1>1, <1>2, <1>4, <1>5, <1>15
    <2>2. pos \div 3 + 1 = 10  BY <2>1
    <2>3. bit = 1  BY <1>7, <1>10, <2>2
    <2>4. rxBit' = -1  BY <1>6, <1>8, <1>9, <1>15, <2>3 DEF Recv
    <2> QED  BY <1>1, <1>4, <1>9, <1>15, <2>4
  <1> QED  BY <1>4, <1>11, <1>12, <1>13, <1>14, <1>15

\* A tick while a port is listening, and while none is.
LEMMA TickReceives ==
    ASSUME HearType, RingHoldsUnread, Tick
    PROVE  /\ RxType' /\ RingHoldsUnread' /\ in' = in /\ speed' = speed /\ pc' = pc
           /\ port' \in [Ports -> PortType] /\ unread' \in [Ports -> Seq(Int)]
           /\ \A q \in Ports : port'[q].speed = port[q].speed /\ (port[q].overflow => port'[q].overflow)
           /\ in \in Ports => Recv(in)
  <1>1. in' = in /\ speed' = speed /\ pc' = pc  BY DEF Tick
  <1>2. in \in Ports \/ in = NoPort  BY DEF HearType, Someone
  <1>3. CASE in \in Ports
    <2>1. Recv(in)  BY <1>3, SoftwareSerialAssumption DEF Tick
    <2> QED  BY <1>1, <1>3, <2>1, RecvIs
  <1>4. CASE in = NoPort
    <2>1. UNCHANGED <<rxTick, rxBit, rxBuf, port, unread>>  BY <1>4 DEF Tick, rx
    <2>2. RxType'  BY <2>1 DEF HearType, RxType
    <2>3. RingHoldsUnread'  BY <2>1 DEF RingHoldsUnread, Available
    <2>4. in \notin Ports  BY <1>4, SoftwareSerialAssumption
    <2> QED  BY <1>1, <2>1, <2>2, <2>3, <2>4 DEF HearType
  <1> QED  BY <1>2, <1>3, <1>4

\* What a tick stores or drops of the frame that is heard.
LEMMA TickStores ==
    ASSUME HearInv, RingHoldsUnread, Tick, NEW p \in Ports, peer[p].byte # -1
    PROVE  /\ in = p /\ Stored(p) \in Seq(Int)
           /\ rxBit # 8 => Stored(p) = <<>> /\ ~Dropped(p)
           /\ peer[p].whole =>
                /\ peer[p].at # 28 => Stored(p) = <<>> /\ ~Dropped(p)
                /\ peer[p].at = 28 => \/ Stored(p) = <<peer[p].byte>> /\ ~Dropped(p)
                                      \/ Stored(p) = <<>> /\ Dropped(p) /\ port'[p].overflow
  <1>1. in = p /\ Recv(p)
    <2>1. in = p  BY DEF HearInv, HearType, FramesIn, Hears
    <2> QED  BY <2>1, TickReceives DEF HearInv
  <1>2. unread \in [Ports -> Seq(Int)]  BY DEF HearInv, HearType
  <1>3. /\ \/ ~(rxBit = 8 /\ rxTick <= 1) /\ unread'[p] = unread[p]
           \/ /\ rxBit = 8 /\ rxTick <= 1
              /\ \/ Invert(p, LineLevel(p)) = 1 /\ unread'[p] = Append(unread[p], Value(rxBuf))
                 \/ unread'[p] = unread[p] /\ (Invert(p, LineLevel(p)) = 1 => port'[p].overflow)
        /\ Value(rxBuf) \in Int \/ rxBit # 8
    BY <1>1, RecvIs DEF HearInv
  <1>4. PICK v : v = Value(rxBuf)  OBVIOUS
  <1>5. /\ unread'[p] = unread[p] => Stored(p) = <<>>
        /\ v \in Int /\ unread'[p] = Append(unread[p], v) => Stored(p) = <<v>>
    BY <1>2, StoredIs
  <1>6. Stored(p) = <<>> \/ (v \in Int /\ Stored(p) = <<v>>)
    <2>1. CASE unread'[p] = unread[p]  BY <1>5, <2>1, Zenon
    <2>2. CASE unread'[p] # unread[p]
      <3>1. rxBit = 8 /\ unread'[p] = Append(unread[p], v)  BY <1>3, <1>4, <2>2
      <3>2. v \in Int  BY <1>3, <1>4, <3>1
      <3> QED  BY <1>5, <3>1, <3>2
    <2> QED  BY <2>1, <2>2
  <1>7. Stored(p) \in Seq(Int)
    <2>1. <<>> \in Seq(Int) /\ (v \in Int => <<v>> \in Seq(Int))  OBVIOUS
    <2> QED  BY <1>6, <2>1
  <1>8. rxBit # 8 => Stored(p) = <<>> /\ ~Dropped(p)  BY <1>3, <1>5 DEF Dropped
  <1>9. ASSUME peer[p].whole, peer[p].at # 28 PROVE Stored(p) = <<>> /\ ~Dropped(p)
    <2>1. peer[p].at \in Nat  BY DEF HearInv, HearType, FrameType
    <2>2. CASE peer[p].at < 28
      <3>1. ~(rxBit = 8 /\ rxTick <= 1)  BY <1>1, <1>9, <2>2, HeardGoesOn
      <3>2. rxBit' # -1
        <4>1. peer[p].at = 0 \/ peer[p].at \in 1..27  BY <2>1, <2>2
        <4>2. peer[p].at = 0 => rxBit' = 0  BY <1>1, <1>9, HeardGoesOn
        <4>3. peer[p].at \in 1..27 => rxBit' # -1  BY <1>1, <1>9, HeardGoesOn
        <4> QED  BY <4>1, <4>2, <4>3
      <3> QED  BY <1>3, <1>5, <3>1, <3>2 DEF Dropped
    <2>3. CASE peer[p].at > 28
      <3>1. rxBit = -1  BY <1>1, <1>9, <2>3, HeardGoesOn
      <3> QED  BY <1>8, <3>1
    <2> QED  BY <1>9, <2>1, <2>2, <2>3
  <1>10. ASSUME peer[p].whole, peer[p].at = 28
         PROVE  \/ Stored(p) = <<peer[p].byte>> /\ ~Dropped(p)
                \/ Stored(p) = <<>> /\ Dropped(p) /\ port'[p].overflow
    <2>1. rxBit = 8 /\ rxTick <= 1 /\ rxBit' = -1 /\ Invert(p, LineLevel(p)) = 1 /\ v = peer[p].byte
      BY <1>1, <1>4, <1>10, HeardGoesOn
    <2>2. \/ unread'[p] = Append(unread[p], v) /\ v \in Int
          \/ unread'[p] = unread[p] /\ port'[p].overflow
      BY <1>3, <1>4, <2>1
    <2>3. <<v>> # <<>>  OBVIOUS
    <2> QED  BY <1>5, <2>1, <2>2, <2>3 DEF Dropped
  <1> QED  BY <1>1, <1>7, <1>8, <1>9, <1>10

\* A frame a tick later.
LEMMA OlderIs ==
    ASSUME HearInv, Tick, NEW p \in Ports
    PROVE  /\ peer[p] \in FrameType /\ NoFrame \in FrameType /\ NoFrame.byte = -1
           /\ peer[p].byte = -1 \/ Ends(p) => peer'[p] = NoFrame
           /\ ~(peer[p].byte = -1 \/ Ends(p)) =>
                /\ peer'[p].byte = peer[p].byte /\ peer'[p].slip = peer[p].slip
                /\ peer'[p].whole = peer[p].whole /\ peer'[p].at = peer[p].at + 1
                /\ peer'[p].took = peer[p].took \o Stored(p)
                /\ peer'[p].lost = (peer[p].lost \/ Dropped(p))
                /\ Stored(p) \in Seq(Int) => peer'[p] \in FrameType
           /\ Ends(p) <=> peer[p].byte # -1 /\ Position([at |-> peer[p].at + 1, slip |-> peer[p].slip]) >= 30
  <1>1. PICK f \in FrameType : f = peer[p]  BY DEF HearInv, HearType
  <1>2. NoFrame \in FrameType /\ NoFrame.byte = -1  BY DEF NoFrame, FrameType
  <1>3. Ends(p) <=> f.byte # -1 /\ Position([at |-> f.at + 1, slip |-> f.slip]) >= 30
    BY <1>1 DEF Ends, Older, Position, FrameType
  <1>4. peer'[p] = IF f.byte = -1 \/ Ends(p) THEN NoFrame
                   ELSE [Older(p) EXCEPT !.took = @ \o Stored(p), !.lost = @ \/ Dropped(p)]
    BY <1>1 DEF Tick
  <1>5. CASE f.byte = -1 \/ Ends(p)  BY <1>1, <1>2, <1>3, <1>4, <1>5
  <1>6. CASE ~(f.byte = -1 \/ Ends(p))
    <2>1. PICK s : s = Stored(p)  OBVIOUS
    <2>2. PICK lost \in BOOLEAN : lost = (f.lost \/ Dropped(p))  OBVIOUS
    <2>3. PICK took : took = f.took \o s  OBVIOUS
    <2>4. peer'[p] = [[f EXCEPT !.at = @ + 1] EXCEPT !.took = took, !.lost = lost]
      BY <1>1, <1>4, <1>6, <2>1, <2>2, <2>3 DEF Older, FrameType
    <2>5. /\ peer'[p].byte = f.byte /\ peer'[p].slip = f.slip /\ peer'[p].whole = f.whole
          /\ peer'[p].at = f.at + 1 /\ peer'[p].took = took /\ peer'[p].lost = lost
      BY <2>4 DEF FrameType
    <2>6. s \in Seq(Int) => took \in Seq(Int)  BY <1>1, <2>3 DEF FrameType
    <2>7. took \in Seq(Int) => peer'[p] \in FrameType
      <3>1. peer'[p] = [byte |-> f.byte, at |-> f.at + 1, slip |-> f.slip, whole |-> f.whole,
                        took |-> took, lost |-> lost]
        BY <2>4 DEF FrameType
      <3>2. /\ f.byte \in Bytes \cup {-1} /\ f.at + 1 \in Nat /\ f.slip \in {-1, 0, 1}
            /\ f.whole \in BOOLEAN
        BY DEF FrameType
      <3> QED  BY <2>2, <3>1, <3>2 DEF FrameType
    <2> QED  BY <1>1, <1>2, <1>3, <1>6, <2>1, <2>2, <2>3, <2>5, <2>6, <2>7
  <1> QED  BY <1>5, <1>6

\* A tick keeps what is heard: the frames move on a tick, and recv() with them.
LEMMA TickHears ==
    ASSUME HearInv, RingHoldsUnread, Tick
    PROVE  HearInv'
  <1>1. /\ RxType' /\ in' = in /\ speed' = speed /\ pc' = pc
        /\ port' \in [Ports -> PortType] /\ unread' \in [Ports -> Seq(Int)]
        /\ \A q \in Ports : port'[q].speed = port[q].speed /\ (port[q].overflow => port'[q].overflow)
    BY TickReceives DEF HearInv
  <1>2. \A p \in Ports : peer'[p] \in FrameType
    <2>1. TAKE p \in Ports
    <2>2. peer[p].byte # -1 => Stored(p) \in Seq(Int)  BY TickStores
    <2> QED  BY <2>2, OlderIs
  <1>3. peer' \in [Ports -> FrameType]
    <2>1. peer' = [p \in Ports |-> peer'[p]]  BY DEF Tick
    <2> QED  BY <1>2, <2>1
  <1>4. ASSUME NEW p \in Ports, peer'[p].byte # -1
        PROVE  /\ Hears(p)' /\ peer'[p].at <= 30 /\ (peer'[p].at >= 5 => peer'[p].at - peer'[p].slip < 30)
               /\ peer'[p].whole => Heard(p)'
    <2>1. ~(peer[p].byte = -1 \/ Ends(p))  BY <1>4, OlderIs
    <2>2. PICK f \in FrameType : f = peer[p]  BY OlderIs
    <2>3. PICK at \in Nat, slip \in {-1, 0, 1} : at = f.at /\ slip = f.slip  BY <2>2 DEF FrameType
    <2>4. /\ peer'[p].byte = f.byte /\ peer'[p].slip = slip /\ peer'[p].whole = f.whole
          /\ peer'[p].at = at + 1 /\ peer'[p].took = f.took \o Stored(p)
          /\ peer'[p].lost = (f.lost \/ Dropped(p))
      BY <2>1, <2>2, <2>3, OlderIs
    <2>5. ~(Position([at |-> at + 1, slip |-> slip]) >= 30)  BY <2>1, <2>2, <2>3, OlderIs
    <2>6. Position([at |-> at + 1, slip |-> slip]) = IF at + 1 >= 5 THEN at + 1 - slip ELSE at + 1
      BY DEF Position
    <2>7. at + 1 <= 30 /\ (at + 1 >= 5 => at + 1 - slip < 30)  BY <2>3, <2>5, <2>6
    <2>8. in = p /\ Hears(p) /\ Recv(p)
      <3>1. Hears(p)  BY <2>1 DEF HearInv, HearType, FramesIn
      <3>2. in = p  BY <3>1 DEF Hears
      <3> QED  BY <3>1, <3>2, TickReceives DEF HearInv
    <2>9. Hears(p)'  BY <1>1, <2>8 DEF Hears
    <2>10. ASSUME f.whole PROVE Heard(p)'
      <3>1. Heard(p) /\ peer[p].whole  BY <2>1, <2>2, <2>10 DEF HearInv
      <3>2. /\ f.took \in Seq(Int) /\ f.took \o <<>> = f.took  BY <2>2, ConcatEmptySeq DEF FrameType
      <3>3. CASE at = 0
        <4>1. rxBit' = 0 /\ rxTick' = 4  BY <2>1, <2>2, <2>3, <2>8, <3>1, <3>3, HeardGoesOn
        <4>2. Stored(p) = <<>> /\ ~Dropped(p)
          <5>1. peer[p].at # 28  BY <2>2, <2>3, <3>3
          <5> QED  BY <2>1, <3>1, <5>1, TickStores
        <4>3. f.took = <<>> /\ ~f.lost  BY <2>2, <2>3, <3>1, <3>3 DEF Heard
        <4>4. peer'[p].took = <<>> /\ ~peer'[p].lost /\ peer'[p].at = 1
          <5>1. peer'[p].took = <<>>  BY <2>4, <3>2, <4>2, <4>3
          <5>2. ~peer'[p].lost  BY <2>4, <4>2, <4>3
          <5> QED  BY <2>4, <3>3, <5>1, <5>2
        <4> QED  BY <4>1, <4>4 DEF Heard
      <3>4. CASE at \in 1..27
        <4>1. /\ rxBit' # -1 /\ f.at + 1 = 3 * rxBit' + 5 - rxTick'
              /\ rxTick' >= 1 /\ (rxBit' # 0 => rxTick' <= 3)
              /\ \A i \in 1..rxBit' : rxBuf'[i] = Frame(f.byte)[i + 1]
          BY <2>1, <2>2, <2>3, <2>8, <3>1, <3>4, HeardGoesOn
        <4>2. Stored(p) = <<>> /\ ~Dropped(p)
          <5>1. peer[p].at # 28  BY <2>2, <2>3, <3>4
          <5> QED  BY <2>1, <3>1, <5>1, TickStores
        <4>3. f.took = <<>> /\ ~f.lost
          <5>1. f.at \in 1..28  BY <2>3, <3>4
          <5> QED  BY <2>2, <3>1, <5>1 DEF Heard
        <4>4. peer'[p].took = <<>> /\ ~peer'[p].lost /\ peer'[p].at = f.at + 1
          <5>1. peer'[p].took = <<>>  BY <2>4, <3>2, <4>2, <4>3
          <5>2. ~peer'[p].lost  BY <2>4, <4>2, <4>3
          <5> QED  BY <2>3, <2>4, <5>1, <5>2
        <4>5. ~(peer'[p].at = 0) /\ ~(peer'[p].at > 28)
          <5>1. at + 1 \in 2..28  BY <3>4
          <5>2. peer'[p].at \in 2..28  BY <2>4, <5>1
          <5> QED  BY <5>2
        <4>6. \A i \in 1..rxBit' : rxBuf'[i] = Frame(peer'[p].byte)[i + 1]  BY <2>4, <4>1
        <4> QED  BY <4>1, <4>4, <4>5, <4>6 DEF Heard
      <3>5. CASE at = 28
        <4>1. rxBit' = -1  BY <2>1, <2>2, <2>3, <2>8, <3>1, <3>5, HeardGoesOn
        <4>2. \/ Stored(p) = <<f.byte>> /\ ~Dropped(p)
              \/ Stored(p) = <<>> /\ Dropped(p) /\ port'[p].overflow
          BY <2>1, <2>2, <2>3, <3>1, <3>5, TickStores
        <4>3. f.took = <<>> /\ ~f.lost  BY <2>2, <2>3, <3>1, <3>5 DEF Heard
        <4>4. <<>> \o <<f.byte>> = <<f.byte>>  BY <2>2 DEF FrameType
        <4>5. \/ peer'[p].took = <<peer'[p].byte>> /\ ~peer'[p].lost
              \/ peer'[p].lost /\ port'[p].overflow
          <5>1. CASE Stored(p) = <<f.byte>> /\ ~Dropped(p)
            <6>1. peer'[p].took = <<f.byte>>  BY <2>4, <4>3, <4>4, <5>1
            <6>2. ~peer'[p].lost  BY <2>4, <4>3, <5>1
            <6>3. peer'[p].took = <<peer'[p].byte>>  BY <2>4, <6>1
            <6> QED  BY <6>2, <6>3
          <5>2. CASE Dropped(p) /\ port'[p].overflow
            <6>1. peer'[p].lost  BY <2>4, <5>2
            <6> QED  BY <5>2, <6>1
          <5> QED  BY <4>2, <5>1, <5>2
        <4>6. peer'[p].at = 29  BY <2>4, <3>5
        <4>7. ~(29 \in 1..28) /\ ~(29 = 0)  OBVIOUS
        <4> QED  BY <4>1, <4>5, <4>6, <4>7 DEF Heard
      <3>6. CASE at > 28
        <4>1. rxBit' = -1  BY <2>1, <2>2, <2>3, <2>8, <3>1, <3>6, HeardGoesOn
        <4>2. Stored(p) = <<>> /\ ~Dropped(p)  BY <2>1, <2>2, <2>3, <3>1, <3>6, TickStores
        <4>3. (f.took = <<f.byte>> \/ f.lost) /\ (f.lost => port[p].overflow)
          BY <2>2, <2>3, <3>1, <3>6 DEF Heard
        <4>4. /\ peer'[p].took = <<peer'[p].byte>> \/ peer'[p].lost
              /\ peer'[p].lost => port'[p].overflow
          BY <1>1, <2>4, <3>2, <4>2, <4>3
        <4>5. ~(peer'[p].at \in 1..28) /\ ~(peer'[p].at = 0)
          <5>1. at + 1 \in Nat /\ at + 1 > 28  BY <2>3, <3>6
          <5>2. peer'[p].at \in Nat /\ peer'[p].at > 28  BY <2>4, <5>1
          <5> QED  BY <5>2
        <4> QED  BY <4>1, <4>4, <4>5 DEF Heard
      <3> QED  BY <2>3, <3>3, <3>4, <3>5, <3>6
    <2> QED  BY <2>4, <2>7, <2>9, <2>10
  <1>5. CallType'  BY <1>1 DEF HearInv, HearType, CallType
  <1>6. HearType'  BY <1>1, <1>3, <1>4, <1>5 DEF HearInv, HearType, FramesIn
  <1> QED  BY <1>4, <1>6 DEF HearInv

\* A step that touches neither recv() nor a frame, except that it may end one.
LEMMA HearKept ==
    ASSUME HearInv, UNCHANGED rx, in' \in Someone, CallType',
           port' \in [Ports -> PortType], unread' \in [Ports -> Seq(Int)],
           peer' \in [Ports -> FrameType],
           \A p \in Ports : /\ port[p].overflow => port'[p].overflow
                            /\ peer'[p].byte = -1 \/ (peer'[p] = peer[p] /\ Hears(p)')
    PROVE  HearInv'
  <1>1. rxTick' = rxTick /\ rxBit' = rxBit /\ rxBuf' = rxBuf  BY DEF rx
  <1>2. RxType'  BY <1>1 DEF HearInv, HearType, RxType
  <1>3. \A p \in Ports : peer'[p].byte # -1 => peer'[p] = peer[p] /\ peer[p].byte # -1 /\ Hears(p)'
    OBVIOUS
  <1>4. FramesIn'
    <2>1. FramesIn  BY DEF HearInv, HearType
    <2> QED  BY <1>3, <2>1 DEF FramesIn
  <1>5. ASSUME NEW p \in Ports, peer'[p].byte # -1, peer'[p].whole PROVE Heard(p)'
    <2>1. peer'[p] = peer[p] /\ peer[p].byte # -1 /\ (port[p].overflow => port'[p].overflow)
      BY <1>3, <1>5
    <2>2. Heard(p)  BY <1>5, <2>1 DEF HearInv
    <2> QED  BY <1>1, <2>1, <2>2 DEF Heard
  <1> QED  BY <1>2, <1>4, <1>5 DEF HearInv, HearType

\* The ring stays as it is.
LEMMA RingKept ==
    ASSUME RingHoldsUnread, unread' = unread,
           \A p \in Ports : /\ port'[p].head = port[p].head /\ port'[p].tail = port[p].tail
                            /\ port'[p].buffer = port[p].buffer
    PROVE  RingHoldsUnread'
  BY DEF RingHoldsUnread, Available

\* The frame that is broken off, or goes on.
LEMMA BreakIs ==
    ASSUME peer \in [Ports -> FrameType], BreakOff, port' = port
    PROVE  /\ peer' \in [Ports -> FrameType]
           /\ \A p \in Ports : peer'[p].byte = -1 \/ (peer'[p] = peer[p] /\ Hears(p)')
  <1>1. NoFrame \in FrameType /\ NoFrame.byte = -1  BY DEF NoFrame, FrameType
  <1>2. peer' = [p \in Ports |-> IF in' = p /\ speed' = port[p].speed THEN peer[p] ELSE NoFrame]
    BY DEF BreakOff
  <1>3. peer' \in [Ports -> FrameType]  BY <1>1, <1>2
  <1>4. ASSUME NEW p \in Ports PROVE peer'[p].byte = -1 \/ (peer'[p] = peer[p] /\ Hears(p)')
    <2>1. CASE in' = p /\ speed' = port[p].speed  BY <1>2, <2>1 DEF Hears
    <2>2. CASE ~(in' = p /\ speed' = port[p].speed)  BY <1>1, <1>2, <2>2
    <2> QED  BY <2>1, <2>2
  <1> QED  BY <1>3, <1>4

\* What the steps below use of the invariant.
LEMMA HearParts ==
    ASSUME HearInv
    PROVE  /\ port \in [Ports -> PortType] /\ unread \in [Ports -> Seq(Int)]
           /\ peer \in [Ports -> FrameType] /\ in \in Someone
           /\ pc \in [call : CallNames, port : Someone, byte : Bytes \cup {-1}]
           /\ pc.call # "none" => pc.port \in Ports
           /\ pc.call = "arm" => in = NoPort
           /\ \A p \in Ports : peer[p].byte # -1 => Hears(p)
  BY DEF HearInv, HearType, CallType, FramesIn

\* A call begins.
LEMMA EnterIs ==
    ASSUME HearInv, NEW call \in CallNames \ {"none", "arm"}, NEW p \in Ports,
           NEW b \in Bytes \cup {-1}, Enter(call, p, b)
    PROVE  CallType'
  <1>1. pc' = [call |-> call, port |-> p, byte |-> b]  BY DEF Enter
  <1> QED  BY <1>1 DEF CallType, Someone

\* A call returns.
LEMMA IdleIs == pc' = Idle => CallType'
  BY DEF Idle, CallType, CallNames, Someone

\* A peer starts a frame: it is heard whole if recv() waits for a start bit.
LEMMA PeerStartsHears ==
    ASSUME HearInv, RingHoldsUnread, NEW p \in Ports, PeerStarts(p)
    PROVE  HearInv' /\ RingHoldsUnread'
  <1>1. UNCHANGED <<timer, rx, port, pc, unread>> /\ Hears(p) /\ peer[p].byte = -1  BY DEF PeerStarts
  <1>2. /\ in' = in /\ speed' = speed /\ port' = port /\ pc' = pc /\ unread' = unread
        /\ rxTick' = rxTick /\ rxBit' = rxBit /\ rxBuf' = rxBuf
    BY <1>1 DEF timer, rx
  <1>3. PICK b \in Bytes, slip \in {-1, 0, 1} :
          peer' = [peer EXCEPT ![p] = [NoFrame EXCEPT !.byte = b, !.slip = slip, !.whole = rxBit = -1]]
    BY DEF PeerStarts
  <1>4. PICK f : f = [NoFrame EXCEPT !.byte = b, !.slip = slip, !.whole = rxBit = -1]
    OBVIOUS
  <1>5. /\ f.byte = b /\ f.at = 0 /\ f.slip = slip /\ f.took = <<>> /\ f.lost = FALSE
    BY <1>4, Zenon DEF NoFrame
  <1>w. f.whole = (rxBit = -1)  BY <1>4, Zenon DEF NoFrame
  <1>6. f \in FrameType
    <2>1. f.at \in Nat /\ f.took \in Seq(Int) /\ f.lost \in BOOLEAN
      <3>1. f.at \in Nat  BY <1>5
      <3>2. f.took \in Seq(Int)  BY <1>5
      <3>3. f.lost \in BOOLEAN  BY <1>5, Zenon
      <3> QED  BY <3>1, <3>2, <3>3
    <2>4. f.byte \in Bytes \cup {-1} /\ f.slip \in {-1, 0, 1}
      <3>1. b \in Bytes /\ slip \in {-1, 0, 1}  OBVIOUS
      <3>2. f.byte = b /\ f.slip = slip  BY <1>5
      <3> QED  BY <3>1, <3>2, Zenon
    <2>2. f.whole \in BOOLEAN  BY <1>w, Zenon
    <2>3. f = [byte |-> f.byte, at |-> f.at, slip |-> f.slip, whole |-> f.whole,
               took |-> f.took, lost |-> f.lost]
      BY <1>4, Zenon DEF NoFrame
    <2> QED  BY <2>1, <2>2, <2>3, <2>4, Zenon DEF FrameType
  <1>7. peer' = [peer EXCEPT ![p] = f]  BY <1>3, <1>4, Zenon
  <1>8. /\ peer' \in [Ports -> FrameType] /\ peer'[p] = f
        /\ \A q \in Ports : q # p => peer'[q] = peer[q]
    BY <1>6, <1>7, HearParts
  <1>9. CallType' /\ RxType'  BY <1>2 DEF HearInv, HearType, CallType, RxType
  <1>10. FramesIn'
    <2>1. SUFFICES ASSUME NEW q \in Ports, peer'[q].byte # -1
                   PROVE  Hears(q)' /\ peer'[q].at <= 30 /\ (peer'[q].at >= 5 => peer'[q].at - peer'[q].slip < 30)
      BY DEF FramesIn
    <2>2. CASE q = p
      <3>1. Hears(p)'  BY <1>1, <1>2 DEF Hears
      <3>2. peer'[p].at = 0  BY <1>5, <1>8
      <3> QED  BY <2>2, <3>1, <3>2
    <2>3. CASE q # p
      <3>1. peer'[q] = peer[q]  BY <1>8, <2>3
      <3> QED  BY <1>2, <2>1, <3>1 DEF HearInv, HearType, FramesIn, Hears
    <2> QED  BY <2>2, <2>3
  <1>11. ASSUME NEW q \in Ports, peer'[q].byte # -1, peer'[q].whole PROVE Heard(q)'
    <2>1. CASE q = p
      <3>1. f.whole  BY <1>8, <1>11, <2>1
      <3>a. rxBit = -1  BY <1>w, <3>1, Zenon
      <3>b. rxBit' = -1  BY <1>2, <3>a
      <3>2. peer'[p].at = 0 /\ peer'[p].took = <<>> /\ ~peer'[p].lost  BY <1>5, <1>8
      <3> QED  BY <2>1, <3>b, <3>2 DEF Heard
    <2>2. CASE q # p
      <3>1. peer'[q] = peer[q]  BY <1>8, <2>2
      <3>2. Heard(q)  BY <1>11, <3>1 DEF HearInv
      <3> QED  BY <1>2, <3>1, <3>2 DEF Heard
    <2> QED  BY <2>1, <2>2
  <1>12. RingHoldsUnread'  BY <1>2, RingKept
  <1> QED  BY <1>2, <1>8, <1>9, <1>10, <1>11, <1>12 DEF HearInv, HearType

\* Calls that only begin, and those that change a port's settings.
LEMMA CallHears ==
    ASSUME HearInv, RingHoldsUnread, NEW p \in Ports, Begin(p) \/ Listen(p) \/ StopListening(p) \/ Write(p)
    PROVE  HearInv' /\ RingHoldsUnread'
  <1>1. /\ UNCHANGED <<timer, rx, outside, unread>>
    BY DEF Begin, Listen, StopListening, Write
  <1>2. UNCHANGED rx /\ in' = in /\ speed' = speed /\ peer' = peer /\ unread' = unread
    BY <1>1 DEF timer, outside
  <1>3. CallType'
    <2>1. CASE Begin(p)
      <3>1. Enter("listen", p, -1) \/ UNCHANGED pc  BY <2>1 DEF Begin
      <3>2. UNCHANGED pc => CallType'  BY <1>2 DEF HearInv, HearType, CallType
      <3> QED  BY <3>1, <3>2, EnterIs DEF CallNames
    <2>2. CASE Listen(p)
      <3>1. Enter("listen", p, -1)  BY <2>2 DEF Listen
      <3> QED  BY <3>1, EnterIs DEF CallNames
    <2>3. CASE StopListening(p)
      <3>1. Enter("stop", p, -1)  BY <2>3 DEF StopListening
      <3> QED  BY <3>1, EnterIs DEF CallNames
    <2>4. CASE Write(p)
      <3>1. PICK b \in Bytes : Enter("write", p, b)  BY <2>4 DEF Write
      <3> QED  BY <3>1, EnterIs DEF CallNames
    <2> QED  BY <2>1, <2>2, <2>3, <2>4
  <1>4. /\ port' \in [Ports -> PortType]
        /\ \A q \in Ports :
             /\ port'[q].overflow = port[q].overflow /\ port'[q].head = port[q].head
             /\ port'[q].tail = port[q].tail /\ port'[q].buffer = port[q].buffer
             /\ peer[q].byte # -1 => port'[q].speed = port[q].speed
    <2>1. CASE Begin(p)
      <3>1. PICK s \in Speeds : port' = [port EXCEPT ![p].speed = s]  BY <2>1 DEF Begin
      <3>2. s \in Nat  BY SoftwareSerialAssumption
      <3>3. peer[p].byte = -1  BY <2>1 DEF Begin
      <3> QED  BY <3>1, <3>2, <3>3, HearParts, ZenonT(30) DEF PortType
    <2>2. CASE Listen(p) \/ StopListening(p)
      <3>1. port' = port  BY <2>2 DEF Listen, StopListening
      <3> QED  BY <3>1, HearParts
    <2>3. CASE Write(p)
      <3>1. port' = [port EXCEPT ![p].pending = TRUE]  BY <2>3 DEF Write
      <3> QED  BY <3>1, HearParts, ZenonT(30) DEF PortType
    <2> QED  BY <2>1, <2>2, <2>3
  <1>5. \A q \in Ports : peer[q].byte # -1 => Hears(q)'  BY <1>2, <1>4, HearParts DEF Hears
  <1>6. HearInv'  BY <1>2, <1>3, <1>4, <1>5, HearParts, HearKept
  <1>7. RingHoldsUnread'  BY <1>2, <1>4, RingKept
  <1> QED  BY <1>6, <1>7

\* The calls go on.
LEMMA GoHears ==
    ASSUME HearInv, RingHoldsUnread, ListenStop \/ Stop \/ WriteLoad \/ WriteGo
    PROVE  HearInv' /\ RingHoldsUnread'
  <1>1. CASE ListenStop \/ Stop \/ WriteLoad
    <2>1. BreakOff /\ UNCHANGED <<rx, port, unread>>  BY <1>1 DEF ListenStop, Stop, WriteLoad
    <2>2. UNCHANGED rx /\ port' = port /\ unread' = unread  BY <2>1
    <2>3. in' \in Someone  BY <1>1, HearParts DEF ListenStop, Stop, WriteLoad, Someone
    <2>4. CallType'
      <3>1. CASE ListenStop
        <4>1. pc' = [pc EXCEPT !.call = "arm"] /\ in' = NoPort /\ pc.call = "listen"
          BY <3>1 DEF ListenStop
        <4> QED  BY <4>1, HearParts DEF CallType, CallNames
      <3>2. CASE Stop  BY <3>2, IdleIs DEF Stop
      <3>3. CASE WriteLoad
        <4>1. pc' = [pc EXCEPT !.call = "go"] /\ pc.call = "write"  BY <3>3 DEF WriteLoad
        <4> QED  BY <4>1, HearParts DEF CallType, CallNames
      <3> QED  BY <1>1, <3>1, <3>2, <3>3
    <2>5. HearInv'  BY <2>1, <2>2, <2>3, <2>4, BreakIs, HearParts, HearKept
    <2> QED  BY <2>2, <2>5, RingKept
  <1>2. CASE WriteGo
    <2>1. /\ UNCHANGED <<speed, in, rx, outside, unread>>
          /\ port' = [port EXCEPT ![pc.port].pending = FALSE] /\ pc' = Idle
      BY <1>2 DEF WriteGo
    <2>2. UNCHANGED rx /\ in' = in /\ speed' = speed /\ peer' = peer /\ unread' = unread
      BY <2>1 DEF outside
    <2>3. /\ port' \in [Ports -> PortType]
          /\ \A q \in Ports :
               /\ port'[q].overflow = port[q].overflow /\ port'[q].head = port[q].head
               /\ port'[q].tail = port[q].tail /\ port'[q].buffer = port[q].buffer
               /\ port'[q].speed = port[q].speed
      BY <2>1, HearParts, ZenonT(30) DEF PortType
    <2>4. \A q \in Ports : peer[q].byte # -1 => Hears(q)'  BY <2>2, <2>3, HearParts DEF Hears
    <2>5. CallType'  BY <2>1, IdleIs
    <2>6. HearInv'  BY <2>2, <2>3, <2>4, <2>5, HearParts, HearKept
    <2> QED  BY <2>2, <2>3, <2>6, RingKept
  <1> QED  BY <1>1, <1>2

\* A port begins to listen: nothing is being heard.
LEMMA ArmHears ==
    ASSUME HearInv, RingHoldsUnread, ListenArm
    PROVE  HearInv' /\ RingHoldsUnread'
  <1>1. /\ pc.call = "arm" /\ pc' = Idle /\ rxTick' = 1 /\ rxBit' = -1
        /\ in' = pc.port /\ UNCHANGED <<port, outside, unread>>
    BY DEF ListenArm
  <1>2. port' = port /\ peer' = peer /\ unread' = unread  BY <1>1 DEF outside
  <1>3. \A p \in Ports : peer[p].byte = -1
    <2>1. in = NoPort  BY <1>1, HearParts
    <2> QED  BY <2>1, HearParts, SoftwareSerialAssumption DEF Hears
  <1>4. CallType'  BY <1>1, IdleIs
  <1>5. RxType'  BY <1>1 DEF RxType
  <1>6. in' \in Someone  BY <1>1, HearParts DEF Someone
  <1>7. HearInv'  BY <1>2, <1>3, <1>4, <1>5, <1>6, HearParts DEF HearInv, HearType, FramesIn
  <1> QED  BY <1>2, <1>7, RingKept

\* The ring of a port that is left alone.
LEMMA RingOfKept ==
    ASSUME RingHoldsUnread, NEW q \in Ports, unread'[q] = unread[q],
           port'[q].head = port[q].head, port'[q].tail = port[q].tail,
           port'[q].buffer = port[q].buffer
    PROVE  /\ Len(unread'[q]) = Available(q)'
           /\ \A i \in 1..Len(unread'[q]) :
                unread'[q][i] = port'[q].buffer[(port'[q].head + i - 1) % RingSize]
  <1>1. /\ Len(unread[q]) = Available(q)
        /\ \A i \in 1..Len(unread[q]) :
             unread[q][i] = port[q].buffer[(port[q].head + i - 1) % RingSize]
    BY DEF RingHoldsUnread
  <1>2. Available(q)' = Available(q)  BY DEF Available
  <1> QED  BY <1>1, <1>2

\* read() takes the oldest byte.
LEMMA ReadHears ==
    ASSUME HearInv, RingHoldsUnread, NEW p \in Ports, Read(p)
    PROVE  HearInv' /\ RingHoldsUnread'
  <1>1. /\ port[p].head # port[p].tail /\ port' = [port EXCEPT ![p].head = (@ + 1) % RingSize]
        /\ unread' = [unread EXCEPT ![p] = Tail(@)]
        /\ UNCHANGED rx /\ in' = in /\ speed' = speed /\ peer' = peer /\ pc' = pc
    BY DEF Read, timer, outside
  <1>2. PICK head \in 0..RingSize - 1, tail \in 0..RingSize - 1 :
          head = port[p].head /\ tail = port[p].tail
    BY HearParts DEF PortType
  <1>3. PICK u \in Seq(Int) : u = unread[p]  BY HearParts
  <1>4. (head + 1) % RingSize \in 0..RingSize - 1  BY UsedIs
  <1>5. /\ Len(u) = Used(head, tail)
        /\ \A i \in 1..Len(u) : u[i] = port[p].buffer[(head + i - 1) % RingSize]
    BY <1>2, <1>3 DEF RingHoldsUnread, Available, Used
  <1>6. /\ Used(head, tail) >= 1 /\ Used((head + 1) % RingSize, tail) = Used(head, tail) - 1
        /\ \A i \in 1..(Used(head, tail) - 1) :
             (((head + 1) % RingSize) + i - 1) % RingSize = (head + (i + 1) - 1) % RingSize
    BY <1>1, <1>2, RingTakes
  <1>7. /\ Tail(u) \in Seq(Int) /\ Len(Tail(u)) = Len(u) - 1
        /\ \A i \in 1..(Len(u) - 1) : Tail(u)[i] = u[i + 1]
    BY <1>5, <1>6, TailProperties
  <1>8. /\ port' \in [Ports -> PortType]
        /\ \A q \in Ports : /\ port'[q].tail = port[q].tail /\ port'[q].buffer = port[q].buffer
                            /\ port'[q].speed = port[q].speed /\ port'[q].overflow = port[q].overflow
                            /\ q # p => port'[q].head = port[q].head
        /\ port'[p].head = (head + 1) % RingSize
    BY <1>1, <1>2, <1>4, HearParts, ZenonT(30) DEF PortType
  <1>9. /\ unread' \in [Ports -> Seq(Int)] /\ unread'[p] = Tail(u)
        /\ \A q \in Ports : q # p => unread'[q] = unread[q]
    BY <1>1, <1>3, <1>7, HearParts
  <1>10. RingHoldsUnread'
    <2>1. ASSUME NEW q \in Ports
          PROVE  /\ Len(unread'[q]) = Available(q)'
                 /\ \A i \in 1..Len(unread'[q]) :
                      unread'[q][i] = port'[q].buffer[(port'[q].head + i - 1) % RingSize]
      <3>1. CASE q = p
        <4>1. Len(unread'[p]) = Available(p)'
          BY <1>2, <1>5, <1>6, <1>7, <1>8, <1>9 DEF Available, Used
        <4>2. ASSUME NEW i \in 1..Len(unread'[p])
              PROVE  unread'[p][i] = port'[p].buffer[(port'[p].head + i - 1) % RingSize]
          <5>1. i \in 1..(Len(u) - 1) /\ i + 1 \in 1..Len(u)  BY <1>3, <1>7, <1>9, SMTT(30)
          <5>2. unread'[p][i] = port[p].buffer[(head + (i + 1) - 1) % RingSize]
            BY <1>5, <1>7, <1>9, <5>1
          <5>3. (((head + 1) % RingSize) + i - 1) % RingSize = (head + (i + 1) - 1) % RingSize
            BY <1>5, <1>6, <5>1
          <5> QED  BY <1>8, <5>2, <5>3
        <4> QED  BY <3>1, <4>1, <4>2
      <3>2. CASE q # p
        BY <1>8, <1>9, <3>2, RingOfKept
      <3> QED  BY <3>1, <3>2
    <2> QED  BY <2>1 DEF RingHoldsUnread
  <1>11. CallType'  BY <1>1 DEF HearInv, HearType, CallType
  <1>12. \A q \in Ports : peer[q].byte # -1 => Hears(q)'  BY <1>1, <1>8, HearParts DEF Hears
  <1>13. HearInv'  BY <1>1, <1>8, <1>9, <1>11, <1>12, HearParts, HearKept
  <1> QED  BY <1>10, <1>13

\* flush() empties the ring.
LEMMA FlushHears ==
    ASSUME HearInv, RingHoldsUnread, NEW p \in Ports, Flush(p)
    PROVE  HearInv' /\ RingHoldsUnread'
  <1>1. /\ port' = [port EXCEPT ![p].head = 0, ![p].tail = 0]
        /\ unread' = [unread EXCEPT ![p] = <<>>]
        /\ UNCHANGED rx /\ in' = in /\ speed' = speed /\ peer' = peer /\ pc' = pc
    BY DEF Flush, timer, outside
  <1>2. 0 \in 0..RingSize - 1  BY SoftwareSerialAssumption
  <1>3. /\ port' \in [Ports -> PortType]
        /\ \A q \in Ports : /\ port'[q].speed = port[q].speed /\ port'[q].overflow = port[q].overflow
                            /\ port'[q].buffer = port[q].buffer
                            /\ q # p => port'[q].head = port[q].head /\ port'[q].tail = port[q].tail
        /\ port'[p].head = 0 /\ port'[p].tail = 0
    BY <1>1, <1>2, HearParts, ZenonT(30) DEF PortType
  <1>4. /\ unread' \in [Ports -> Seq(Int)] /\ unread'[p] = <<>>
        /\ \A q \in Ports : q # p => unread'[q] = unread[q]
    BY <1>1, HearParts
  <1>5. Used(0, 0) = 0  BY <1>2, UsedIs
  <1>6. RingHoldsUnread'
    <2>1. ASSUME NEW q \in Ports
          PROVE  /\ Len(unread'[q]) = Available(q)'
                 /\ \A i \in 1..Len(unread'[q]) :
                      unread'[q][i] = port'[q].buffer[(port'[q].head + i - 1) % RingSize]
      <3>1. CASE q = p
        <4>1. Available(p)' = 0
          <5>1. Available(p)' = Used(0, 0)  BY <1>3 DEF Available, Used
          <5> QED  BY <1>5, <5>1
        <4>2. Len(unread'[p]) = 0  BY <1>4
        <4> QED  BY <3>1, <4>1, <4>2
      <3>2. CASE q # p
        BY <1>3, <1>4, <3>2, RingOfKept
      <3> QED  BY <3>1, <3>2
    <2> QED  BY <2>1 DEF RingHoldsUnread
  <1>7. CallType'  BY <1>1 DEF HearInv, HearType, CallType
  <1>8. \A q \in Ports : peer[q].byte # -1 => Hears(q)'  BY <1>1, <1>3, HearParts DEF Hears
  <1>9. HearInv'  BY <1>1, <1>3, <1>4, <1>7, <1>8, HearParts, HearKept
  <1> QED  BY <1>6, <1>9

\* Every step keeps what is heard.
LEMMA HearStep ==
    ASSUME HearInv, RingHoldsUnread, [Next]_vars
    PROVE  HearInv' /\ RingHoldsUnread'
  <1>1. CASE Tick  BY <1>1, TickHears, TickReceives DEF HearInv
  <1>2. CASE Go  BY <1>2, GoHears, ArmHears DEF Go
  <1>3. ASSUME NEW p \in Ports, Sketch(p) \/ PeerStarts(p) PROVE HearInv' /\ RingHoldsUnread'
    BY <1>3, CallHears, ReadHears, FlushHears, PeerStartsHears DEF Sketch
  <1>4. CASE UNCHANGED vars
    <2>1. /\ UNCHANGED rx /\ in' = in /\ speed' = speed /\ peer' = peer /\ pc' = pc
          /\ port' = port /\ unread' = unread
      BY <1>4 DEF vars, timer, outside
    <2>2. CallType'  BY <2>1 DEF HearInv, HearType, CallType
    <2>3. \A q \in Ports : peer[q].byte # -1 => Hears(q)'  BY <2>1, HearParts DEF Hears
    <2>4. HearInv'  BY <2>1, <2>2, <2>3, HearParts, HearKept
    <2> QED  BY <2>1, <2>4, RingKept
  <1> QED  BY <1>1, <1>2, <1>3, <1>4 DEF Next

\* Nothing is heard at first.
LEMMA HearInit == Init => HearInv /\ RingHoldsUnread
  <1> SUFFICES ASSUME Init PROVE HearInv /\ RingHoldsUnread  OBVIOUS
  <1>1. NoFrame \in FrameType /\ NoFrame.byte = -1  BY DEF NoFrame, FrameType
  <1>2. NewPort \in PortType /\ NewPort.head = 0 /\ NewPort.tail = 0
    BY SoftwareSerialAssumption DEF NewPort, PortType
  <1>3. /\ port \in [Ports -> PortType] /\ peer \in [Ports -> FrameType]
        /\ unread \in [Ports -> Seq(Int)] /\ in \in Someone
        /\ \A p \in Ports : port[p] = NewPort /\ peer[p].byte = -1 /\ unread[p] = <<>>
    BY <1>1, <1>2 DEF Init, Someone
  <1>4. CallType  BY DEF Init, Idle, CallType, CallNames, Someone
  <1>5. RxType  BY DEF Init, RxType
  <1>6. HearInv  BY <1>3, <1>4, <1>5 DEF HearInv, HearType, FramesIn
  <1>7. Used(0, 0) = 0
    <2>1. 0 \in 0..RingSize - 1  BY SoftwareSerialAssumption
    <2> QED  BY <2>1, UsedIs
  <1>8. RingHoldsUnread  BY <1>2, <1>3, <1>7 DEF RingHoldsUnread, Available, Used
  <1> QED  BY <1>6, <1>8

\* What a frame left behind when it ended.
EndsStored ==
    \A p \in Ports : (Ends(p) /\ peer[p].whole /\ peer'[p] = NoFrame /\ Hears(p)') =>
         \/ peer[p].took \o Stored(p) = <<peer[p].byte>>
         \/ (peer[p].lost \/ Dropped(p)) /\ port'[p].overflow

\* Only the timer's interrupt ends a frame whose port goes on hearing it.
LEMMA OnlyTickEnds ==
    ASSUME HearInv, Next, ~Tick, NEW p \in Ports, peer[p].byte # -1, peer'[p] = NoFrame
    PROVE  ~Hears(p)'
  <1>1. NoFrame.byte = -1  BY DEF NoFrame
  <1>2. CASE ListenStop \/ Stop \/ WriteLoad
    <2>1. BreakOff /\ UNCHANGED port  BY <1>2 DEF ListenStop, Stop, WriteLoad
    <2>2. peer'[p].byte = -1 \/ peer'[p] = peer[p]
      BY <1>1
    <2>3. peer'[p] = IF in' = p /\ speed' = port[p].speed THEN peer[p] ELSE NoFrame
      BY <2>1 DEF BreakOff
    <2> QED  BY <1>1, <2>1, <2>3 DEF Hears
  <1>3. CASE ListenArm \/ WriteGo
    BY <1>1, <1>3 DEF ListenArm, WriteGo, outside
  <1>4. ASSUME NEW q \in Ports, Sketch(q) PROVE FALSE
    BY <1>1, <1>4 DEF Sketch, Begin, Listen, StopListening, Write, Read, Flush, outside
  <1>5. ASSUME NEW q \in Ports, PeerStarts(q) PROVE FALSE
    <2>1. peer[q].byte = -1 /\ \E f : peer' = [peer EXCEPT ![q] = f]  BY <1>5 DEF PeerStarts
    <2>2. peer'[p] = peer[p]  BY <2>1, HearParts
    <2> QED  BY <1>1, <2>2
  <1> QED  BY <1>2, <1>3, <1>4, <1>5 DEF Next, Go

\* A frame heard whole was stored once, or dropped and the overflow noted.
LEMMA EndsInv ==
    ASSUME HearInv, RingHoldsUnread, [Next]_vars
    PROVE  [EndsStored]_vars
  <1> SUFFICES ASSUME Next, NEW p \in Ports, Ends(p), peer[p].whole, peer'[p] = NoFrame, Hears(p)'
               PROVE  \/ peer[p].took \o Stored(p) = <<peer[p].byte>>
                      \/ (peer[p].lost \/ Dropped(p)) /\ port'[p].overflow
    BY DEF EndsStored
  <1>1. peer[p].byte # -1  BY DEF Ends
  <1>2. Tick  BY <1>1, OnlyTickEnds
  <1>3. Heard(p)  BY <1>1 DEF HearInv
  <1>4. peer[p].at \in Nat /\ peer[p].at >= 28 /\ peer[p].took \in Seq(Int)
    <2>1. peer[p] \in FrameType  BY HearParts
    <2>2. PICK at \in Nat, slip \in {-1, 0, 1} : at = peer[p].at /\ slip = peer[p].slip
      BY <2>1 DEF FrameType
    <2>3. Older(p).at = at + 1 /\ Older(p).slip = slip  BY <2>1, <2>2 DEF Older, FrameType
    <2>4. Position(Older(p)) >= 30  BY DEF Ends
    <2>5. at >= 28  BY <2>2, <2>3, <2>4 DEF Position
    <2>6. peer[p].took \in Seq(Int)  BY <2>1 DEF FrameType
    <2> QED  BY <2>2, <2>5, <2>6
  <1>5. Stored(p) \in Seq(Int)  BY <1>1, <1>2, TickStores
  <1>6. PICK b \in Int : b = peer[p].byte
    <2>1. peer[p].byte \in Bytes \cup {-1}  BY HearParts DEF FrameType
    <2>2. peer[p].byte \in Bytes  BY <1>1, <2>1
    <2>3. \A b \in Bytes : b \in Int  BY BytesAre
    <2> QED  BY <2>2, <2>3
  <1>7. CASE peer[p].at = 28
    <2>1. peer[p].took = <<>>  BY <1>3, <1>7 DEF Heard
    <2>2. Stored(p) = <<b>> \/ (Dropped(p) /\ port'[p].overflow)
      BY <1>1, <1>2, <1>6, <1>7, TickStores
    <2>3. <<>> \o <<b>> = <<b>>  BY SingleSeq
    <2> QED  BY <1>6, <2>1, <2>2, <2>3
  <1>8. CASE peer[p].at > 28
    <2>1. peer[p].took = <<b>> \/ peer[p].lost  BY <1>3, <1>6, <1>8 DEF Heard
    <2>2. Stored(p) = <<>>  BY <1>1, <1>2, <1>4, <1>8, TickStores
    <2>3. peer[p].took \o <<>> = peer[p].took  BY <1>4, ConcatEmptySeq
    <2>4. peer[p].lost => port'[p].overflow
      <3>1. peer[p].lost => port[p].overflow  BY <1>3 DEF Heard
      <3>2. port[p].overflow => port'[p].overflow  BY <1>2, TickReceives DEF HearInv
      <3> QED  BY <3>1, <3>2
    <2> QED  BY <1>6, <2>1, <2>2, <2>3, <2>4
  <1> QED  BY <1>4, <1>7, <1>8

\* Whatever the peers send at a port's speed, with a first data bit a tick too
\* long or too short, and wherever between two ticks the sketch writes, reads
\* or flushes: a frame that recv() heard from its start to its end is stored
\* once, as it was sent, or found the ring full and set the overflow flag; and
\* read() returns what is stored, oldest first (SoftwareSerial.cpp:240-315).
THEOREM HeardAlwaysRead == Spec => HeardCanBeRead
  <1>1. Init => HearInv /\ RingHoldsUnread  BY HearInit
  <1>2. HearInv /\ RingHoldsUnread /\ [Next]_vars => HearInv' /\ RingHoldsUnread'
    BY HearStep
  <1>3. HearInv /\ RingHoldsUnread /\ [Next]_vars => [EndsStored]_vars  BY EndsInv
  <1>4. Spec => [][EndsStored]_vars /\ []RingHoldsUnread
    BY <1>1, <1>2, <1>3, PTL DEF Spec
  <1> QED  BY <1>4 DEF EndsStored, HeardIsStored, HeardCanBeRead

-----------------------------------------------------------------------------
(* What the peers read of the bytes a port writes.                           *)

ReaderType == [at : Int, bits : Seq(Bits), got : Seq(Int), broken : BOOLEAN]

WriteType ==
    /\ out \in Someone /\ level \in [Ports -> Bits]
    /\ reader \in [Ports -> ReaderType] /\ written \in [Ports -> Seq(Int)]

Writes == pc.call \in {"write", "go"}

\* One port writes, and while it does nobody changes the timer.
UserInv ==
    /\ Writes => pc.byte \in Bytes
    /\ \A p \in Ports : port[p].pending => Writes /\ pc.port = p
    /\ out = NoPort /\ ~Writes => \A p \in Ports : written[p] = <<>>
    /\ Writes => out \in {NoPort, pc.port} /\ \A p \in Ports : p # pc.port => written[p] = <<>>
    /\ pc.call \in {"listen", "arm", "stop", "go"} => out = NoPort
    /\ out # NoPort => speed = port[out].speed /\ \A p \in Ports : p # out => written[p] = <<>>
    /\ pc.call = "go" => /\ speed = port[pc.port].speed
                         /\ txBit = 0 /\ txTick = 3 /\ txBuf = Frame(pc.byte)

\* A port that does not send, all of whose bytes were read.
Silent(p) ==
    /\ level[p] = Invert(p, 1) /\ reader[p].at = -1 /\ ~reader[p].broken
    /\ reader[p].got = written[p]

\* How many bits of a frame the peer has sampled.
Sampled(k, t) == IF t = 3 THEN k - 1 ELSE k

\* A port is at bit k of byte b, t ticks before the next, with buf still to
\* send and l on its line; r is how far its peer is, that was sent w.
At(p, b, k, t, buf, l, r, w) ==
    /\ t \in 1..3 /\ k \in 0..10 /\ ~r.broken
    /\ buf \in Seq(Bits) /\ Len(buf) = 10 - k
    /\ \A i \in 1..(10 - k) : buf[i] = Frame(b)[k + i]
    /\ k = 0 => l = Invert(p, 1) /\ r.at = -1 /\ Append(r.got, b) = w
    /\ k # 0 => l = Invert(p, Frame(b)[k])
    /\ k \in 1..9 \/ (k = 10 /\ t = 3) =>
         /\ r.at = 3 * k - t /\ Append(r.got, b) = w
         /\ Len(r.bits) = Sampled(k, t)
         /\ \A i \in 1..Sampled(k, t) : r.bits[i] = Frame(b)[i]
    /\ k = 10 /\ t < 3 => r.at = -1 /\ r.got = w

Sending(p, b) == At(p, b, txBit, txTick, txBuf, level[p], reader[p], written[p])

SendInv ==
    /\ \A p \in Ports : p # out => Silent(p)
    /\ out # NoPort => \E b \in Bytes : Sending(out, b)

WriteInv == HearInv /\ RingHoldsUnread /\ WriteType /\ UserInv /\ SendInv

\* A level is inverted twice.
LEMMA InvertBack ==
    ASSUME NEW p, NEW x \in Bits
    PROVE  Invert(p, x) \in Bits /\ Invert(p, Invert(p, x)) = x
  BY DEF Invert, Bits

\* The frame of a byte the sketch uses.
LEMMA FrameOf ==
    ASSUME NEW b \in Bytes
    PROVE  /\ b \in Int /\ Frame(b) \in Seq(Bits) /\ Len(Frame(b)) = 10
           /\ Frame(b)[1] = 0 /\ Frame(b)[10] = 1
           /\ \A i \in 1..10 : Frame(b)[i] \in Bits
  <1>1. b \in 0..255  BY BytesAre
  <1>2. b \in Int  BY <1>1
  <1>3. /\ Frame(b) \in Seq(Bits) /\ Len(Frame(b)) = 10
        /\ Frame(b)[1] = 0 /\ Frame(b)[10] = 1
        /\ \A i \in 1..10 : Frame(b)[i] \in Bits
    BY <1>1, FrameIs
  <1> QED  BY <1>2, <1>3

\* A line that is idle, and not being read, is left alone.
LEMMA IdleLine ==
    ASSUME reader \in [Ports -> ReaderType], NEW v, Reads(v), NEW p \in Ports,
           v[p] = Invert(p, 1), reader[p].at = -1
    PROVE  reader'[p] = reader[p]
  BY DEF Reads

\* The interrupt changes neither the speed nor the pending flag of a port.
LEMMA TickKeepsPending ==
    ASSUME HearInv, RingHoldsUnread, Tick, NEW q \in Ports
    PROVE  port'[q].pending = port[q].pending
  <1>1. CASE in = NoPort
    <2>1. port' = port  BY <1>1 DEF Tick
    <2> QED  BY <2>1
  <1>2. CASE in # NoPort
    <2>1. Recv(in) /\ in \in Ports  BY <1>2, HearParts DEF Tick, Someone
    <2>2. port' = port \/ Store(in)  BY <2>1 DEF Recv
    <2>3. CASE Store(in)
      <3>1. \/ \E next, v : port' = [port EXCEPT ![in].buffer[port[in].tail] = v, ![in].tail = next]
            \/ port' = [port EXCEPT ![in].overflow = TRUE]
        BY <2>3 DEF Store
      <3>2. port \in [Ports -> PortType]  BY HearParts
      <3>3. ASSUME NEW next, NEW v,
                   port' = [port EXCEPT ![in].buffer[port[in].tail] = v, ![in].tail = next]
            PROVE  port'[q].pending = port[q].pending
        <4>1. CASE q = in
          <5>1. port'[in] = [port[in] EXCEPT !.buffer[port[in].tail] = v, !.tail = next]
            BY <2>1, <3>2, <3>3
          <5> QED  BY <2>1, <3>2, <4>1, <5>1, Zenon DEF PortType
        <4>2. CASE q # in  BY <3>2, <3>3, <4>2
        <4> QED  BY <4>1, <4>2
      <3>4. ASSUME port' = [port EXCEPT ![in].overflow = TRUE]
            PROVE  port'[q].pending = port[q].pending
        <4>1. CASE q = in
          <5>1. port'[in] = [port[in] EXCEPT !.overflow = TRUE]
            BY <2>1, <3>2, <3>4
          <5> QED  BY <2>1, <3>2, <4>1, <5>1, Zenon DEF PortType
        <4>2. CASE q # in  BY <3>2, <3>4, <4>2
        <4> QED  BY <4>1, <4>2
      <3> QED  BY <3>1, <3>3, <3>4
    <2> QED  BY <2>2, <2>3
  <1> QED  BY <1>1, <1>2

\* The types of a peer that reads.
LEMMA ReaderRecord ==
    ASSUME NEW at \in Int, NEW bits \in Seq(Bits), NEW got \in Seq(Int), NEW broken \in BOOLEAN
    PROVE  [at |-> at, bits |-> bits, got |-> got, broken |-> broken] \in ReaderType
  BY Zenon DEF ReaderType

\* What the peer makes of a line that is not idle or that it is reading.
LEMMA SamplesIs ==
    ASSUME NEW p \in Ports, NEW v, NEW x \in Bits, Invert(p, v) = x,
           NEW r, r = reader[p], r \in ReaderType
    PROVE  /\ r.at = -1 /\ x = 0 =>
                /\ Samples(p, v).at = 0 /\ Samples(p, v).bits = <<>>
                /\ Samples(p, v).got = r.got /\ Samples(p, v).broken = r.broken
                /\ Samples(p, v) \in ReaderType
           /\ r.at # -1 /\ r.at % 3 # 0 =>
                /\ Samples(p, v).at = r.at + 1 /\ Samples(p, v).bits = r.bits
                /\ Samples(p, v).got = r.got /\ Samples(p, v).broken = r.broken
                /\ Samples(p, v) \in ReaderType
           /\ r.at # -1 /\ r.at % 3 = 0 /\ Len(r.bits) < 9 =>
                /\ Samples(p, v).at = r.at + 1 /\ Samples(p, v).bits = Append(r.bits, x)
                /\ Samples(p, v).got = r.got /\ Samples(p, v).broken = r.broken
                /\ Samples(p, v) \in ReaderType
           /\ r.at # -1 /\ r.at % 3 = 0 /\ Len(r.bits) = 9 /\ x = 1 /\ ~r.broken =>
                /\ Samples(p, v).at = -1 /\ Samples(p, v).bits = <<>>
                /\ Samples(p, v).got = Append(r.got, Value(Tail(r.bits))) /\ ~Samples(p, v).broken
                /\ Samples(p, v) \in ReaderType
  <1>a. r = [at |-> r.at, bits |-> r.bits, got |-> r.got, broken |-> r.broken]
    BY Zenon DEF ReaderType
  <1>b. /\ r.at \in Int /\ r.bits \in Seq(Bits) /\ r.got \in Seq(Int) /\ r.broken \in BOOLEAN
    BY Zenon DEF ReaderType
  <1>1. ASSUME r.at = -1, x = 0
        PROVE  /\ Samples(p, v).at = 0 /\ Samples(p, v).bits = <<>>
               /\ Samples(p, v).got = r.got /\ Samples(p, v).broken = r.broken
               /\ Samples(p, v) \in ReaderType
    <2>1. Samples(p, v) = [r EXCEPT !.at = 0, !.bits = <<>>]
      BY <1>1 DEF Samples
    <2>2. Samples(p, v) = [at |-> 0, bits |-> <<>>, got |-> r.got, broken |-> r.broken]
      BY <1>a, <2>1, Zenon
    <2>3. 0 \in Int /\ <<>> \in Seq(Bits)  OBVIOUS
    <2>4. Samples(p, v) \in ReaderType  BY <1>b, <2>2, <2>3, ReaderRecord, Zenon
    <2>f. /\ Samples(p, v).at = 0 /\ Samples(p, v).bits = <<>>
          /\ Samples(p, v).got = r.got /\ Samples(p, v).broken = r.broken
      BY <1>a, <2>1, Zenon
    <2> QED  BY <2>f, <2>4
  <1>2. ASSUME r.at # -1, r.at % 3 # 0
        PROVE  /\ Samples(p, v).at = r.at + 1 /\ Samples(p, v).bits = r.bits
               /\ Samples(p, v).got = r.got /\ Samples(p, v).broken = r.broken
               /\ Samples(p, v) \in ReaderType
    <2>1. Samples(p, v) = [r EXCEPT !.at = @ + 1]
      BY <1>2, Zenon DEF Samples
    <2>2. Samples(p, v) = [at |-> r.at + 1, bits |-> r.bits, got |-> r.got, broken |-> r.broken]
      BY <1>a, <2>1, Zenon
    <2>3. r.at + 1 \in Int  BY <1>b
    <2>4. Samples(p, v) \in ReaderType  BY <1>b, <2>2, <2>3, ReaderRecord, Zenon
    <2>f. /\ Samples(p, v).at = r.at + 1 /\ Samples(p, v).bits = r.bits
          /\ Samples(p, v).got = r.got /\ Samples(p, v).broken = r.broken
      BY <1>a, <2>1, Zenon
    <2> QED  BY <2>f, <2>4
  <1>3. ASSUME r.at # -1, r.at % 3 = 0, Len(r.bits) < 9
        PROVE  /\ Samples(p, v).at = r.at + 1 /\ Samples(p, v).bits = Append(r.bits, x)
               /\ Samples(p, v).got = r.got /\ Samples(p, v).broken = r.broken
               /\ Samples(p, v) \in ReaderType
    <2>1. Samples(p, v) = [r EXCEPT !.at = @ + 1, !.bits = Append(@, x)]
      BY <1>3, Zenon DEF Samples
    <2>2. Samples(p, v) = [at |-> r.at + 1, bits |-> Append(r.bits, x), got |-> r.got, broken |-> r.broken]
      BY <1>a, <2>1, Zenon
    <2>3. r.at + 1 \in Int  BY <1>b
    <2>4. Append(r.bits, x) \in Seq(Bits)  BY <1>b, AppendProperties
    <2>5. Samples(p, v) \in ReaderType  BY <1>b, <2>2, <2>3, <2>4, ReaderRecord, Zenon
    <2>f. /\ Samples(p, v).at = r.at + 1 /\ Samples(p, v).bits = Append(r.bits, x)
          /\ Samples(p, v).got = r.got /\ Samples(p, v).broken = r.broken
      BY <1>a, <2>1, Zenon
    <2> QED  BY <2>f, <2>5
  <1>4. ASSUME r.at # -1, r.at % 3 = 0, Len(r.bits) = 9, x = 1, ~r.broken
        PROVE  /\ Samples(p, v).at = -1 /\ Samples(p, v).bits = <<>>
               /\ Samples(p, v).got = Append(r.got, Value(Tail(r.bits))) /\ ~Samples(p, v).broken
               /\ Samples(p, v) \in ReaderType
    <2>1. ~(Len(r.bits) < 9) /\ x # 0  BY <1>4
    <2>2. Samples(p, v) = [r EXCEPT !.at = -1, !.bits = <<>>,
                                    !.got = IF x = 1 THEN Append(@, Value(Tail(r.bits))) ELSE @,
                                    !.broken = @ \/ x = 0]
      BY <1>4, <2>1, Zenon DEF Samples
    <2>3. Samples(p, v) = [at |-> -1, bits |-> <<>>, got |-> Append(r.got, Value(Tail(r.bits))),
                           broken |-> FALSE]
      BY <1>4, <1>a, <2>1, <2>2, Zenon
    <2>4. -1 \in Int /\ <<>> \in Seq(Bits)  OBVIOUS
    <2>5. Append(r.got, Value(Tail(r.bits))) \in Seq(Int)
      <3>a. r.bits \in Seq(Bits) /\ Len(r.bits) >= 1  BY <1>4, <1>b
      <3>b. Tail(r.bits) \in Seq(Bits) /\ Len(Tail(r.bits)) = Len(r.bits) - 1  BY <3>a, TailProperties
      <3>1. Tail(r.bits) \in Seq(Bits) /\ Len(Tail(r.bits)) = 8  BY <1>4, <3>b
      <3>2. Value(Tail(r.bits)) \in Int  BY <3>1, ValueInt
      <3> QED  BY <1>b, <3>2, AppendProperties
    <2>6. Samples(p, v) \in ReaderType  BY <2>3, <2>4, <2>5, ReaderRecord, Zenon
    <2>f. /\ Samples(p, v).at = -1 /\ Samples(p, v).bits = <<>>
          /\ Samples(p, v).got = Append(r.got, Value(Tail(r.bits))) /\ ~Samples(p, v).broken
      BY <1>4, <1>a, <2>1, <2>2, Zenon
    <2> QED  BY <2>f, <2>6
  <1> QED  BY <1>1, <1>2, <1>3, <1>4

\* While a bit lasts, its peer samples it once.
LEMMA BitLasts ==
    ASSUME NEW p \in Ports, NEW b \in Bytes, NEW k \in 0..10, NEW t \in 2..3, NEW buf, NEW w,
           NEW r, NEW r2, r = reader[p], r \in ReaderType,
           NEW l, l = IF k = 0 THEN Invert(p, 1) ELSE Invert(p, Frame(b)[k]),
           At(p, b, k, t, buf, l, r, w),
           r2 = IF l # Invert(p, 1) \/ r.at # -1 THEN Samples(p, l) ELSE r
    PROVE  At(p, b, k, t - 1, buf, l, r2, w) /\ r2 \in ReaderType
  <1>1. PICK F \in Seq(Bits) : F = Frame(b)  BY FrameOf
  <1>2. /\ F[10] = 1 /\ Len(F) = 10 /\ \A i \in 1..10 : F[i] \in Bits  BY <1>1, FrameOf
  <1>3. /\ r.at \in Int /\ r.bits \in Seq(Bits) /\ r.got \in Seq(Int)  BY DEF ReaderType
  <1>4. t - 1 \in 1..3 /\ t - 1 # 3  OBVIOUS
  <1>5. /\ ~r.broken /\ buf \in Seq(Bits) /\ Len(buf) = 10 - k
        /\ \A i \in 1..(10 - k) : buf[i] = F[k + i]
        /\ k # 0 => l = Invert(p, F[k])
    BY <1>1 DEF At
  <1>6. CASE k = 0
    <2>1. l = Invert(p, 1) /\ r.at = -1 /\ Append(r.got, b) = w  BY <1>6 DEF At
    <2>2. r2 = r  BY <2>1
    <2> QED  BY <1>1, <1>4, <1>5, <1>6, <2>1, <2>2 DEF At
  <1>7. CASE k \in 1..9 \/ (k = 10 /\ t = 3)
    <2>1. /\ r.at = 3 * k - t /\ Append(r.got, b) = w
          /\ Len(r.bits) = Sampled(k, t) /\ \A i \in 1..Sampled(k, t) : r.bits[i] = F[i]
      BY <1>1, <1>7 DEF At
    <2>2. PICK x \in Bits : x = F[k]  BY <1>2, <1>7
    <2>3. Invert(p, l) = x  BY <1>5, <1>7, <2>2, InvertBack
    <2>4. r.at # -1 /\ r2 = Samples(p, l)
      <3>1. r.at >= 0  BY <1>7, <2>1
      <3> QED  BY <3>1
    <2>5. CASE t = 2
      <3>1. r.at % 3 # 0  BY <1>7, <2>1, <2>5
      <3>2. /\ r2.at = r.at + 1 /\ r2.bits = r.bits /\ r2.got = r.got /\ r2.broken = r.broken
            /\ r2 \in ReaderType
        BY <2>3, <2>4, <3>1, SamplesIs
      <3>3. ~r2.broken  BY <1>5, <3>2, Zenon
      <3>4. r2.at = 3 * k - (t - 1)  BY <1>3, <2>1, <3>2
      <3>5. Sampled(k, t) = k /\ Sampled(k, t - 1) = k  BY <2>5 DEF Sampled
      <3>6. Len(r2.bits) = k /\ \A i \in 1..k : r2.bits[i] = F[i]  BY <2>1, <3>2, <3>5
      <3>7. Append(r2.got, b) = w  BY <2>1, <3>2
      <3>8. k \in 1..9  BY <1>7, <2>5
      <3>9. Len(r2.bits) = Sampled(k, t - 1) /\ \A i \in 1..Sampled(k, t - 1) : r2.bits[i] = Frame(b)[i]
        BY <1>1, <3>5, <3>6
      <3>10. k # 0 /\ k # 10  BY <3>8
      <3>11. l = Invert(p, Frame(b)[k]) /\ \A i \in 1..(10 - k) : buf[i] = Frame(b)[k + i]
        BY <1>1, <1>5, <3>10
      <3>12. t - 1 \in 1..3 /\ k \in 0..10 /\ ~r2.broken /\ buf \in Seq(Bits) /\ Len(buf) = 10 - k
        BY <1>4, <1>5, <3>3
      <3>13. k \in 1..9 \/ (k = 10 /\ t - 1 = 3) =>
               /\ r2.at = 3 * k - (t - 1) /\ Append(r2.got, b) = w
               /\ Len(r2.bits) = Sampled(k, t - 1)
               /\ \A i \in 1..Sampled(k, t - 1) : r2.bits[i] = Frame(b)[i]
        BY <3>4, <3>7, <3>9
      <3>14. /\ k = 0 => l = Invert(p, 1) /\ r2.at = -1 /\ Append(r2.got, b) = w
             /\ k # 0 => l = Invert(p, Frame(b)[k])
             /\ k = 10 /\ t - 1 < 3 => r2.at = -1 /\ r2.got = w
        BY <3>10, <3>11
      <3> QED  BY <3>2, <3>11, <3>12, <3>13, <3>14, Zenon DEF At
    <2>6. CASE t = 3 /\ k # 10
      <3>1. r.at % 3 = 0 /\ Len(r.bits) = k - 1 /\ Len(r.bits) < 9  BY <1>7, <2>1, <2>6 DEF Sampled
      <3>2. /\ r2.at = r.at + 1 /\ r2.bits = Append(r.bits, x) /\ r2.got = r.got
            /\ r2.broken = r.broken /\ r2 \in ReaderType
        BY <2>3, <2>4, <3>1, SamplesIs, SMTT(30)
      <3>3. ~r2.broken  BY <1>5, <3>2, Zenon
      <3>4. r2.at = 3 * k - (t - 1)  BY <1>3, <2>1, <2>6, <3>2
      <3>5. Sampled(k, t) = k - 1 /\ Sampled(k, t - 1) = k  BY <2>6 DEF Sampled
      <3>6. /\ Len(Append(r.bits, x)) = Len(r.bits) + 1
            /\ \A i \in 1..Len(r.bits) : Append(r.bits, x)[i] = r.bits[i]
            /\ Append(r.bits, x)[Len(r.bits) + 1] = x
        BY <1>3, AppendProperties
      <3>7. Len(r2.bits) = k  BY <3>1, <3>2, <3>6
      <3>8. ASSUME NEW i \in 1..k PROVE r2.bits[i] = F[i]
        <4>1. CASE i = k  BY <2>2, <3>1, <3>2, <3>6, <4>1
        <4>2. CASE i # k
          <5>1. i \in 1..(k - 1)  BY <4>2
          <5>2. r.bits[i] = F[i]  BY <2>1, <3>5, <5>1
          <5>3. Append(r.bits, x)[i] = r.bits[i]  BY <3>1, <3>6, <5>1
          <5> QED  BY <3>2, <5>2, <5>3
        <4> QED  BY <4>1, <4>2
      <3>9. Append(r2.got, b) = w  BY <2>1, <3>2
      <3> QED  BY <1>1, <1>4, <1>5, <1>7, <2>6, <3>2, <3>3, <3>4, <3>5, <3>7, <3>8, <3>9 DEF At
    <2>7. CASE t = 3 /\ k = 10
      <3>1. r.at % 3 = 0 /\ Len(r.bits) = 9 /\ x = 1
        BY <1>2, <2>1, <2>2, <2>7 DEF Sampled
      <3>a. r.at # -1 /\ r.at % 3 = 0 /\ Len(r.bits) = 9 /\ x = 1 /\ ~r.broken
        BY <1>5, <2>4, <3>1, Zenon
      <3>b. /\ Samples(p, l).at = -1 /\ Samples(p, l).bits = <<>>
            /\ Samples(p, l).got = Append(r.got, Value(Tail(r.bits))) /\ ~Samples(p, l).broken
            /\ Samples(p, l) \in ReaderType
        BY <2>3, <3>a, SamplesIs, SMTT(30)
      <3>2. /\ r2.at = -1 /\ r2.got = Append(r.got, Value(Tail(r.bits))) /\ ~r2.broken
            /\ r2 \in ReaderType
        BY <2>4, <3>b, Zenon
      <3>3. Value(Tail(r.bits)) = b
        <4>1. /\ Tail(r.bits) \in Seq(Bits) /\ Len(Tail(r.bits)) = Len(r.bits) - 1
              /\ \A i \in 1..(Len(r.bits) - 1) : Tail(r.bits)[i] = r.bits[i + 1]
          <5>1. Len(r.bits) >= 1  BY <3>1
          <5> QED  BY <1>3, <5>1, TailProperties
        <4>2. Sampled(k, t) = 9  BY <2>7 DEF Sampled
        <4>3. \A i \in 1..8 : Tail(r.bits)[i] = F[i + 1]
          <5>1. TAKE i \in 1..8
          <5>2. i + 1 \in 1..9  OBVIOUS
          <5>3. r.bits[i + 1] = F[i + 1]  BY <2>1, <4>2, <5>2
          <5>4. i \in 1..(Len(r.bits) - 1)  BY <3>1
          <5>5. Tail(r.bits)[i] = r.bits[i + 1]  BY <4>1, <5>4
          <5> QED  BY <5>3, <5>5
        <4>4. b \in 0..255  BY BytesAre
        <4>5. Len(Tail(r.bits)) = 8  BY <3>1, <4>1
        <4> QED  BY <1>1, <4>1, <4>3, <4>4, <4>5, ValueOfFrame
      <3>4. r2.got = w  BY <2>1, <3>2, <3>3
      <3> QED  BY <1>1, <1>4, <1>5, <2>7, <3>2, <3>4 DEF At
    <2> QED  BY <1>7, <2>5, <2>6, <2>7
  <1>8. CASE k = 10 /\ t = 2
    <2>1. r.at = -1 /\ r.got = w /\ l = Invert(p, 1)  BY <1>1, <1>2, <1>5, <1>8 DEF At
    <2>2. r2 = r  BY <2>1
    <2> QED  BY <1>1, <1>4, <1>5, <1>8, <2>1, <2>2 DEF At
  <1> QED  BY <1>6, <1>7, <1>8

\* The next bit is put on the line; the peer notices the first, and samples none.
LEMMA BitEnds ==
    ASSUME NEW p \in Ports, NEW b \in Bytes, NEW k \in 0..9, NEW buf, NEW w, NEW l0,
           NEW r, NEW r2, r = reader[p], r \in ReaderType,
           At(p, b, k, 1, buf, l0, r, w),
           NEW l, l = Invert(p, Head(buf)),
           r2 = IF l # Invert(p, 1) \/ r.at # -1 THEN Samples(p, l) ELSE r
    PROVE  At(p, b, k + 1, 3, Tail(buf), l, r2, w) /\ r2 \in ReaderType /\ Head(buf) \in Bits
  <1>1. PICK F \in Seq(Bits) : F = Frame(b)  BY FrameOf
  <1>2. /\ F[1] = 0 /\ Len(F) = 10 /\ \A i \in 1..10 : F[i] \in Bits  BY <1>1, FrameOf
  <1>3. /\ r.at \in Int /\ r.bits \in Seq(Bits) /\ r.got \in Seq(Int)  BY DEF ReaderType
  <1>4. /\ ~r.broken /\ buf \in Seq(Bits) /\ Len(buf) = 10 - k
        /\ \A i \in 1..(10 - k) : buf[i] = F[k + i]
    BY <1>1 DEF At
  <1>5. Len(buf) >= 1 /\ Head(buf) = buf[1]  BY <1>4
  <1>6. buf[1] = F[k + 1]
    <2>1. 1 \in 1..(10 - k)  OBVIOUS
    <2> QED  BY <1>4, <2>1
  <1>7. PICK x \in Bits : x = F[k + 1]
    <2>1. k + 1 \in 1..10  OBVIOUS
    <2> QED  BY <1>2, <2>1
  <1>8. Head(buf) = x /\ l = Invert(p, x) /\ Invert(p, l) = x
    BY <1>5, <1>6, <1>7, InvertBack
  <1>9. /\ Tail(buf) \in Seq(Bits) /\ Len(Tail(buf)) = 10 - (k + 1)
        /\ \A i \in 1..(10 - (k + 1)) : Tail(buf)[i] = Frame(b)[(k + 1) + i]
    <2>1. /\ Tail(buf) \in Seq(Bits) /\ Len(Tail(buf)) = Len(buf) - 1
          /\ \A i \in 1..(Len(buf) - 1) : Tail(buf)[i] = buf[i + 1]
      BY <1>4, <1>5, TailProperties
    <2>2. Len(Tail(buf)) = 10 - (k + 1)  BY <1>4, <2>1
    <2>3. ASSUME NEW i \in 1..(10 - (k + 1)) PROVE Tail(buf)[i] = Frame(b)[(k + 1) + i]
      <3>1. i \in 1..(Len(buf) - 1) /\ i + 1 \in 1..(10 - k)  BY <1>4
      <3>2. Tail(buf)[i] = buf[i + 1]  BY <2>1, <3>1
      <3>3. buf[i + 1] = F[k + (i + 1)]  BY <1>4, <3>1
      <3>4. k + (i + 1) = (k + 1) + i  OBVIOUS
      <3> QED  BY <1>1, <3>2, <3>3, <3>4
    <2> QED  BY <2>1, <2>2, <2>3
  <1>10. /\ r2.at = 3 * (k + 1) - 3 /\ Append(r2.got, b) = w /\ ~r2.broken /\ r2 \in ReaderType
         /\ Len(r2.bits) = k /\ \A i \in 1..k : r2.bits[i] = F[i]
    <2>1. CASE k = 0
      <3>1. r.at = -1 /\ Append(r.got, b) = w  BY <2>1 DEF At
      <3>2. x = 0  BY <1>2, <1>7, <2>1
      <3>3. l # Invert(p, 1)  BY <1>8, <3>2, InvertBack DEF Bits
      <3>4. r2 = Samples(p, l)  BY <3>3
      <3>5. /\ r2.at = 0 /\ r2.bits = <<>> /\ r2.got = r.got /\ r2.broken = r.broken
            /\ r2 \in ReaderType
        BY <1>8, <3>1, <3>2, <3>4, SamplesIs
      <3>6. ~r2.broken  BY <1>4, <3>5, Zenon
      <3>7. Len(r2.bits) = 0  BY <3>5
      <3> QED  BY <2>1, <3>1, <3>5, <3>6, <3>7, SMTT(30)
    <2>2. CASE k # 0
      <3>1. /\ r.at = 3 * k - 1 /\ Append(r.got, b) = w
            /\ Len(r.bits) = Sampled(k, 1) /\ \A i \in 1..Sampled(k, 1) : r.bits[i] = F[i]
        <4>1. k \in 1..9  BY <2>2
        <4> QED  BY <1>1, <4>1 DEF At
      <3>2. Sampled(k, 1) = k  BY DEF Sampled
      <3>3. r.at # -1 /\ r.at % 3 # 0
        <4>1. k \in 1..9  BY <2>2
        <4> QED  BY <3>1, <4>1
      <3>4. r2 = Samples(p, l)  BY <3>3
      <3>5. /\ r2.at = r.at + 1 /\ r2.bits = r.bits /\ r2.got = r.got /\ r2.broken = r.broken
            /\ r2 \in ReaderType
        BY <1>8, <3>3, <3>4, SamplesIs
      <3>6. ~r2.broken  BY <1>4, <3>5, Zenon
      <3>7. r2.at = 3 * (k + 1) - 3  BY <3>1, <3>5
      <3> QED  BY <3>1, <3>2, <3>5, <3>6, <3>7
    <2> QED  BY <2>1, <2>2
  <1>11. Sampled(k + 1, 3) = k  BY DEF Sampled
  <1>12. At(p, b, k + 1, 3, Tail(buf), l, r2, w)
    <2>1. 3 \in 1..3 /\ k + 1 \in 0..10 /\ k + 1 # 0 /\ ~(3 < 3)  OBVIOUS
    <2>2. l = Invert(p, Frame(b)[k + 1])  BY <1>1, <1>7, <1>8
    <2>3. /\ Len(r2.bits) = Sampled(k + 1, 3)
          /\ \A i \in 1..Sampled(k + 1, 3) : r2.bits[i] = Frame(b)[i]
      BY <1>1, <1>10, <1>11
    <2> QED  BY <1>9, <1>10, <2>1, <2>2, <2>3, Zenon DEF At
  <1> QED  BY <1>8, <1>10, <1>12

\* A tick for the port that sends.
LEMMA SendTicks ==
    ASSUME WriteInv, Tick, NEW p \in Ports, out = p, NEW b \in Bytes, Sending(p, b)
    PROVE  /\ Sending(p, b)' /\ reader'[p] \in ReaderType /\ level' \in [Ports -> Bits]
           /\ \A q \in Ports : q # p => level'[q] = level[q]
           /\ out' = p \/ (out' = NoPort /\ port[p].pending /\ txBit' = 10 /\ txTick' = 1)
  <1>1. Send(p) /\ Reads(level') /\ written' = written
    <2>1. out # NoPort  BY SoftwareSerialAssumption
    <2> QED  BY <2>1 DEF Tick
  <1>2. At(p, b, txBit, txTick, txBuf, level[p], reader[p], written[p])  BY DEF Sending
  <1>3. txTick \in 1..3 /\ txBit \in 0..10  BY <1>2 DEF At
  <1>4. /\ level \in [Ports -> Bits] /\ reader \in [Ports -> ReaderType]
        /\ reader[p] \in ReaderType /\ level[p] \in Bits
    BY DEF WriteInv, WriteType
  <1>5. reader'[p] = IF level'[p] # Invert(p, 1) \/ reader[p].at # -1
                     THEN Samples(p, level'[p]) ELSE reader[p]
    <2>1. speed = port[p].speed
      <3>1. out # NoPort  BY SoftwareSerialAssumption
      <3> QED  BY <3>1 DEF WriteInv, UserInv
    <2> QED  BY <1>1, <2>1 DEF Reads
  <1>6. level[p] = IF txBit = 0 THEN Invert(p, 1) ELSE Invert(p, Frame(b)[txBit])
    BY <1>2 DEF At
  <1>7. CASE txTick # 1
    <2>1. txTick' = txTick - 1 /\ UNCHANGED <<txBit, txBuf, level, out>>
      BY <1>1, <1>3, <1>7 DEF Send
    <2>2. txTick \in 2..3  BY <1>3, <1>7
    <2>3. level'[p] = level[p]  BY <2>1
    <2>4. At(p, b, txBit, txTick - 1, txBuf, level[p], reader'[p], written[p]) /\ reader'[p] \in ReaderType
      BY <1>2, <1>3, <1>4, <1>5, <1>6, <2>2, <2>3, BitLasts
    <2>5. Sending(p, b)'  BY <1>1, <2>1, <2>4 DEF Sending
    <2> QED  BY <1>4, <2>1, <2>4, <2>5
  <1>8. CASE txTick = 1 /\ txBit # 10
    <2>1. /\ level' = [level EXCEPT ![p] = Invert(p, Head(txBuf))]
          /\ txBuf' = Tail(txBuf) /\ txTick' = 3 /\ txBit' = txBit + 1 /\ out' = out
      BY <1>1, <1>3, <1>8 DEF Send, OVERSAMPLE
    <2>2. txBit \in 0..9  BY <1>3, <1>8
    <2>3. level'[p] = Invert(p, Head(txBuf)) /\ \A q \in Ports : q # p => level'[q] = level[q]
      BY <1>4, <2>1
    <2>4. At(p, b, txBit, 1, txBuf, level[p], reader[p], written[p])  BY <1>2, <1>8
    <2>5. /\ At(p, b, txBit + 1, 3, Tail(txBuf), level'[p], reader'[p], written[p])
          /\ reader'[p] \in ReaderType /\ Head(txBuf) \in Bits
      BY <1>4, <1>5, <2>2, <2>3, <2>4, BitEnds
    <2>6. Sending(p, b)'  BY <1>1, <2>1, <2>5 DEF Sending
    <2>7. level' \in [Ports -> Bits]
      <3>1. Invert(p, Head(txBuf)) \in Bits  BY <2>5, InvertBack
      <3> QED  BY <1>4, <2>1, <3>1
    <2> QED  BY <2>1, <2>3, <2>5, <2>6, <2>7
  <1>9. CASE txTick = 1 /\ txBit = 10
    <2>1. /\ txTick' = 1 /\ UNCHANGED <<txBit, txBuf, level>>
          /\ out' = IF port[p].pending THEN NoPort ELSE out
      BY <1>1, <1>9 DEF Send
    <2>2. reader[p].at = -1  BY <1>2, <1>9 DEF At
    <2>3. level[p] = Invert(p, 1)
      <3>1. Frame(b)[10] = 1  BY FrameOf
      <3> QED  BY <1>6, <1>9, <3>1
    <2>4. reader'[p] = reader[p]  BY <1>5, <2>1, <2>2, <2>3
    <2>5. Sending(p, b)'  BY <1>1, <1>2, <1>9, <2>1, <2>4 DEF Sending
    <2> QED  BY <1>4, <1>9, <2>1, <2>4, <2>5
  <1> QED  BY <1>7, <1>8, <1>9

\* What a step must keep besides what is heard.
WriteStep == WriteType' /\ UserInv' /\ SendInv'

\* A step that changes no line and no transmitter.
LEMMA SendKept ==
    ASSUME WriteInv, UNCHANGED <<txTick, txBit, txBuf, level, out, reader, written>>
    PROVE  WriteType' /\ SendInv'
  <1>1. WriteType'  BY DEF WriteInv, WriteType
  <1>4. \A p \in Ports : Silent(p) => Silent(p)'  BY DEF Silent
  <1>5. \A p \in Ports : \A b \in Bytes : Sending(p, b) => Sending(p, b)'  BY DEF Sending
  <1>6. SendInv'
    <2>1. ASSUME NEW p \in Ports, p # out' PROVE Silent(p)'  BY <1>4, <2>1 DEF WriteInv, SendInv
    <2>2. ASSUME out' # NoPort PROVE \E b \in Bytes : Sending(out, b)'
      <3>1. out \in Ports  BY <2>2 DEF WriteInv, WriteType, Someone
      <3>2. \E b \in Bytes : Sending(out, b)  BY <2>2 DEF WriteInv, SendInv
      <3> QED  BY <1>5, <3>1, <3>2
    <2>3. \A b \in Bytes : Sending(out, b)' <=> At(out', b, txBit', txTick', txBuf', level'[out'], reader'[out'], written'[out'])
      BY DEF Sending
    <2> QED  BY <2>1, <2>2, <2>3 DEF SendInv, Sending
  <1> QED  BY <1>1, <1>6

\* Nor the timer, nor a call.
LEMMA UserKept ==
    ASSUME WriteInv, UNCHANGED <<txTick, txBit, txBuf, out, written, pc, speed>>,
           \A q \in Ports : port'[q].speed = port[q].speed /\ (port'[q].pending => port[q].pending)
    PROVE  UserInv'
  <1>1. pc.call # "none" => pc.port \in Ports  BY HearParts DEF WriteInv
  <1>2. out = NoPort \/ out \in Ports  BY DEF WriteInv, WriteType, Someone
  <1> QED  BY <1>1, <1>2 DEF WriteInv, UserInv, Writes

\* A tick moves the frame of the port that sends; the others stay silent.
LEMMA TickWrites ==
    ASSUME WriteInv, Tick
    PROVE  WriteStep
  <1>1. /\ pc' = pc /\ speed' = speed /\ written' = written /\ Reads(level')
        /\ \A q \in Ports : port'[q].speed = port[q].speed /\ port'[q].pending = port[q].pending
    BY TickReceives, TickKeepsPending DEF Tick, WriteInv, HearInv
  <1>2. reader \in [Ports -> ReaderType] /\ level \in [Ports -> Bits] /\ out \in Someone
        /\ written \in [Ports -> Seq(Int)]
    BY DEF WriteInv, WriteType
  <1>3. \A q \in Ports : q # out => Silent(q)  BY DEF WriteInv, SendInv
  <1>4. CASE out = NoPort
    <2>1. UNCHANGED <<txTick, txBit, txBuf, level, out>>  BY <1>4 DEF Tick
    <2>2. \A q \in Ports : reader'[q] = reader[q]
      <3>1. TAKE q \in Ports
      <3>2. Silent(q)  BY <1>3, <1>4, SoftwareSerialAssumption
      <3> QED  BY <1>1, <1>2, <2>1, <3>2, IdleLine DEF Silent
    <2>3. reader' = reader
      <3>1. reader' = [q \in Ports |-> reader'[q]]  BY <1>1 DEF Reads
      <3> QED  BY <1>2, <2>2, <3>1
    <2> QED  BY <1>1, <2>1, <2>3, SendKept, UserKept DEF WriteStep
  <1>5. CASE out # NoPort
    <2>1. PICK p \in Ports : p = out  BY <1>2, <1>5 DEF Someone
    <2>2. PICK b \in Bytes : Sending(p, b)  BY <1>5, <2>1 DEF WriteInv, SendInv
    <2>3. /\ Sending(p, b)' /\ reader'[p] \in ReaderType /\ level' \in [Ports -> Bits]
          /\ \A q \in Ports : q # p => level'[q] = level[q]
          /\ out' = p \/ (out' = NoPort /\ port[p].pending /\ txBit' = 10 /\ txTick' = 1)
      BY <2>1, <2>2, SendTicks
    <2>4. ASSUME NEW q \in Ports, q # p PROVE reader'[q] = reader[q] /\ Silent(q)'
      <3>1. Silent(q) /\ level'[q] = level[q]  BY <1>3, <2>1, <2>3, <2>4
      <3>2. reader'[q] = reader[q]  BY <1>1, <1>2, <3>1, IdleLine DEF Silent
      <3> QED  BY <1>1, <3>1, <3>2 DEF Silent
    <2>5. WriteType'
      <3>1. reader' \in [Ports -> ReaderType]
        <4>1. reader' = [q \in Ports |-> reader'[q]]  BY <1>1 DEF Reads
        <4>2. \A q \in Ports : reader'[q] \in ReaderType  BY <1>2, <2>3, <2>4
        <4> QED  BY <4>1, <4>2
      <3>2. out' \in Someone  BY <2>1, <2>3 DEF Someone
      <3> QED  BY <1>1, <1>2, <2>3, <3>1, <3>2 DEF WriteType
    <2>6. SendInv'
      <3>1. CASE out' = p
        BY <2>3, <2>4, <3>1 DEF SendInv, Sending
      <3>2. CASE out' = NoPort /\ txBit' = 10 /\ txTick' = 1
        <4>1. Silent(p)'
          <5>1. Frame(b)[10] = 1  BY FrameOf
          <5>2. At(p, b, 10, 1, txBuf', level'[p], reader'[p], written'[p])
            BY <2>3, <3>2 DEF Sending
          <5> QED  BY <5>1, <5>2 DEF At, Silent
        <4> QED  BY <2>4, <3>2, <4>1 DEF SendInv
      <3> QED  BY <2>3, <3>1, <3>2
    <2>7. UserInv'
      <3>1. pc.call # "none" => pc.port \in Ports  BY HearParts DEF WriteInv
      <3>2. pc.call \notin {"listen", "arm", "stop", "go"}  BY <1>5 DEF WriteInv, UserInv
      <3>3. speed = port[p].speed /\ \A q \in Ports : q # p => written[q] = <<>>
        BY <1>5, <2>1 DEF WriteInv, UserInv
      <3>4. /\ Writes => pc.byte \in Bytes
            /\ \A q \in Ports : port[q].pending => Writes /\ pc.port = q
            /\ Writes => p = pc.port /\ \A q \in Ports : q # pc.port => written[q] = <<>>
        BY <1>5, <2>1 DEF WriteInv, UserInv
      <3>6. Writes' <=> Writes  BY <1>1 DEF Writes
      <3>7. out' = p \/ (out' = NoPort /\ Writes)  BY <2>3, <3>4
      <3> QED  BY <1>1, <3>2, <3>3, <3>4, <3>6, <3>7, SoftwareSerialAssumption DEF UserInv
    <2> QED  BY <2>5, <2>6, <2>7 DEF WriteStep
  <1> QED  BY <1>4, <1>5

\* Calls that need the transmitter free, and write(), which marks its port.
LEMMA CallWrites ==
    ASSUME Careful, WriteInv, NEW p \in Ports, Begin(p) \/ Listen(p) \/ StopListening(p) \/ Write(p)
    PROVE  WriteStep
  <1>1. /\ port \in [Ports -> PortType] /\ level \in [Ports -> Bits] /\ Idle.call = "none"
    BY HearParts DEF WriteInv, WriteType, Idle
  <1>2. CASE Begin(p)
    <2>1. /\ out = NoPort /\ pc = Idle
          /\ pc' = pc \/ pc' = [call |-> "listen", port |-> p, byte |-> -1]
          /\ level' = [level EXCEPT ![p] = Invert(p, 1)]
          /\ UNCHANGED <<txTick, txBit, txBuf, out, speed, reader, written>>
      BY <1>2 DEF Begin, Enter, timer, outside
    <2>2. PICK s \in Speeds : port' = [port EXCEPT ![p].speed = s]  BY <1>2 DEF Begin
    <2>3. \A q \in Ports : port'[q].pending => port[q].pending
      BY <1>1, <2>2, Zenon DEF PortType
    <2>4. level' = level
      <3>1. Silent(p)  BY <2>1, SoftwareSerialAssumption DEF WriteInv, SendInv
      <3> QED  BY <1>1, <2>1, <3>1 DEF Silent
    <2>5. WriteType' /\ SendInv'  BY <2>1, <2>4, SendKept
    <2>6. ~Writes /\ ~Writes'  BY <1>1, <2>1 DEF Writes
    <2>7. \A q \in Ports : ~port[q].pending /\ written[q] = <<>>
      BY <2>1, <2>6 DEF WriteInv, UserInv
    <2>8. UserInv'
      <3>1. pc'.call # "go"  BY <1>1, <2>1
      <3> QED  BY <2>1, <2>3, <2>6, <2>7, <3>1 DEF UserInv
    <2> QED  BY <2>5, <2>8 DEF WriteStep
  <1>3. CASE Listen(p) \/ StopListening(p)
    <2>1. /\ out = NoPort /\ pc = Idle /\ pc'.call \in {"listen", "stop"}
          /\ UNCHANGED <<txTick, txBit, txBuf, level, out, speed, reader, written, port>>
      BY <1>3 DEF Listen, StopListening, Enter, timer, tx, outside
    <2>2. WriteType' /\ SendInv'  BY <2>1, SendKept
    <2>3. ~Writes /\ ~Writes'  BY <1>1, <2>1 DEF Writes
    <2>4. \A q \in Ports : ~port[q].pending /\ written[q] = <<>>
      BY <2>1, <2>3 DEF WriteInv, UserInv
    <2>5. UserInv'  BY <2>1, <2>3, <2>4 DEF UserInv
    <2> QED  BY <2>2, <2>5 DEF WriteStep
  <1>4. CASE Write(p)
    <2>1. PICK b \in Bytes : pc = Idle /\ pc' = [call |-> "write", port |-> p, byte |-> b]
      BY <1>4 DEF Write, Enter
    <2>2. /\ out \in {NoPort, p} /\ port' = [port EXCEPT ![p].pending = TRUE]
          /\ UNCHANGED <<txTick, txBit, txBuf, level, out, speed, reader, written>>
      BY <1>4 DEF Write, timer, tx, outside
    <2>3. WriteType' /\ SendInv'  BY <2>2, SendKept
    <2>4. ~Writes /\ Writes' /\ pc'.call = "write" /\ pc'.port = p /\ pc'.byte = b
      BY <1>1, <2>1 DEF Writes
    <2>5. \A q \in Ports : /\ port'[q].speed = port[q].speed
                           /\ q # p => port'[q].pending = port[q].pending
      BY <1>1, <2>2 DEF PortType
    <2>6. \A q \in Ports : ~port[q].pending  BY <2>4 DEF WriteInv, UserInv
    <2>7. \A q \in Ports : q # p => written[q] = <<>>
      BY <2>2, <2>4 DEF WriteInv, UserInv
    <2>8. UserInv'
      <3>1. out' # NoPort => speed' = port'[out'].speed /\ \A q \in Ports : q # out' => written'[q] = <<>>
        BY <2>2, <2>5, <2>7 DEF WriteInv, UserInv
      <3>2. \A q \in Ports : port'[q].pending => q = p  BY <2>5, <2>6
      <3> QED  BY <2>1, <2>2, <2>4, <2>7, <3>1, <3>2 DEF UserInv
    <2> QED  BY <2>3, <2>8 DEF WriteStep
  <1> QED  BY <1>2, <1>3, <1>4

\* A step of a call that needs the transmitter free, or has it.
LEMMA GoWrites ==
    ASSUME WriteInv, Go
    PROVE  WriteStep
  <1>1. /\ port \in [Ports -> PortType] /\ Idle.call = "none" /\ NoPort \notin Ports
        /\ pc.call # "none" => pc.port \in Ports
        /\ pc \in [call : CallNames, port : Someone, byte : Bytes \cup {-1}]
    BY HearParts, SoftwareSerialAssumption DEF WriteInv, Idle
  <1>2. CASE ListenStop \/ ListenArm \/ Stop
    <2>1. /\ pc.call \in {"listen", "arm", "stop"} /\ pc'.call \in {"arm", "none"}
          /\ UNCHANGED <<txTick, txBit, txBuf, level, out, reader, written, port>>
      BY <1>1, <1>2 DEF ListenStop, ListenArm, Stop, tx, outside
    <2>2. WriteType' /\ SendInv'  BY <2>1, SendKept
    <2>3. ~Writes /\ ~Writes' /\ out = NoPort
      BY <2>1 DEF Writes, WriteInv, UserInv
    <2>4. \A q \in Ports : ~port[q].pending /\ written[q] = <<>>
      BY <2>3 DEF WriteInv, UserInv
    <2>5. UserInv'  BY <2>1, <2>3, <2>4 DEF UserInv
    <2> QED  BY <2>2, <2>5 DEF WriteStep
  <1>3. CASE WriteLoad
    <2>1. /\ pc.call = "write" /\ out = NoPort /\ pc' = [pc EXCEPT !.call = "go"]
          /\ txBuf' = Frame(pc.byte) /\ txBit' = 0 /\ txTick' = 3
          /\ speed' = port[pc.port].speed
          /\ UNCHANGED <<level, out, reader, written, port>>
      BY <1>3 DEF WriteLoad, OVERSAMPLE
    <2>2. pc'.call = "go" /\ pc'.port = pc.port /\ pc'.byte = pc.byte  BY <1>1, <2>1
    <2>3. Writes /\ Writes'  BY <2>1, <2>2 DEF Writes
    <2>4. WriteType'  BY <2>1 DEF WriteInv, WriteType
    <2>5. SendInv'
      <3>1. \A q \in Ports : Silent(q)  BY <1>1, <2>1 DEF WriteInv, SendInv
      <3> QED  BY <2>1, <3>1 DEF SendInv, Silent
    <2>6. UserInv'
      BY <2>1, <2>2, <2>3 DEF WriteInv, UserInv
    <2> QED  BY <2>4, <2>5, <2>6 DEF WriteStep
  <1>4. CASE WriteGo
    <2>1. PICK p \in Ports : p = pc.port  BY <1>1, <1>4 DEF WriteGo
    <2>2. /\ pc.call = "go" /\ pc' = Idle /\ out' = p
          /\ port' = [port EXCEPT ![p].pending = FALSE]
          /\ written' = [written EXCEPT ![p] = Append(@, pc.byte)]
          /\ UNCHANGED <<speed, txTick, txBit, txBuf, level, reader>>
      BY <1>4, <2>1 DEF WriteGo, tx, outside
    <2>3. Writes /\ ~Writes'  BY <1>1, <2>2 DEF Writes
    <2>4. /\ pc.byte \in Bytes /\ out = NoPort /\ speed = port[p].speed
          /\ txBit = 0 /\ txTick = 3 /\ txBuf = Frame(pc.byte)
          /\ \A q \in Ports : q # p => written[q] = <<>> /\ ~port[q].pending
      BY <2>1, <2>2, <2>3 DEF WriteInv, UserInv
    <2>5. PICK b \in Bytes : b = pc.byte  BY <2>4
    <2>6. /\ \A q \in Ports : port'[q].speed = port[q].speed /\ ~port'[q].pending
      BY <1>1, <2>2, <2>4 DEF PortType
    <2>7. \A q \in Ports : Silent(q)  BY <1>1, <2>4 DEF WriteInv, SendInv
    <2>8. /\ written' \in [Ports -> Seq(Int)] /\ written'[p] = Append(written[p], b)
          /\ \A q \in Ports : q # p => written'[q] = written[q]
      <3>1. written \in [Ports -> Seq(Int)] /\ b \in Int  BY FrameOf DEF WriteInv, WriteType
      <3>2. Append(written[p], b) \in Seq(Int)  BY <3>1, AppendProperties
      <3> QED  BY <2>2, <2>5, <3>1, <3>2
    <2>9. WriteType'  BY <2>2, <2>8 DEF WriteInv, WriteType, Someone
    <2>10. Sending(p, b)'
      <3>1. Silent(p)  BY <2>7
      <3>2. Frame(b) \in Seq(Bits) /\ Len(Frame(b)) = 10  BY FrameOf
      <3>3. At(p, b, 0, 3, Frame(b), level[p], reader[p], written'[p])
        BY <2>8, <3>1, <3>2 DEF At, Silent
      <3> QED  BY <2>2, <2>4, <2>5, <3>3 DEF Sending
    <2>11. SendInv'
      <3>1. \A q \in Ports : q # p => Silent(q)'  BY <2>2, <2>7, <2>8 DEF Silent
      <3> QED  BY <2>2, <2>10, <3>1 DEF SendInv, Sending
    <2>12. UserInv'
      <3>1. pc'.call = "none"  BY <1>1, <2>2
      <3> QED  BY <1>1, <2>2, <2>3, <2>4, <2>6, <2>8, <3>1 DEF UserInv
    <2> QED  BY <2>9, <2>11, <2>12 DEF WriteStep
  <1> QED  BY <1>2, <1>3, <1>4 DEF Go

\* The peers, read() and flush() leave what is sent alone.
LEMMA RestWrites ==
    ASSUME WriteInv, NEW p \in Ports, PeerStarts(p) \/ Read(p) \/ Flush(p)
    PROVE  WriteStep
  <1>1. UNCHANGED <<txTick, txBit, txBuf, level, out, reader, written, pc, speed>>
    BY DEF PeerStarts, Read, Flush, timer, tx, outside
  <1>2. port \in [Ports -> PortType]  BY HearParts DEF WriteInv
  <1>3. \A q \in Ports : port'[q].speed = port[q].speed /\ (port'[q].pending => port[q].pending)
    <2>1. CASE PeerStarts(p)  BY <2>1 DEF PeerStarts
    <2>2. CASE Read(p)
      <3>1. \E n : port' = [port EXCEPT ![p].head = n]  BY <2>2 DEF Read
      <3> QED  BY <1>2, <3>1, ZenonT(30) DEF PortType
    <2>3. CASE Flush(p)
      <3>1. port' = [port EXCEPT ![p].head = 0, ![p].tail = 0]  BY <2>3 DEF Flush
      <3> QED  BY <1>2, <3>1, Zenon DEF PortType
    <2> QED  BY <2>1, <2>2, <2>3
  <1> QED  BY <1>1, <1>3, SendKept, UserKept DEF WriteStep

\* Every step keeps what is sent.
LEMMA WriteKeeps ==
    ASSUME Careful, WriteInv, [Next]_vars
    PROVE  WriteInv'
  <1>1. HearInv' /\ RingHoldsUnread'  BY HearStep DEF WriteInv
  <1>2. WriteStep
    <2>1. CASE Tick  BY <2>1, TickWrites
    <2>2. CASE Go  BY <2>2, GoWrites
    <2>3. ASSUME NEW p \in Ports, Sketch(p) \/ PeerStarts(p) PROVE WriteStep
      BY <2>3, CallWrites, RestWrites DEF Sketch
    <2>4. CASE UNCHANGED vars
      <3>1. UNCHANGED <<txTick, txBit, txBuf, level, out, reader, written, pc, speed, port>>
        BY <2>4 DEF vars, timer, tx, outside
      <3> QED  BY <3>1, SendKept, UserKept DEF WriteStep
    <2> QED  BY <2>1, <2>2, <2>3, <2>4 DEF Next
  <1> QED  BY <1>1, <1>2 DEF WriteInv, WriteStep

\* Nothing is sent at first.
LEMMA WriteInit == Init => WriteInv
  <1> SUFFICES ASSUME Init PROVE WriteInv  OBVIOUS
  <1>1. HearInv /\ RingHoldsUnread  BY HearInit
  <1>2. Waiting \in ReaderType /\ Waiting.at = -1 /\ Waiting.got = <<>> /\ ~Waiting.broken
    <2>1. -1 \in Int /\ <<>> \in Seq(Bits) /\ <<>> \in Seq(Int) /\ FALSE \in BOOLEAN  OBVIOUS
    <2>2. Waiting = [at |-> -1, bits |-> <<>>, got |-> <<>>, broken |-> FALSE]  BY DEF Waiting
    <2>3. Waiting \in ReaderType  BY <2>1, <2>2, ReaderRecord, Zenon
    <2> QED  BY <2>2, <2>3, Zenon
  <1>3. \A p \in Ports : Invert(p, 1) \in Bits  BY InvertBack DEF Bits
  <1>4. \A p \in Ports : /\ reader[p] = Waiting /\ written[p] = <<>> /\ level[p] = Invert(p, 1)
                         /\ port[p] = NewPort
    BY DEF Init
  <1>5. WriteType  BY <1>2, <1>3 DEF Init, WriteType, Someone
  <1>6. pc.call = "none" /\ out = NoPort  BY DEF Init, Idle
  <1>7. ~Writes /\ \A p \in Ports : ~port[p].pending
    <2>1. ~Writes  BY <1>6 DEF Writes
    <2>2. ~NewPort.pending  BY Zenon DEF NewPort
    <2> QED  BY <1>4, <2>1, <2>2, Zenon
  <1>8. UserInv  BY <1>4, <1>6, <1>7 DEF UserInv
  <1>9. SendInv  BY <1>2, <1>4, <1>6 DEF SendInv, Silent
  <1> QED  BY <1>1, <1>5, <1>8, <1>9 DEF WriteInv

\* All bytes but the one on its way were read.
LEMMA WriteInvIsSafe == WriteInv => SentAsWritten
  <1> SUFFICES ASSUME WriteInv, NEW p \in Ports
               PROVE  ~reader[p].broken /\ reader[p].got = SubSeq(written[p], 1, Len(reader[p].got))
    BY DEF SentAsWritten
  <1>1. PICK w \in Seq(Int), g \in Seq(Int) : w = written[p] /\ g = reader[p].got
    BY DEF WriteInv, WriteType, ReaderType
  <1>2. ~reader[p].broken /\ (g = w \/ \E b \in Int : Append(g, b) = w)
    <2>1. CASE p # out  BY <1>1, <2>1 DEF WriteInv, SendInv, Silent
    <2>2. CASE p = out
      <3>1. PICK b \in Bytes : Sending(p, b)  BY <2>2, SoftwareSerialAssumption DEF WriteInv, SendInv
      <3>2. b \in Int  BY FrameOf
      <3>3. At(p, b, txBit, txTick, txBuf, level[p], reader[p], w)  BY <1>1, <3>1 DEF Sending
      <3>4. ~reader[p].broken  BY <3>3, Zenon DEF At
      <3>5. txBit \in 0..10 /\ txTick \in 1..3  BY <3>3, Zenon DEF At
      <3>6. CASE txBit = 0  BY <1>1, <3>2, <3>3, <3>4, <3>6, Zenon DEF At
      <3>7. CASE txBit \in 1..9 \/ (txBit = 10 /\ txTick = 3)
        BY <1>1, <3>2, <3>3, <3>4, <3>7, Zenon DEF At
      <3>8. CASE txBit = 10 /\ txTick < 3  BY <1>1, <3>3, <3>4, <3>8, Zenon DEF At
      <3> QED  BY <3>5, <3>6, <3>7, <3>8
    <2> QED  BY <2>1, <2>2
  <1>3. CASE g = w  BY <1>1, <1>2, <1>3
  <1>4. CASE \E b \in Int : Append(g, b) = w
    <2>1. PICK b \in Int : Append(g, b) = w  BY <1>4
    <2>2. SubSeq(w, 1, Len(g)) = g  BY <2>1, FrontOf
    <2> QED  BY <1>1, <1>2, <2>2
  <1> QED  BY <1>2, <1>3, <1>4

\* While no other port writes and nobody changes the listener after a port has
\* written, the peer of a port reads exactly the bytes that were written, in
\* order, none broken, whatever is received meanwhile: send() shifts a frame
\* out bit by bit, and write() neither changes a frame that is under way nor
\* the timer that paces it (SoftwareSerial.cpp:156-177, 220-237).
THEOREM AlwaysSentAsWritten == ASSUME Careful PROVE Spec => []SentAsWritten
  <1>1. Init => WriteInv  BY WriteInit
  <1>2. WriteInv /\ [Next]_vars => WriteInv'  BY WriteKeeps
  <1>3. WriteInv => SentAsWritten  BY WriteInvIsSafe
  <1> QED  BY <1>1, <1>2, <1>3, PTL DEF Spec
=============================================================================
